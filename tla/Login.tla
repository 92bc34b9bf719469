-------------------------------- MODULE Login --------------------------------
(***************************************************************************)
(* The login wizard: LoginSession over LoginFlow (core/auth.py), one per   *)
(* process, driven by the requests of several browser tabs (the /tg-login  *)
(* routes of web/app.py) that await Telegram on one connection.  Telegram  *)
(* answers in the order it was asked; the code that is good is the one of  *)
(* the last hash it gave.                                                  *)
(***************************************************************************)
EXTENDS Integers, Sequences, FiniteSets

CONSTANTS
    Tabs,         \* requests that may be under way at once
    TwoFactor,    \* the account has a 2FA password
    MaxCodes,     \* bound: codes sent in a run
    MaxSteps      \* bound: steps the tabs try in a run

NoHash == 0

VARIABLES
    wizard,   \* the state: phone, sending, code, password, done
    flow,     \* the flow: whether the phone is known, the code hash
    asked,    \* requests Telegram has not answered, in order: tab, kind, hash
    waiting,  \* the tabs whose request is under way
    server,   \* Telegram: the last hash, authorized or not, the code was right
    saved,    \* the session file holds an authorized session
    cut,      \* history: an answer that carried a new hash was cut off
    steps

loginVars == <<wizard, flow, asked, waiting, server, saved, cut, steps>>

NewFlow == [phone |-> FALSE, hash |-> NoHash]

LoginInit ==
    /\ wizard = "phone" /\ flow = NewFlow
    /\ asked = <<>> /\ waiting = {}
    /\ server = [hash |-> NoHash, ready |-> FALSE, authorized |-> FALSE]
    /\ saved = FALSE /\ cut = FALSE /\ steps = 0

Ask(tab, kind, hash) ==
    /\ tab \notin waiting /\ steps < MaxSteps
    /\ steps' = steps + 1
    /\ asked' = Append(asked, [tab |-> tab, kind |-> kind, hash |-> hash])
    /\ waiting' = waiting \union {tab}

-----------------------------------------------------------------------------
(* The steps: the guard before the first await *)

\* submit_phone: the slot is claimed before the code is asked for.
SubmitPhone(tab) ==
    /\ wizard = "phone"
    /\ Ask(tab, "phone", NoHash)
    /\ wizard' = "sending"
    /\ UNCHANGED <<flow, server, saved, cut>>

\* resend
Resend(tab) ==
    /\ wizard \in {"code", "password"}
    /\ Ask(tab, "resend", flow.hash)
    /\ UNCHANGED <<wizard, flow, server, saved, cut>>

\* submit_code, with the hash as it is then
SubmitCode(tab) ==
    /\ wizard = "code"
    /\ Ask(tab, "code", flow.hash)
    /\ UNCHANGED <<wizard, flow, server, saved, cut>>

SubmitPassword(tab) ==
    /\ wizard = "password"
    /\ Ask(tab, "password", NoHash)
    /\ UNCHANGED <<wizard, flow, server, saved, cut>>

\* A mutation of MayReset: the form starts every login anew.
FaultAlwaysResets == TRUE

MayReset == wizard = "done"

\* GET /tg-login: reset, then the card of the state.
OpenForm ==
    /\ steps < MaxSteps /\ steps' = steps + 1
    /\ IF MayReset THEN wizard' = "phone" /\ flow' = NewFlow ELSE UNCHANGED <<wizard, flow>>
    /\ UNCHANGED <<asked, waiting, server, saved, cut>>

-----------------------------------------------------------------------------
(* Telegram's answers *)

Answered ==
    /\ asked # <<>>
    /\ asked' = Tail(asked)
    /\ waiting' = waiting \ {Head(asked).tab}
    /\ UNCHANGED steps

\* _bind: a code was sent, under a new hash.
CodeSent ==
    /\ asked # <<>> /\ Head(asked).kind \in {"phone", "resend"}
    /\ server.hash < MaxCodes /\ ~server.authorized
    /\ Head(asked).kind = "resend" => Head(asked).hash = server.hash
    /\ Answered
    /\ server' = [server EXCEPT !.hash = @ + 1, !.ready = FALSE]
    /\ flow' = [phone |-> TRUE, hash |-> server.hash + 1]
    /\ wizard' = IF Head(asked).kind = "phone" THEN "code" ELSE wizard
    /\ UNCHANGED <<saved, cut>>

\* A mutation of RolledBack: only a refused phone frees the slot.
FaultKeepsClaim == wizard

\* The state after a step that failed.
RolledBack == IF Head(asked).kind = "phone" THEN "phone" ELSE wizard

\* A wrong code or password, an expired code, a refused phone, a flood wait,
\* a resend refused.
StepFails ==
    /\ asked # <<>>
    /\ Answered
    /\ wizard' = RolledBack
    /\ UNCHANGED <<flow, server, saved, cut>>

\* A request is cancelled when Telegram has already sent the code.
CutOff ==
    /\ asked # <<>> /\ Head(asked).kind \in {"phone", "resend"}
    /\ server.hash < MaxCodes /\ ~server.authorized
    /\ Answered
    /\ server' = [server EXCEPT !.hash = @ + 1, !.ready = FALSE]
    /\ wizard' = RolledBack
    /\ cut' = TRUE
    /\ UNCHANGED <<flow, saved>>

\* sign_in with the right code.
CodeAccepted ==
    /\ asked # <<>> /\ Head(asked).kind = "code"
    /\ Head(asked).hash = server.hash /\ ~server.authorized
    /\ Answered
    /\ IF TwoFactor
       THEN /\ server' = [server EXCEPT !.ready = TRUE]
            /\ wizard' = "password" /\ UNCHANGED saved
       ELSE /\ server' = [server EXCEPT !.authorized = TRUE]
            /\ wizard' = "done" /\ saved' \in {TRUE, saved}
    /\ UNCHANGED <<flow, cut>>

\* check_password; _save_after_login, which may fail.
PasswordAccepted ==
    /\ asked # <<>> /\ Head(asked).kind = "password"
    /\ server.ready
    /\ Answered
    /\ server' = [server EXCEPT !.authorized = TRUE]
    /\ wizard' = "done" /\ saved' \in {TRUE, saved}
    /\ UNCHANGED <<flow, cut>>

LoginNext ==
    \/ \E tab \in Tabs : SubmitPhone(tab) \/ Resend(tab) \/ SubmitCode(tab) \/ SubmitPassword(tab)
    \/ OpenForm
    \/ CodeSent \/ StepFails \/ CutOff \/ CodeAccepted \/ PasswordAccepted

\* Every request is answered, or its connection fails.
LoginFairness == WF_loginVars(CodeSent \/ StepFails \/ CutOff \/ CodeAccepted \/ PasswordAccepted)

LoginSpec == LoginInit /\ [][LoginNext]_loginVars /\ LoginFairness

-----------------------------------------------------------------------------
(* Properties *)

\* While the wizard asks for the code, the hash it holds is the last one that
\* Telegram gave: a second tab's phone does not clobber it (submit_phone's
\* comment on the racing POST, reset's on the live hash).
HashIsLive ==
    wizard \in {"code", "password"} => flow.hash # NoHash /\ (flow.hash = server.hash \/ cut)

\* The claimed slot is given back: the wizard does not stay in sending.
ClaimIsReleased == (wizard = "sending") ~> (wizard # "sending")
=============================================================================
