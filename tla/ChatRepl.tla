------------------------------ MODULE ChatRepl ------------------------------
(***************************************************************************)
(* `tg-messenger chat` (cli/main.py): one loop reads lines and sends them, *)
(* through the outbound coordinator when there is one, while the printers  *)
(* take incoming and outgoing events from the bus and spawn translations.  *)
(* The printers subscribe before the dialogs are read, and on the way out  *)
(* they are given a tick before they are cancelled.                        *)
(*                                                                         *)
(* All of it runs on one event loop: a step lasts until the next await.  A *)
(* printer whose queue has events is already scheduled, and takes all of   *)
(* them in one step, because a get of a queue that is not empty does not   *)
(* suspend.  Text, the reactions' printer and the store are left out.      *)
(***************************************************************************)
EXTENDS Naturals, Sequences, FiniteSets

CONSTANTS
    IsBot,         \* the dialog is with a bot
    Outbound,      \* the outbound translator is configured
    MaxTranslations,   \* max_inflight_translations
    MaxEvents,     \* bound: messages of the dialog in a run
    MaxLines       \* bound: lines read

Printers == {"in", "out"}
LineKinds == {"blank", "help", "react", "lang", "slash", "text"}

VARIABLES
    at,          \* where the main task is
    kind,        \* dialog_kind: whether the dialog is known to be a bot's
    linesRead,       \* lines read
    queue,       \* the printers' subscriptions
    alive,       \* the printers that have not failed
    newest,        \* the dialog's newest message
    sentIds,     \* sent_ids
    printed,     \* the messages printed
    translating,    \* translations under way
    due,         \* history: the events a living printer owes the screen
    mid          \* the message Telegram has taken for the send under way, 0 for none

chatVars == <<at, kind, linesRead, queue, alive, newest, sentIds, printed, translating, due, mid>>

ChatInit ==
    /\ at = "connecting"
    /\ kind = "unknown"
    /\ linesRead = 0
    /\ queue = [p \in Printers |-> <<>>]
    /\ alive = {}
    /\ newest = 0
    /\ sentIds = {} /\ printed = {} /\ translating = {} /\ due = {}
    /\ mid = 0

-----------------------------------------------------------------------------
(* Telegram and the bus *)

\* A publish without a subscriber is a silent no-op.
Published(p, id) == [queue EXCEPT ![p] = IF p \in alive THEN Append(@, id) ELSE @]

\* Owed: published after the printers' first step and before the loop is left.
Owed(p, id) ==
    IF p \in alive /\ at \notin {"leaving", "cancelling"} THEN due \cup {id} ELSE due

\* Somebody writes: the contact, or the owner on another device.
Appears(p) ==
    /\ newest < MaxEvents
    /\ at \notin {"connecting", "closed"}
    /\ newest' = newest + 1
    /\ queue' = Published(p, newest + 1)
    /\ due' = Owed(p, newest + 1)
    /\ UNCHANGED <<at, kind, linesRead, alive, sentIds, printed, translating, mid>>

\* Telegram takes the line; its outgoing event may overtake the answer.
Land ==
    /\ at = "sending" /\ mid = 0
    /\ newest < MaxEvents
    /\ newest' = newest + 1
    /\ mid' = newest + 1
    /\ queue' = Published("out", newest + 1)
    /\ due' = Owed("out", newest + 1)
    /\ UNCHANGED <<at, kind, linesRead, alive, sentIds, printed, translating>>

-----------------------------------------------------------------------------
(* The printers and the translations they spawn *)

Queued(p) == {queue[p][i] : i \in DOMAIN queue[p]}
Echoed(p) == Queued(p) \ (IF p = "out" THEN sentIds ELSE {})

\* _spawn_translation, message by message: one over the cap is skipped.
Spawned(ids) ==
    {chosen \in SUBSET ids :
        IF Cardinality(translating) + Cardinality(ids) <= MaxTranslations THEN chosen = ids
        ELSE Cardinality(translating) + Cardinality(chosen) = MaxTranslations}

PrintOne(p) ==
    /\ p \in alive /\ queue[p] # <<>>
    /\ printed' = printed \cup Echoed(p)
    /\ \E chosen \in Spawned(Echoed(p)) : translating' = translating \cup chosen
    /\ queue' = [queue EXCEPT ![p] = <<>>]
    /\ UNCHANGED <<at, kind, linesRead, alive, newest, sentIds, due, mid>>

\* A listener fails: it is reported on the way out.
PrinterFails(p) ==
    /\ p \in alive /\ Cardinality(alive) > 1 /\ at = "reading"
    /\ alive' = alive \ {p}
    /\ queue' = [queue EXCEPT ![p] = <<>>]
    /\ due' = due \ Queued(p)
    /\ UNCHANGED <<at, kind, linesRead, newest, sentIds, printed, translating, mid>>

\* _echo_translation ends, with a translation or an error that is logged.
TranslationEnds ==
    /\ \E id \in translating : translating' = translating \ {id}
    /\ UNCHANGED <<at, kind, linesRead, queue, alive, newest, sentIds, printed, due, mid>>

-----------------------------------------------------------------------------
(* The main task *)

Goes(from, to) ==
    /\ at = from /\ at' = to
    /\ UNCHANGED <<kind, linesRead, queue, alive, newest, sentIds, printed, translating, due, mid>>

\* Or the account is not logged in: the command is over.
Connect == Goes("connecting", "connected") \/ Goes("connecting", "closed")

\* The printers' first step, in the tick before the dialogs are read.
Subscribe ==
    /\ at = "connected"
    /\ at' = "dialogs"
    /\ alive' = Printers
    /\ UNCHANGED <<kind, linesRead, queue, newest, sentIds, printed, translating, due, mid>>

\* The dialogs are read, or cannot be: then the dialog may be anybody's.
ReadDialogs ==
    /\ at = "dialogs"
    /\ at' = "reading"
    /\ kind' \in {"unknown", IF IsBot THEN "bot" ELSE "person"}
    /\ UNCHANGED <<linesRead, queue, alive, newest, sentIds, printed, translating, due, mid>>

\* What a line makes the loop do; an unknown command is sent to bots only.
After(line) ==
    CASE line \in {"react", "lang"} -> {line}
      [] line = "text" -> {IF Outbound THEN "preparing" ELSE "sending"}
      [] line = "slash" /\ kind = "bot" -> {IF Outbound THEN "preparing" ELSE "sending"}
      [] OTHER -> {"reading"}

ReadLine(line) ==
    /\ at = "reading" /\ linesRead < MaxLines
    /\ linesRead' = linesRead + 1
    /\ at' \in After(line)
    /\ UNCHANGED <<kind, queue, alive, newest, sentIds, printed, translating, due, mid>>

\* The reaction or the setting is done, refused or failed with a message.
Answered == Goes("react", "reading") \/ Goes("lang", "reading")

\* coordinator.prepare: the original as it is, an error, or variants to pick from.
Prepared == Goes("preparing", "sending") \/ Goes("preparing", "confirm") \/ Goes("preparing", "picking")

Chosen ==
    \/ Goes("confirm", "sending") \/ Goes("picking", "sending")
    \/ Goes("confirm", "reading") \/ Goes("picking", "reading")

\* The send has returned: its id is kept so that its echo is not printed.
LineReturns ==
    /\ at = "sending" /\ mid # 0
    /\ at' = "reading"
    /\ sentIds' = sentIds \cup {mid}
    /\ mid' = 0
    /\ UNCHANGED <<kind, linesRead, queue, alive, newest, printed, translating, due>>

\* SendForbiddenError, and OutboundError, leave the loop alive.
SendRefused ==
    /\ mid = 0
    /\ Goes("sending", "reading")

\* The end of the input at any prompt, Ctrl+C or an error at any await.
Leave ==
    /\ at \notin {"connecting", "connected", "leaving", "cancelling", "closed"}
    /\ at' = "leaving"
    /\ mid' = 0
    /\ UNCHANGED <<kind, linesRead, queue, alive, newest, sentIds, printed, translating, due>>

\* A mutation of Ticked: the printers are cancelled in the step that left the loop.
FaultCancelsAtOnce == {}

\* The printers that run in the tick before the cancellation.
Ticked == alive

Tick ==
    /\ at = "leaving"
    /\ at' = "cancelling"
    /\ printed' = printed \cup UNION {Echoed(p) : p \in Ticked}
    /\ queue' = [p \in Printers |-> IF p \in Ticked THEN <<>> ELSE queue[p]]
    /\ UNCHANGED <<kind, linesRead, alive, newest, sentIds, translating, due, mid>>

\* The printers and the translations are cancelled, the store and the client closed.
Close ==
    /\ at = "cancelling"
    /\ at' = "closed"
    /\ alive' = {} /\ translating' = {}
    /\ queue' = [p \in Printers |-> <<>>]
    /\ UNCHANGED <<kind, linesRead, newest, sentIds, printed, due, mid>>

ChatNext ==
    \/ \E p \in Printers : Appears(p) \/ PrintOne(p) \/ PrinterFails(p)
    \/ \E line \in LineKinds : ReadLine(line)
    \/ Land \/ TranslationEnds \/ Connect \/ Subscribe \/ ReadDialogs \/ Answered \/ Prepared
    \/ Chosen \/ LineReturns \/ SendRefused \/ Leave \/ Tick \/ Close

ChatSpec == ChatInit /\ [][ChatNext]_chatVars

-----------------------------------------------------------------------------
\* No event is lost: when the session has closed, every event published after the
\* printers' first step and before the loop was left has been printed, or is the
\* echo of a line sent from here (#276).
PrintedBeforeExit == at = "closed" => due \subseteq printed \cup sentIds
=============================================================================
