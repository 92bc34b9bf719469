------------------------------- MODULE Nudges -------------------------------
(***************************************************************************)
(* Read receipts and nudges (agent/suggest.py) for one dialog.  One        *)
(* process, of chat, heartbeat run or ghostwrite, records the outbox       *)
(* receipts in two keys of the kv table, one statement each; another,      *)
(* suggest-nudges, reads the two keys, then the history, and drafts a      *)
(* nudge or drops a spent receipt.  They share only the table, whose       *)
(* statements are atomic.                                                  *)
(*                                                                         *)
(* A message is its id and whose it is; drafts and profiles are left out.  *)
(***************************************************************************)
EXTENDS Integers, Sequences, FiniteSets

CONSTANTS
    After,        \* after_sec
    MaxIds,       \* bound: messages of the dialog
    MaxReceipts,  \* bound: receipts in a run
    MaxHour       \* bound: the clock

ASSUME NudgesAssumption == MaxIds \in Nat

None == 0

VARIABLES
    hour,
    dialog,    \* the messages: dialog[id] is TRUE for one of ours
    receipts,  \* the outbox receipts on their way: max_id
    received,  \* how many there were
    recorder,  \* record_last_read: the receipt whose read_at is not written yet
    settings,        \* last_read and read_at
    enabled,   \* suggest_enabled
    nudger,    \* nudge_candidates: what it has read so far
    stamped,   \* history: per message of ours, when a receipt first covered it
    drafts     \* history: the candidates returned: for which message

nudgeVars == <<hour, dialog, receipts, received, recorder, settings, enabled, nudger, stamped,
               drafts>>

Rest == [stage |-> "rest"]

NudgeInit ==
    /\ hour = 1 /\ dialog = <<>> /\ receipts = <<>> /\ received = 0
    /\ recorder = None
    /\ settings = [last |-> None, at |-> None]
    /\ enabled = TRUE
    /\ nudger = Rest
    /\ stamped = [id \in 1..MaxIds |-> None]
    /\ drafts = {}

-----------------------------------------------------------------------------
(* The dialog *)

HourPasses ==
    /\ hour < MaxHour
    /\ hour' = hour + 1
    /\ UNCHANGED <<dialog, receipts, received, recorder, settings, enabled, nudger, stamped, drafts>>

SomeoneWrites(ours) ==
    /\ Len(dialog) < MaxIds
    /\ dialog' = Append(dialog, ours)
    /\ UNCHANGED <<hour, receipts, received, recorder, settings, enabled, nudger, stamped, drafts>>

\* The contact has read up to the last message; the update may come twice or
\* never.
ContactReads ==
    /\ dialog # <<>> /\ received < MaxReceipts
    /\ receipts' = Append(receipts, Len(dialog))
    /\ received' = received + 1
    /\ UNCHANGED <<hour, dialog, recorder, settings, enabled, nudger, stamped, drafts>>

-----------------------------------------------------------------------------
(* watch_read_receipts, record_last_read *)

RecordLastRead ==
    /\ recorder = None /\ receipts # <<>>
    /\ recorder' = Head(receipts)
    /\ receipts' = Tail(receipts)
    /\ settings' = [settings EXCEPT !.last = Head(receipts)]
    /\ stamped' = [id \in DOMAIN stamped |->
                      IF id <= Head(receipts) /\ stamped[id] = None THEN hour ELSE stamped[id]]
    /\ UNCHANGED <<hour, dialog, received, enabled, nudger, drafts>>

RecordReadAt ==
    /\ recorder # None
    /\ recorder' = None
    /\ settings' = [settings EXCEPT !.at = hour]
    /\ UNCHANGED <<hour, dialog, receipts, received, enabled, nudger, stamped, drafts>>

\* A statement fails, or the process is stopped between the two.
RecorderStops ==
    /\ recorder # None
    /\ recorder' = None
    /\ UNCHANGED <<hour, dialog, receipts, received, settings, enabled, nudger, stamped, drafts>>

-----------------------------------------------------------------------------
(* nudge_candidates *)

\* load_last_read; now was read when the command started.
LoadLastRead ==
    /\ nudger = Rest
    /\ settings.last # None
    /\ nudger' = [stage |-> "last", now |-> hour, last |-> settings.last]
    /\ UNCHANGED <<hour, dialog, receipts, received, recorder, settings, enabled, stamped, drafts>>

\* load_read_at: no receipt, or one that is not aged, costs no request.
LoadReadAt ==
    /\ nudger.stage = "last"
    /\ nudger' = IF settings.at = None \/ nudger.now - settings.at < After THEN Rest
                 ELSE [stage |-> "aged", now |-> nudger.now, last |-> nudger.last, at |-> settings.at]
    /\ UNCHANGED <<hour, dialog, receipts, received, recorder, settings, enabled, stamped, drafts>>

\* A mutation of Covers: whatever was read last will do.
FaultAnyReceipt(last, id) == TRUE

Covers(last, id) == last >= id

\* should_nudge on the history as fetched.
ShouldNudge(tail) == dialog[tail] /\ Covers(nudger.last, tail)

FetchHistory ==
    /\ nudger.stage = "aged"
    /\ LET tail == Len(dialog) IN
           nudger' = IF tail = 0 THEN Rest
                     ELSE IF ShouldNudge(tail) THEN
                         [stage |-> "draft", id |-> tail]
                     ELSE IF ~dialog[tail] \/ nudger.last < tail THEN
                         [stage |-> "spent"]
                     ELSE Rest
    /\ UNCHANGED <<hour, dialog, receipts, received, recorder, settings, enabled, stamped, drafts>>

\* clear_last_read: one statement for the two keys.
ClearLastRead ==
    /\ nudger.stage = "spent"
    /\ settings' = [last |-> None, at |-> None]
    /\ nudger' = Rest
    /\ UNCHANGED <<hour, dialog, receipts, received, recorder, enabled, stamped, drafts>>

\* suggest: empty when disabled, a candidate all the same.
Draft ==
    /\ nudger.stage = "draft"
    /\ drafts' = drafts \union {[id |-> nudger.id, text |-> enabled]}
    /\ nudger' = Rest
    /\ UNCHANGED <<hour, dialog, receipts, received, recorder, settings, enabled, stamped>>

\* A request or the model raises: no candidate; or the command is stopped.
NudgerFails ==
    /\ nudger # Rest
    /\ nudger' = Rest
    /\ UNCHANGED <<hour, dialog, receipts, received, recorder, settings, enabled, stamped, drafts>>

\* set_suggest_settings
SetEnabled ==
    /\ enabled' = ~enabled
    /\ UNCHANGED <<hour, dialog, receipts, received, recorder, settings, nudger, stamped, drafts>>

NudgeNext ==
    \/ HourPasses \/ ContactReads \/ \E ours \in BOOLEAN : SomeoneWrites(ours)
    \/ RecordLastRead \/ RecordReadAt \/ RecorderStops
    \/ LoadLastRead \/ LoadReadAt \/ FetchHistory \/ ClearLastRead \/ Draft \/ NudgerFails
    \/ SetEnabled

NudgeSpec == NudgeInit /\ [][NudgeNext]_nudgeVars

-----------------------------------------------------------------------------
(* Properties *)

\* A nudge is drafted only for a message of ours that a receipt covers, though
\* the receipt, its time and the history are read one after the other while
\* the other process replaces them (should_nudge).
NudgesTheRead ==
    \A d \in drafts : dialog[d.id] /\ stamped[d.id] # None
=============================================================================
