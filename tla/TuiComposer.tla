---------------------------- MODULE TuiComposer ----------------------------
(***************************************************************************)
(* The composer of the terminal UI (tui/app.py): one input for all chats,  *)
(* a draft per chat, the outbound flow that offers translations before a   *)
(* send, the sends on their way, and the suggester's reply accepted with   *)
(* Tab.  A text is its number and whether it is a translated variant;      *)
(* typing makes a new one.  Commands, media and bot messages bypass the    *)
(* flow.  The handler of a programmatic change finds what it would write.  *)
(***************************************************************************)
EXTENDS Integers, FiniteSets

CONSTANTS
    Rooms,    \* dialog ids
    MaxTexts, \* texts typed or suggested
    MaxFails  \* sends that fail

Empty == [n |-> 0, form |-> "plain"]
Plain(n) == [n |-> n, form |-> "plain"]
Variant(t) == [t EXCEPT !.form = "variant"]
NoFlow == [room |-> 0, text |-> Empty, at |-> "idle"]

VARIABLES
    room,      \* _current
    box,       \* the composer's value
    states,    \* ComposeState per room: draft, source_text, confirmed original
    flow,      \* the worker of the exclusive group "outbound"
    sends,     \* sends on their way: to, text, and whether the flow awaits them
    thinking,  \* rooms a suggestion is being written for
    suggested, \* _pending_suggestion
    texts,     \* history variable: where each text was typed or suggested for
    times,     \* history variable: how often each text was handed to the client
    fails      \* history variable: sends that failed, per text

composerVars == <<room, box, states, flow, sends, thinking, suggested, texts, times, fails>>

Blank == [draft |-> Empty, source |-> Empty, confirm |-> Empty]

ComposerInit ==
    /\ room \in Rooms /\ box = Empty
    /\ states = [r \in Rooms |-> Blank]
    /\ flow = NoFlow /\ sends = {} /\ thinking = {} /\ suggested = Empty
    /\ texts = <<>> /\ times = <<>> /\ fails = <<>>

Modal == flow.at = "picking"

NewText(r) ==
    /\ Cardinality(DOMAIN texts) < MaxTexts
    /\ texts' = [n \in 1..(Cardinality(DOMAIN texts) + 1) |-> IF n \in DOMAIN texts THEN texts[n] ELSE r]
    /\ times' = [n \in DOMAIN texts' |-> IF n \in DOMAIN times THEN times[n] ELSE 0]
    /\ fails' = [n \in DOMAIN texts' |-> IF n \in DOMAIN fails THEN fails[n] ELSE 0]

TheNewText == Plain(Cardinality(DOMAIN texts) + 1)

-----------------------------------------------------------------------------
(* Typing and switching *)

\* on_input_changed: an edit is a new draft; the variant behind it is void.
Type ==
    /\ ~ Modal
    /\ NewText(room)
    /\ box' = TheNewText
    /\ states' = [states EXCEPT ![room] = [Blank EXCEPT !.draft = TheNewText]]
    /\ suggested' = Empty
    /\ UNCHANGED <<room, flow, sends, thinking>>

\* The text is deleted, or cleared with a second Escape.
Erase ==
    /\ ~ Modal /\ box # Empty
    /\ box' = Empty
    /\ states' = [states EXCEPT ![room] = Blank]
    /\ suggested' = Empty
    /\ UNCHANGED <<room, flow, sends, thinking, texts, times, fails>>

\* _save_current_compose_state, then _restore_compose_state.
Enter(r) ==
    /\ ~ Modal /\ r # room
    /\ room' = r
    /\ box' = states[r].draft
    /\ states' = [states EXCEPT ![room].draft = box]
    /\ suggested' = Empty
    /\ UNCHANGED <<flow, sends, thinking, texts, times, fails>>

\* Into the composer, if it is that of the room.
IntoBox(r, text) == box' = IF r = room THEN text ELSE box

-----------------------------------------------------------------------------
(* Sending *)

\* A text is handed to the client.
Sends(r, text, byFlow) ==
    /\ sends' = sends \union {[to |-> r, text |-> text, byFlow |-> byFlow]}
    /\ times' = [times EXCEPT ![text.n] = @ + 1]

\* A mutation of OptimisticClear: the text stays until the send returns.
FaultClearsLate == UNCHANGED <<states, box>>

\* _optimistic_clear: draft, variant and composer, before the send.
OptimisticClear == states' = [states EXCEPT ![room] = Blank] /\ box' = Empty

\* A worker of its own: for a variant or an original that was confirmed, and for
\* what bypasses the flow (no translator, a file, a bot).
SubmitDirectly ==
    /\ ~ Modal /\ box # Empty
    /\ Sends(room, box, FALSE)
    /\ OptimisticClear
    /\ UNCHANGED <<room, flow, thinking, suggested, texts, fails>>

\* A worker started in an exclusive group cancels the one before, and the send
\* that one may be awaiting.
SubmitToFlow ==
    /\ ~ Modal /\ box # Empty
    /\ states[room].source = Empty /\ states[room].confirm # box
    /\ flow' = [room |-> room, text |-> box, at |-> "preparing"]
    /\ sends' = {s \in sends : ~ s.byFlow}
    /\ states' = [states EXCEPT ![room].draft = box]
    /\ box' = Empty
    /\ UNCHANGED <<room, thinking, suggested, texts, times, fails>>

\* prepare: the room needs no translation; the text is sent as it is, by the
\* flow's own worker.
NotApplicable ==
    /\ flow.at = "preparing"
    /\ box' = IF flow.room = room /\ box = flow.text THEN Empty ELSE box
    /\ states' = [states EXCEPT ![flow.room] = Blank]
    /\ Sends(flow.room, flow.text, TRUE)
    /\ flow' = [flow EXCEPT !.at = "sending"]
    /\ UNCHANGED <<room, thinking, suggested, texts, fails>>

\* Translation is disabled, failed or timed out: Enter sends the original.
NotReady ==
    /\ flow.at = "preparing"
    /\ states' = [states EXCEPT ![flow.room] = [Blank EXCEPT !.draft = flow.text, !.confirm = flow.text]]
    /\ IntoBox(flow.room, flow.text)
    /\ flow' = NoFlow
    /\ UNCHANGED <<room, sends, thinking, suggested, texts, times, fails>>

\* The variants are ready: the modal opens over whatever room is open.
Offer ==
    /\ flow.at = "preparing"
    /\ flow' = [flow EXCEPT !.at = "picking"]
    /\ UNCHANGED <<room, box, states, sends, thinking, suggested, texts, times, fails>>

\* A mutation of Picked: the variant goes into the composer on screen.
FaultIntoAnyBox(text) == box' = text

\* What was picked goes into the composer of its own room.
Picked(text) == IntoBox(flow.room, text)

Pick ==
    /\ flow.at = "picking"
    /\ \/ /\ Picked(Variant(flow.text))
          /\ states' = [states EXCEPT ![flow.room] =
                            [draft |-> Variant(flow.text), source |-> flow.text, confirm |-> Empty]]
       \/ /\ Picked(flow.text) \* send the original
          /\ states' = [states EXCEPT ![flow.room] =
                            [draft |-> flow.text, source |-> Empty, confirm |-> flow.text]]
       \/ /\ Picked(flow.text) \* Escape
          /\ UNCHANGED states
    /\ flow' = NoFlow
    /\ UNCHANGED <<room, sends, thinking, suggested, texts, times, fails>>

FlowAfter(s) == IF s.byFlow THEN NoFlow ELSE flow

\* _clear_compose_state_after_send.
SendDone(s) ==
    /\ sends' = sends \ {s}
    /\ states' = [states EXCEPT ![s.to] =
                    [Blank EXCEPT !.draft = IF states[s.to].draft = s.text THEN Empty ELSE states[s.to].draft]]
    /\ box' = IF s.to = room /\ box = s.text THEN Empty ELSE box
    /\ flow' = FlowAfter(s)
    /\ UNCHANGED <<room, thinking, suggested, texts, times, fails>>

\* _restore_draft, for every error.
SendFails(s) ==
    /\ \A n \in DOMAIN fails : fails[n] < MaxFails
    /\ sends' = sends \ {s}
    /\ fails' = [fails EXCEPT ![s.text.n] = @ + 1]
    /\ states' = [states EXCEPT ![s.to].draft = s.text]
    /\ box' = IF s.to = room /\ box = Empty THEN s.text ELSE box
    /\ flow' = FlowAfter(s)
    /\ UNCHANGED <<room, thinking, suggested, texts, times>>

-----------------------------------------------------------------------------
(* The suggester *)

\* Ctrl+G, or a message that arrives; the group is exclusive.
Think ==
    /\ box = Empty /\ ~ Modal
    /\ thinking' = {room}
    /\ UNCHANGED <<room, box, states, flow, sends, suggested, texts, times, fails>>

\* After the model's answer: "the user may have switched dialogs or started
\* typing while we waited".
StillWanted(r) == r = room /\ box = Empty

Suggest(r) ==
    /\ r \in thinking
    /\ thinking' = {}
    /\ IF StillWanted(r)
       THEN NewText(r) /\ suggested' = TheNewText
       ELSE UNCHANGED <<suggested, texts, times, fails>>
    /\ UNCHANGED <<room, box, states, flow, sends>>

\* Tab.
Accept ==
    /\ ~ Modal /\ suggested # Empty
    /\ box' = suggested
    /\ states' = [states EXCEPT ![room].draft = suggested]
    /\ suggested' = Empty
    /\ UNCHANGED <<room, flow, sends, thinking, texts, times, fails>>

ComposerNext ==
    \/ Type \/ Erase \/ SubmitDirectly \/ SubmitToFlow
    \/ \E r \in Rooms : Enter(r) \/ Suggest(r)
    \/ NotApplicable \/ NotReady \/ Offer \/ Pick
    \/ \E s \in sends : SendDone(s) \/ SendFails(s)
    \/ Think \/ Accept

ComposerSpec == ComposerInit /\ [][ComposerNext]_composerVars

-----------------------------------------------------------------------------
(* Properties *)

\* A text is only ever sent to the room it was typed in, or suggested for,
\* through switches while it is translated, picked, written or sent.
RightRecipient == \A s \in sends : texts[s.text.n] = s.to

\* A text typed once is handed to the client once, and once more per failure:
\* no copy of it stays behind in a draft or in the composer.
SentAsOftenAsTyped == \A n \in DOMAIN texts : times[n] <= 1 + fails[n]

\* _optimistic_clear: every branch clears the draft "except the outbound-flow
\* branch, which keeps the draft": it is still there when another room is opened
\* while the text is being translated.
FlowKeepsDraft ==
    [][flow.at = "preparing" /\ flow.room = room /\ room' # room
           => states'[room].draft = states[room].draft]_composerVars
=============================================================================
