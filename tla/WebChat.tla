------------------------------ MODULE WebChat ------------------------------
(***************************************************************************)
(* The web chat (web/app.py, web/state.py) and one browser with            *)
(* templates/chat.html: a history request per opened dialog, one event     *)
(* stream for the dialog that is open, sends whose answer is the bubble,   *)
(* translations that follow their message, and the read mark.  Requests,   *)
(* answers and events overtake each other.  Message ids are per dialog, as *)
(* Telegram's are for channels.  Rendering is left out.                    *)
(***************************************************************************)
EXTENDS Integers, Sequences, FiniteSets

CONSTANTS
    WebDialogs,
    MaxMessages, \* messages in all
    MaxInflight, \* MAX_INFLIGHT_TRANSLATIONS
    MaxRequests, \* requests of the browser in flight
    SentCap      \* DEFAULT_REMEMBER_CAP

VARIABLES
    msgs,    \* per dialog, the kind of each message Telegram has
    open,    \* the dialog open in the browser: #dialog_id and the stream
    pane,    \* bubbles in #messages
    lines,   \* translation lines: under which message, of which message
    loads,   \* history requests, and the newest id answered (0: none yet)
    posts,   \* send requests: sending, then the id taken, remembered, answered
    sent,    \* this browser's bucket, oldest first
    queues,  \* the stream's pending events, incoming and outgoing apart
    inflight, \* ids being translated for the stream
    reads,   \* POST /read on their way or running in the background
    read,    \* Telegram's read mark
    shown    \* history variable: messages that were in the open dialog's pane

pageVars == <<open, pane, lines, shown>>
webVars == <<msgs, pageVars, loads, posts, sent, queues, inflight, reads, read>>

Kinds == {"in", "out"}
NoEvents == [k \in Kinds |-> <<>>]

WebInit ==
    /\ msgs = [d \in WebDialogs |-> <<>>]
    /\ open \in WebDialogs
    /\ pane = {} /\ lines = {} /\ shown = {}
    /\ loads = {} /\ posts = {} /\ sent = <<>>
    /\ queues = NoEvents /\ inflight = {}
    /\ reads = {} /\ read = [d \in WebDialogs |-> 0]

\* The pane changes: what now belongs to the open dialog is on screen.
Shows(bubbles) ==
    /\ pane' = bubbles
    /\ shown' = shown \union {<<b.dialog, b.id>> : b \in {x \in bubbles : x.dialog = open}}

Requests == Cardinality(loads) + Cardinality(posts) + Cardinality(reads)

-----------------------------------------------------------------------------
(* Telegram *)

\* A message of someone else, of the owner's phone, or of this browser; the
\* stream hears of it if it is about its dialog.
Message(d, kind) ==
    /\ Cardinality({m \in WebDialogs \X (1..MaxMessages) : m[2] <= Len(msgs[m[1]])}) < MaxMessages
    /\ msgs' = [msgs EXCEPT ![d] = Append(@, kind)]
    /\ queues' = LET k == IF kind = "in" THEN "in" ELSE "out"
                 IN  IF d = open THEN [queues EXCEPT ![k] = Append(@, Len(msgs[d]) + 1)] ELSE queues

Arrives(d) ==
    /\ \E kind \in {"in", "phone"} : Message(d, kind)
    /\ UNCHANGED <<pageVars, loads, posts, sent, inflight, reads, read>>

-----------------------------------------------------------------------------
(* Opening a dialog *)

\* openDialog and the row's hx-get: the old stream is closed, which ends its
\* translations; the old bubbles stay until the new history arrives.
OpenDialog(d) ==
    /\ Requests < MaxRequests
    /\ ~ \E l \in loads : l.dialog = d
    /\ open' = d
    /\ loads' = loads \union {[dialog |-> d, newest |-> 0]}
    /\ queues' = NoEvents /\ inflight' = {}
    /\ UNCHANGED <<msgs, pane, lines, shown, posts, sent, reads, read>>

\* GET /dialogs/{id}/messages: the server reads the history.
Serve(l) ==
    /\ l.newest = 0 /\ Len(msgs[l.dialog]) > 0
    /\ loads' = (loads \ {l}) \union {[l EXCEPT !.newest = Len(msgs[l.dialog])]}
    /\ UNCHANGED <<msgs, pageVars, posts, sent, queues, inflight, reads, read>>

\* A mutation of Stale: a late answer is shown whatever is open.
FaultNeverStale(dialog) == FALSE

\* The beforeSwap guard, and afterSettle's.
Stale(dialog) == dialog # open

\* The answer replaces the pane, and only then the dialog is marked read up to
\* its newest bubble (markDialogRead).
Swap(l) ==
    /\ l.newest > 0
    /\ loads' = loads \ {l}
    /\ IF Stale(l.dialog)
       THEN UNCHANGED <<pane, lines, shown, reads>>
       ELSE /\ Shows({[dialog |-> l.dialog, id |-> i] : i \in 1..l.newest})
            /\ lines' = {}
            /\ reads' = reads \union {[dialog |-> l.dialog, max |-> l.newest]}
    /\ UNCHANGED <<msgs, open, posts, sent, queues, inflight, read>>

\* POST /dialogs/{id}/read, then client.mark_read in the background; either may
\* fail, which is logged.
MarkRead(r) ==
    /\ reads' = reads \ {r}
    /\ read' \in {read, [read EXCEPT ![r.dialog] = IF r.max > @ THEN r.max ELSE @]}
    /\ UNCHANGED <<msgs, pageVars, loads, posts, sent, queues, inflight>>

-----------------------------------------------------------------------------
(* Sending *)

Submit ==
    /\ Requests < MaxRequests
    /\ posts' = posts \union {[dialog |-> open, id |-> 0, at |-> "sending"]}
    /\ UNCHANGED <<msgs, pageVars, loads, sent, queues, inflight, reads, read>>

MovesOn(p, id, at) == posts' = (posts \ {p}) \union {[p EXCEPT !.id = id, !.at = at]}

\* client.send_text returns: the message is Telegram's and its echo is out.
\* send_variant goes on to record the draft's source.
AcceptSend(p) ==
    /\ p.at = "sending"
    /\ Message(p.dialog, "own")
    /\ MovesOn(p, Len(msgs[p.dialog]) + 1, "accepted")
    /\ UNCHANGED <<pageVars, loads, sent, inflight, reads, read>>

\* A newer key at the end, the oldest out past the cap (bounded_remember).
Remembered(key) ==
    LET keys == Append(SelectSeq(sent, LAMBDA k : k # key), key)
    IN  IF Len(keys) > SentCap THEN Tail(keys) ELSE keys

\* _remember_sent, then the answer with the bubble leaves.
Remember(p) ==
    /\ p.at = "accepted"
    /\ sent' = Remembered(<<p.dialog, p.id>>)
    /\ MovesOn(p, p.id, "answered")
    /\ UNCHANGED <<msgs, pageVars, loads, queues, inflight, reads, read>>

\* The bubble is appended, unless the browser has moved on to another dialog.
Echo(p) ==
    /\ p.at = "answered"
    /\ posts' = posts \ {p}
    /\ IF Stale(p.dialog)
       THEN UNCHANGED <<pane, shown>>
       ELSE Shows(pane \union {[dialog |-> p.dialog, id |-> p.id]})
    /\ UNCHANGED <<msgs, open, lines, loads, sent, queues, inflight, reads, read>>

\* The send fails, or the answer to a request is lost; an error is shown.
RequestFails ==
    /\ \/ \E p \in posts : p.at # "accepted" /\ posts' = posts \ {p} /\ UNCHANGED loads
       \/ \E l \in loads : loads' = loads \ {l} /\ UNCHANGED posts
    /\ UNCHANGED <<msgs, pageVars, sent, queues, inflight, reads, read>>

-----------------------------------------------------------------------------
(* The stream *)

\* sse_event_stream: an outgoing message this browser sent is skipped, another
\* becomes a frame and, while the backlog allows it, a translation.
Frame(k) ==
    /\ queues[k] # <<>>
    /\ queues' = [queues EXCEPT ![k] = Tail(@)]
    /\ LET id == Head(queues[k])
           mine == k = "out" /\ \E n \in DOMAIN sent : sent[n] = <<open, id>>
       IN  IF mine
           THEN UNCHANGED <<pane, shown, inflight>>
           ELSE /\ Shows(pane \union {[dialog |-> open, id |-> id]})
                /\ inflight' = IF Cardinality(inflight) < MaxInflight
                               THEN inflight \union {id} ELSE inflight
    /\ UNCHANGED <<msgs, open, lines, loads, posts, sent, reads, read>>

\* A mutation of Under: ids are taken to be unique.
FaultById(dialog, id) == {b \in pane : b.id = id}

\* The bubbles a translation frame may go under: data-dialog and data-id.
Under(dialog, id) == {b \in pane : b.dialog = dialog /\ b.id = id}

\* A translation is done, or failed, timed out or empty.
Translated(id) ==
    /\ id \in inflight
    /\ inflight' = inflight \ {id}
    /\ \/ lines' = lines \union {[under |-> <<b.dialog, b.id>>, of |-> <<open, id>>] : b \in Under(open, id)}
       \/ UNCHANGED lines
    /\ UNCHANGED <<msgs, open, pane, shown, loads, posts, sent, queues, reads, read>>

\* The server is stopped and started: the lifespan's finally cancels background
\* tasks, streams end, buckets are memory.  The page stays and reconnects.
Restart ==
    /\ loads' = {} /\ posts' = {} /\ reads' = {}
    /\ sent' = <<>> /\ queues' = NoEvents /\ inflight' = {}
    /\ UNCHANGED <<msgs, pageVars, read>>

WebNext ==
    \/ \E d \in WebDialogs : Arrives(d) \/ OpenDialog(d)
    \/ \E l \in loads : Serve(l) \/ Swap(l)
    \/ \E r \in reads : MarkRead(r)
    \/ Submit
    \/ \E p \in posts : AcceptSend(p) \/ Remember(p) \/ Echo(p)
    \/ RequestFails
    \/ \E k \in Kinds : Frame(k)
    \/ \E id \in inflight : Translated(id)
    \/ Restart

WebSpec == WebInit /\ [][WebNext]_webVars

-----------------------------------------------------------------------------
(* Properties *)

\* #195: Telegram's read mark stands at a message that was on screen while its
\* dialog was open, however late the history and the POST arrive.
ReadIsShown == \A d \in WebDialogs : read[d] > 0 => <<d, read[d]>> \in shown

\* #125-A5: a translation is under the message it translates, in its dialog,
\* whatever bubbles of the dialog left behind are still there.
LinesMatch == \A line \in lines : line.under = line.of
=============================================================================
