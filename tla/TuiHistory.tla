---------------------------- MODULE TuiHistory -----------------------------
(***************************************************************************)
(* The message pane of the terminal UI (tui/app.py): the history worker of *)
(* the open dialog, the backfill worker that pages upward when the user    *)
(* scrolls to the top, the whole-chat translation (Ctrl+T) that rebuilds   *)
(* the pane, the live feeds that append to it, and the read mark with the  *)
(* unread count of the sidebar.  All of them share one pane, one index of  *)
(* bubbles by message id and one cursor.  Telegram's ids are per dialog.   *)
(***************************************************************************)
EXTENDS Integers, Sequences, FiniteSets, FiniteSetsExt

CONSTANTS
    Chats,     \* dialog ids
    PageSize,  \* _HISTORY_PAGE_SIZE
    PassCap,   \* the translator's max_messages
    FirstLast, \* per chat, the newest message at the start
    MaxLive    \* messages that arrive in a chat

Closed == 0

ASSUME TuiAssumption ==
    /\ Closed \notin Chats
    /\ PageSize \in Nat /\ PassCap \in Nat
    /\ FirstLast \in [Chats -> Nat]

NoWorker == [chat |-> Closed, at |-> "idle", page |-> {}]

VARIABLES
    last,        \* per chat, the newest message at Telegram
    feed,        \* live events on their way to the drain workers
    current,     \* _current
    bubbles,     \* the pane's bubbles: chat and id
    index,       \* _bubble_index: at most one bubble per id
    oldest,      \* _oldest_message_id, 0 for None
    exhausted,   \* _backfill_exhausted: the cursor it was found at
    guard,       \* _backfilling
    history, backfill, pass, \* the three workers
    cursor,      \* the backfill worker's offset
    rebuilt      \* history variable: a pass has touched the pane since it was opened

workerVars == <<history, backfill, pass, cursor>>
tuiVars == <<last, feed, current, bubbles, index, oldest, exhausted, guard, workerVars, rebuilt>>

TuiInit ==
    /\ last = FirstLast /\ feed = <<>>
    /\ current = Closed /\ bubbles = {} /\ index = {} /\ oldest = 0
    /\ exhausted = [c \in Chats |-> 0] /\ guard = {}
    /\ history = NoWorker /\ backfill = NoWorker /\ pass = NoWorker /\ cursor = 0
    /\ rebuilt = FALSE

Of(chat, ids) == {<<chat, i>> : i \in ids}

\* The n newest of a chat, or of what is older than an offset.
Newest(n, upTo) == {i \in 1..upTo : i > upTo - n}

\* _message_bubble_for indexes by the bare id.
Indexed(marks) == {b \in index : ~ \E m \in marks : m[2] = b[2]} \union marks

-----------------------------------------------------------------------------
(* Live messages *)

Live(c) ==
    /\ last[c] < FirstLast[c] + MaxLive
    /\ last' = [last EXCEPT ![c] = @ + 1]
    /\ feed' = Append(feed, <<c, last[c] + 1>>)
    /\ UNCHANGED <<current, bubbles, index, oldest, exhausted, guard, workerVars, rebuilt>>

\* _drain_incoming_once, _drain_outgoing_once: a bubble if the chat is open.
Drain ==
    /\ feed # <<>>
    /\ feed' = Tail(feed)
    /\ IF Head(feed)[1] = current
       THEN /\ bubbles' = bubbles \union {Head(feed)}
            /\ index' = Indexed({Head(feed)})
       ELSE UNCHANGED <<bubbles, index>>
    /\ UNCHANGED <<last, current, oldest, exhausted, guard, workerVars, rebuilt>>

-----------------------------------------------------------------------------
(* Opening a chat *)

\* A mutation of AfterSwitch: the page on its way is mounted after all.
FaultKeepsPage == UNCHANGED <<backfill, guard>>

\* cancel_group: a worker that has begun releases its guard in its finally; one
\* cancelled before its first step never gets there.
AfterSwitch ==
    /\ backfill' = NoWorker
    /\ guard' = IF backfill.at \in {"fetching", "fetched"} THEN guard \ {backfill.chat} ELSE guard

\* _open_dialog, one step: the pane keeps the old bubbles until the worker runs.
OpenChat(c) ==
    /\ current' = c
    /\ index' = {} /\ oldest' = 0 /\ rebuilt' = FALSE
    /\ history' = [chat |-> c, at |-> "scheduled", page |-> {}]
    /\ AfterSwitch
    /\ UNCHANGED <<last, feed, bubbles, exhausted, pass, cursor>>

\* remove_children, then store.history or client.history is awaited.
ClearPane ==
    /\ history.at = "scheduled"
    /\ bubbles' = {}
    /\ history' = [history EXCEPT !.at = "fetching"]
    /\ UNCHANGED <<last, feed, current, index, oldest, exhausted, guard, backfill, pass, cursor, rebuilt>>

FetchHistory ==
    /\ history.at = "fetching"
    /\ history' \in {NoWorker, \* it raised: notified, the pane stays empty
                     [history EXCEPT !.at = "fetched", !.page = Newest(PageSize, last[history.chat])]}
    /\ UNCHANGED <<last, feed, current, bubbles, index, oldest, exhausted, guard, backfill, pass, cursor, rebuilt>>

\* The bubbles are mounted, and the cursor and its verdict are set.
ShowHistory ==
    /\ history.at = "fetched"
    /\ LET page == history.page
           low == IF page = {} THEN 0 ELSE Min(page)
       IN  /\ bubbles' = bubbles \union Of(history.chat, page)
           /\ index' = Of(history.chat, page)
           /\ oldest' = low
           /\ exhausted' = IF page # {} /\ Cardinality(page) < PageSize
                           THEN [exhausted EXCEPT ![history.chat] = low] ELSE exhausted
    /\ history' = NoWorker
    /\ UNCHANGED <<last, feed, current, guard, backfill, pass, cursor, rebuilt>>

-----------------------------------------------------------------------------
(* Paging upward *)

\* _maybe_backfill_history: the offset is taken now, with the chat.
ScrollToTop ==
    /\ current # Closed /\ oldest # 0
    /\ exhausted[current] # oldest
    /\ current \notin guard
    /\ guard' = guard \union {current}
    /\ backfill' = [chat |-> current, at |-> "scheduled", page |-> {}]
    /\ cursor' = oldest
    /\ UNCHANGED <<last, feed, current, bubbles, index, oldest, exhausted, history, pass, rebuilt>>

EndsBackfill == backfill' = NoWorker /\ guard' = guard \ {backfill.chat}

StartBackfill ==
    /\ backfill.at = "scheduled"
    /\ IF backfill.chat = current
       THEN backfill' = [backfill EXCEPT !.at = "fetching"] /\ UNCHANGED guard
       ELSE EndsBackfill
    /\ UNCHANGED <<last, feed, current, bubbles, index, oldest, exhausted, history, pass, cursor, rebuilt>>

FetchOlder ==
    /\ backfill.at = "fetching"
    /\ \/ /\ backfill' = [backfill EXCEPT !.at = "fetched", !.page = Newest(PageSize, cursor - 1)]
          /\ UNCHANGED guard
       \/ EndsBackfill
    /\ UNCHANGED <<last, feed, current, bubbles, index, oldest, exhausted, history, pass, cursor, rebuilt>>

\* Only what the index does not hold is mounted, above the rest.
MountOlder ==
    /\ backfill.at = "fetched"
    /\ LET fresh == {i \in backfill.page : ~ \E b \in index : b[2] = i}
           chat == backfill.chat
       IN  IF chat # current
           THEN UNCHANGED <<bubbles, index, oldest, exhausted>>
           ELSE IF fresh = {}
           THEN /\ exhausted' = [exhausted EXCEPT ![chat] = oldest]
                /\ UNCHANGED <<bubbles, index, oldest>>
           ELSE /\ bubbles' = bubbles \union Of(chat, fresh)
                /\ index' = Indexed(Of(chat, fresh))
                /\ oldest' = Min(fresh)
                /\ exhausted' = IF Cardinality(backfill.page) < PageSize
                                THEN [exhausted EXCEPT ![chat] = Min(fresh)] ELSE exhausted
    /\ EndsBackfill
    /\ UNCHANGED <<last, feed, current, history, pass, cursor, rebuilt>>

-----------------------------------------------------------------------------
(* The whole-chat translation *)

\* action_translate_all; the group is exclusive.
CtrlT ==
    /\ current # Closed /\ pass.at = "idle"
    /\ pass' = [chat |-> current, at |-> "scheduled", page |-> {}]
    /\ UNCHANGED <<last, feed, current, bubbles, index, oldest, exhausted, guard, history, backfill, cursor, rebuilt>>

\* _translate_whole_dialog: the status line replaces the bubbles.
StartPass ==
    /\ pass.at = "scheduled"
    /\ IF pass.chat # current
       THEN pass' = NoWorker /\ UNCHANGED <<bubbles, index, rebuilt>>
       ELSE /\ bubbles' = {} /\ index' = {} /\ rebuilt' = TRUE
            /\ pass' = [pass EXCEPT !.at = "fetching"]
    /\ UNCHANGED <<last, feed, current, oldest, exhausted, guard, history, backfill, cursor>>

FetchPass ==
    /\ pass.at = "fetching"
    /\ pass' \in {NoWorker, [pass EXCEPT !.at = "translating", !.page = Newest(PassCap, last[pass.chat])]}
    /\ UNCHANGED <<last, feed, current, bubbles, index, oldest, exhausted, guard, history, backfill, cursor, rebuilt>>

\* The snapshot replaces the pane; the cursor is not set.
ShowPass ==
    /\ pass.at = "translating"
    /\ pass' = NoWorker
    /\ IF pass.chat = current
       THEN /\ bubbles' = Of(pass.chat, pass.page) /\ index' = bubbles'
            /\ rebuilt' = TRUE
       ELSE UNCHANGED <<bubbles, index, rebuilt>>
    /\ UNCHANGED <<last, feed, current, oldest, exhausted, guard, history, backfill, cursor>>

TuiNext ==
    \/ \E c \in Chats : Live(c) \/ OpenChat(c)
    \/ Drain
    \/ ClearPane \/ FetchHistory \/ ShowHistory
    \/ ScrollToTop \/ StartBackfill \/ FetchOlder \/ MountOlder
    \/ CtrlT \/ StartPass \/ FetchPass \/ ShowPass

TuiSpec == TuiInit /\ [][TuiNext]_tuiVars

-----------------------------------------------------------------------------
(* Properties *)

Visible == {b[2] : b \in {x \in bubbles : x[1] = current}}
NoHole(ids) == \A i, k \in ids : i..k \subseteq ids

\* Live messages of the open chat that are still to be drained.
Awaited == {e[2] : e \in {feed[i] : i \in {j \in DOMAIN feed : feed[j][1] = current}}}

\* Once a chat's history is shown, what the pane shows of it, with the live
\* messages about to be drained, has no message missing in the middle, however
\* pages, live messages and switches to and fro interleave (#200, #202, #204),
\* unless a whole-chat pass has rebuilt the pane.
PagesMeet == history.at = "idle" /\ ~ rebuilt => NoHole(Visible \union Awaited)

\* The same after a pass: "a permanent hole in the visible history" is what
\* cancelling the backfill on a switch is there to rule out (_open_dialog).
HistoryHasNoHole == history.at = "idle" /\ pass.at = "idle" => NoHole(Visible)
=============================================================================
