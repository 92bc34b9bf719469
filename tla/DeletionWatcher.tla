-------------------------- MODULE DeletionWatcher --------------------------
(***************************************************************************)
(* DeletionWatcher (core/watch.py) on the client's outgoing and deleted    *)
(* streams (core/client.py), each an EventBus subscription                 *)
(* (core/events.py).  Two consumers share the cache of own messages: one   *)
(* fills it, the other takes deleted messages out of it and sends a copy   *)
(* of each to Saved Messages, where the copies are own messages too.       *)
(*                                                                         *)
(* A message is its dialog and its id.  Ids are the account's outside      *)
(* channels and the channel's inside one.  Titles and texts are left out.  *)
(***************************************************************************)
EXTENDS Integers, Sequences, FiniteSets

CONSTANTS
    Own,          \* the messages the owner may send, from any device
    Foreign,      \* messages of others that may be deleted
    ChannelChats,     \* the dialogs that are channels or megagroups
    QueueSize,    \* maxsize of a subscription
    CacheSize,    \* cache_size
    MaxDeletions  \* bound: deletion events in a run

Saved == "saved"  \* the dialog with oneself
NoChat == "none"  \* the chat_id of a deletion outside channels
FirstCopy == 100  \* the ids of the copies begin here

\* Ids as Telegram gives them.
ASSUME WatchAssumption ==
    /\ QueueSize \in Nat \ {0}
    /\ Saved \notin ChannelChats /\ NoChat \notin ChannelChats
    /\ \A m, n \in Own \union Foreign :
          m.id = n.id /\ (m.dialog = n.dialog \/ {m.dialog, n.dialog} \intersect ChannelChats = {})
             => m = n
    /\ \A m \in Own \union Foreign :
          m.id \in Nat /\ (m.dialog \notin ChannelChats => m.id < FirstCopy)

VARIABLES
    watching,  \* the watcher runs and has both subscriptions
    sent,      \* own messages since the watcher started, in the order of their updates
    earlier,   \* own messages of before
    deleted,   \* the messages deleted so far
    deletions, \* number of deletion events so far
    outgoing,  \* the queue of the outgoing subscription
    removed,   \* the queue of the deleted subscription
    cache,     \* the cached messages
    inHand,    \* the messages taken out for the deletion at hand
    copies,    \* history: the copies in Saved Messages, each a set of messages
    unsent     \* history: messages whose copy could not be sent

watchVars == <<watching, sent, earlier, deleted, deletions, outgoing, removed, cache,
               inHand, copies, unsent>>

WatchInit ==
    /\ watching = FALSE
    /\ sent = <<>> /\ earlier = {} /\ deleted = {} /\ deletions = 0
    /\ outgoing = <<>> /\ removed = <<>> /\ cache = {} /\ inHand = {}
    /\ copies = <<>> /\ unsent = {}

Elements(s) == {s[i] : i \in DOMAIN s}
OwnSoFar == Elements(sent) \union earlier

-----------------------------------------------------------------------------
(* EventBus *)

\* A mutation of Publish: the subscriber that is behind loses the newest event.
FaultDropNewest(queue, event) ==
    IF Len(queue) >= QueueSize THEN queue ELSE Append(queue, event)

\* publish: a full queue loses its oldest event.
Publish(queue, event) ==
    Append(IF Len(queue) >= QueueSize THEN Tail(queue) ELSE queue, event)

-----------------------------------------------------------------------------
(* The account: its updates *)

\* _on_outgoing_message: a message of ours, seen when someone subscribes.
Posted(m) ==
    IF watching
    THEN sent' = Append(sent, m) /\ outgoing' = Publish(outgoing, m) /\ UNCHANGED earlier
    ELSE earlier' = earlier \union {m} /\ UNCHANGED <<sent, outgoing>>

OwnerSends(m) ==
    /\ m \in Own \ OwnSoFar
    /\ Posted(m)
    /\ UNCHANGED <<watching, deleted, deletions, removed, cache, inHand, copies, unsent>>

\* _on_deleted: the update names the chat for a channel and only ids elsewhere.
\* It may be the second for the same messages.
Delete(ms) ==
    /\ deletions < MaxDeletions
    /\ ms # {} /\ ms \subseteq OwnSoFar \union Foreign
    /\ \/ \A m \in ms : m.dialog \notin ChannelChats
       \/ \E c \in ChannelChats : \A m \in ms : m.dialog = c
    /\ deletions' = deletions + 1
    /\ deleted' = deleted \union ms
    /\ LET chats == {m.dialog : m \in ms} \intersect ChannelChats
           event == [chat |-> IF chats = {} THEN NoChat ELSE CHOOSE c \in chats : TRUE,
                     ids |-> {m.id : m \in ms}]
       IN removed' = IF watching THEN Publish(removed, event) ELSE removed
    /\ UNCHANGED <<watching, sent, earlier, outgoing, cache, inHand, copies, unsent>>

-----------------------------------------------------------------------------
(* The watcher *)

\* run: both subscriptions are registered.
Start ==
    /\ ~watching
    /\ watching' = TRUE
    /\ UNCHANGED <<sent, earlier, deleted, deletions, outgoing, removed, cache, inHand,
                   copies, unsent>>

\* The process ends, and the cache with it.
Stop ==
    /\ watching
    /\ watching' = FALSE
    /\ earlier' = OwnSoFar /\ sent' = <<>>
    /\ outgoing' = <<>> /\ removed' = <<>> /\ cache' = {} /\ inHand' = {}
    /\ UNCHANGED <<deleted, deletions, copies, unsent>>

\* Messages are remembered in the order of their updates.
Place(m) == CHOOSE i \in DOMAIN sent : sent[i] = m
Oldest == CHOOSE m \in cache : \A n \in cache : Place(m) <= Place(n)

\* _remember
Remembered(m) ==
    IF m.dialog = Saved THEN cache
    ELSE IF Cardinality(cache) < CacheSize THEN cache \union {m}
    ELSE (cache \ {Oldest}) \union {m}

TakeOutgoing ==
    /\ watching /\ outgoing # <<>>
    /\ cache' = Remembered(Head(outgoing))
    /\ outgoing' = Tail(outgoing)
    /\ UNCHANGED <<watching, sent, earlier, deleted, deletions, removed, inHand, copies, unsent>>

\* A mutation of Match: an id without a chat matches in every dialog.
FaultMatchesIds(event) ==
    {m \in cache : m.id \in event.ids /\ event.chat \in {NoChat, m.dialog}}

\* _match
Match(event) ==
    {m \in cache :
        /\ m.id \in event.ids
        /\ IF event.chat = NoChat THEN m.dialog \notin ChannelChats ELSE m.dialog = event.chat}

TakeDeleted ==
    /\ watching /\ removed # <<>> /\ inHand = {}
    /\ LET ms == Match(Head(removed)) IN inHand' = ms /\ cache' = cache \ ms
    /\ removed' = Tail(removed)
    /\ UNCHANGED <<watching, sent, earlier, deleted, deletions, outgoing, copies, unsent>>

\* One copy per dialog.
Group(dialog) == {m \in inHand : m.dialog = dialog}

Copy(dialog) ==
    /\ watching /\ Group(dialog) # {}
    /\ copies' = Append(copies, Group(dialog))
    /\ Posted([dialog |-> Saved, id |-> FirstCopy + Len(copies)])
    /\ inHand' = inHand \ Group(dialog)
    /\ UNCHANGED <<watching, deleted, deletions, removed, cache, unsent>>

\* A mutation of LeftAfter: the first failure ends the deletion.
FaultGivesUp(dialog) == {}

LeftAfter(dialog) == inHand \ Group(dialog)

\* The send raises: logged, the next dialog.
CopyFails(dialog) ==
    /\ watching /\ Group(dialog) # {}
    /\ unsent' = unsent \union Group(dialog)
    /\ inHand' = LeftAfter(dialog)
    /\ UNCHANGED <<watching, sent, earlier, deleted, deletions, outgoing, removed, cache, copies>>

Dialogs == {m.dialog : m \in Own \union Foreign} \union {Saved}

CopyStep == \E dialog \in Dialogs : Copy(dialog) \/ CopyFails(dialog)

WatchNext ==
    \/ \E m \in Own : OwnerSends(m)
    \/ \E ms \in SUBSET (OwnSoFar \union Foreign) : Delete(ms)
    \/ Start \/ Stop \/ TakeOutgoing \/ TakeDeleted \/ CopyStep

\* The two consumers are tasks of a running loop.
WatchFairness == WF_watchVars(TakeDeleted) /\ WF_watchVars(TakeOutgoing) /\ WF_watchVars(CopyStep)

WatchSpec == WatchInit /\ [][WatchNext]_watchVars /\ WatchFairness

-----------------------------------------------------------------------------
(* Properties *)

\* A copy is only ever of messages of ours that were deleted, and never of a
\* copy: the update names no author and often no chat, and ids of different
\* dialogs collide (_match and its comment; _remember: "no loop"); and "a
\* repeated event does not duplicate the notice".
CopiesAreTrue ==
    \A i \in DOMAIN copies :
        /\ copies[i] \subseteq deleted \intersect Own
        /\ \A j \in DOMAIN copies : i # j => copies[i] \intersect copies[j] = {}

\* A subscriber that is behind has lost its oldest events and no others: what
\* it still has to read is the end of what was published (EventBus.publish).
NewestAreKept == \E n \in 0..Len(sent) : outgoing = SubSeq(sent, n + 1, Len(sent))

\* A message taken out of the cache gets its copy or its own send failed; the
\* failure of another dialog's copy does not lose it.
TakenIsCopied ==
    \A m \in Own :
        m \in inHand ~> \/ \E i \in DOMAIN copies : m \in copies[i]
                        \/ m \in unsent
                        \/ ~watching
=============================================================================
