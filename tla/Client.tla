------------------------------- MODULE Client -------------------------------
(***************************************************************************)
(* StandaloneTelegramClient (core/client.py): the calls that read a page of *)
(* a dialog through the history cache, those that change a dialog, and the *)
(* handlers of Telegram's events, in one process.                          *)
(*                                                                         *)
(* The cache is taken at its word (ReadThrough, which TTLCache implements): *)
(* a read returns a page no older than the last invalidation of the dialog *)
(* before the call.  A page is the number of changes the dialog had seen.  *)
(* Flood waits and the pacing gates only delay an attempt, or end it; they  *)
(* and the mapping of messages are left out.                               *)
(***************************************************************************)
EXTENDS Integers, FiniteSets

LOCAL INSTANCE Functions

CONSTANTS
    Private,      \* dialogs that share one sequence of message ids
    Channels,     \* dialogs with message ids of their own
    Requesters,
    MaxIds,       \* bound: message ids of a dialog
    MaxChanges    \* bound: changes of all the dialogs

Peers == Private \cup Channels
Ids == 1..MaxIds

VARIABLES
    dialog,    \* the ids of the messages each dialog holds
    issued,    \* the newest id given to a message of each dialog, or of one numbered with it
    changes,   \* how often each dialog has changed
    invalidated,     \* its changes when its pages were last invalidated
    known,     \* history: the last change a caller or a subscriber was told of
    request,      \* per caller, the call under way
    events,    \* changes whose events have not been handled
    page,      \* history: the page last read and the one it had to reach
    erased    \* history: messages removed for everybody, and what was asked

clientVars == <<dialog, issued, changes, invalidated, known, request, events, page, erased>>

NoCall == [at |-> "idle"]

ClientInit ==
    /\ dialog = [p \in Peers |-> {}]
    /\ issued = [p \in Peers |-> 0]
    /\ changes = [p \in Peers |-> 0]
    /\ invalidated = [p \in Peers |-> 0]
    /\ known = [p \in Peers |-> 0]
    /\ request = [c \in Requesters |-> NoCall]
    /\ events = {}
    /\ page = <<0, 0>>
    /\ erased = {}

-----------------------------------------------------------------------------
(* Telegram *)

\* The dialogs whose messages bear the ids of p's.
Numbered(p) == IF p \in Private THEN Private ELSE {p}

Changed(ps) == [p \in Peers |-> IF p \in ps THEN changes[p] + 1 ELSE changes[p]]

CanChange(ps) == FoldFunction(+, 0, changes) + Cardinality(ps) <= MaxChanges

\* Telegram names the dialog of a deletion only in a channel.
Event(p, deleted) ==
    [peer |-> p, named |-> ~deleted \/ p \in Channels, change |-> changes[p] + 1]

Grow(p) ==
    /\ CanChange({p}) /\ issued[p] + 1 \in Ids
    /\ issued' = [q \in Peers |-> IF q \in Numbered(p) THEN issued[q] + 1 ELSE issued[q]]
    /\ dialog' = [dialog EXCEPT ![p] = @ \cup {issued'[p]}]
    /\ changes' = Changed({p})
    /\ events' = events \cup {Event(p, FALSE)}

\* A message from another device, or from the other side.
NewMessage(p) ==
    /\ Grow(p)
    /\ UNCHANGED <<invalidated, known, request, page, erased>>

-----------------------------------------------------------------------------
(* Reading *)

BeginRead(c, p) ==
    /\ request[c] = NoCall
    /\ request' = [request EXCEPT ![c] = [at |-> "read", peer |-> p, since |-> invalidated[p], must |-> known[p]]]
    /\ UNCHANGED <<dialog, issued, changes, invalidated, known, events, page, erased>>

\* A fresh read, history_since and search_messages bypass the cache.
BeginFresh(c, p) ==
    /\ request[c] = NoCall
    /\ request' = [request EXCEPT ![c] = [at |-> "read", peer |-> p, since |-> changes[p], must |-> known[p]]]
    /\ UNCHANGED <<dialog, issued, changes, invalidated, known, events, page, erased>>

EndRead(c) ==
    /\ request[c].at = "read"
    /\ \E v \in request[c].since..changes[request[c].peer] : page' = <<v, request[c].must>>
    /\ request' = [request EXCEPT ![c] = NoCall]
    /\ UNCHANGED <<dialog, issued, changes, invalidated, known, events, erased>>

-----------------------------------------------------------------------------
(* Writing *)

\* A mutation of Invalidates: a forward invalidates only where it came from.
FaultSourceOnly(c) == IF request[c].kind = "forward" THEN {request[c].from} ELSE {request[c].peer}

\* The dialogs whose pages a write drops before it returns.
Invalidates(c) == IF request[c].kind = "forward" THEN {request[c].from, request[c].peer} ELSE {request[c].peer}

BeginWrite(c) ==
    /\ request[c] = NoCall
    /\ \E p, q \in Peers, kind \in {"send", "forward", "edit"} :
          /\ kind # "forward" => p = q
          /\ kind = "edit" => dialog[p] # {}
          /\ request' = [request EXCEPT ![c] = [at |-> "attempt", kind |-> kind, peer |-> p, from |-> q]]
    /\ UNCHANGED <<dialog, issued, changes, invalidated, known, events, page, erased>>

\* In a channel there is no deletion for oneself.
ForMeRefused(p, forMe) == forMe /\ p \in Channels

BeginDelete(c) ==
    /\ request[c] = NoCall
    /\ \E p \in Peers, id \in Ids, forMe \in BOOLEAN :
          /\ ~ForMeRefused(p, forMe)
          /\ request' = [request EXCEPT ![c] =
                        [at |-> "validate", kind |-> "delete", peer |-> p, id |-> id, forMe |-> forMe]]
    /\ UNCHANGED <<dialog, issued, changes, invalidated, known, events, page, erased>>

\* A mutation of Valid: a message found is not compared with the dialog asked.
FaultAnyDialog(p, id) == \E q \in Numbered(p) : id \in dialog[q]

\* _validate_delete_messages: a private dialog's ids are looked up without it.
Valid(p, id) ==
    /\ \E q \in Numbered(p) : id \in dialog[q]
    /\ \A q \in Numbered(p) : id \in dialog[q] => q = p

Validate(c) ==
    /\ request[c].at = "validate"
    /\ request' = [request EXCEPT ![c] = IF Valid(request[c].peer, request[c].id)
                                   THEN [@ EXCEPT !.at = "attempt"] ELSE NoCall]
    /\ UNCHANGED <<dialog, issued, changes, invalidated, known, events, page, erased>>

\* The attempt is refused, or its flood wait is too long: nothing has happened.
Refused(c) ==
    /\ request[c].at = "attempt"
    /\ request' = [request EXCEPT ![c] = NoCall]
    /\ UNCHANGED <<dialog, issued, changes, invalidated, known, events, page, erased>>

Landed(c) ==
    request' = [request EXCEPT ![c] = [at |-> "landed", kind |-> @.kind, peer |-> @.peer,
                                 from |-> IF @.kind = "forward" THEN @.from ELSE @.peer,
                                 change |-> changes'[@.peer]]]

LandMessage(c) ==
    /\ request[c].at = "attempt" /\ request[c].kind \in {"send", "forward"}
    /\ Grow(request[c].peer)
    /\ Landed(c)
    /\ UNCHANGED <<invalidated, known, page, erased>>

\* An edit has no event among those the client listens to.
LandEdit(c) ==
    /\ request[c].at = "attempt" /\ request[c].kind = "edit"
    /\ CanChange({request[c].peer})
    /\ changes' = Changed({request[c].peer})
    /\ Landed(c)
    /\ UNCHANGED <<dialog, issued, invalidated, known, events, page, erased>>

\* In a private dialog Telegram deletes by the id alone, in a channel for everybody.
LandDelete(c) ==
    /\ request[c].at = "attempt" /\ request[c].kind = "delete"
    /\ LET p == request[c].peer
           hit == {q \in Numbered(p) : request[c].id \in dialog[q]}
           forAll == p \in Channels \/ ~request[c].forMe
       IN  /\ CanChange(hit)
           /\ dialog' = [q \in Peers |-> IF q \in hit THEN dialog[q] \ {request[c].id} ELSE dialog[q]]
           /\ changes' = Changed(hit)
           /\ events' = events \cup {Event(q, TRUE) : q \in hit}
           /\ erased' = IF forAll
                         THEN erased \cup {[of |-> q, asked |-> p, forMe |-> request[c].forMe] : q \in hit}
                         ELSE erased
    /\ Landed(c)
    /\ UNCHANGED <<issued, invalidated, known, page>>

Latest(a, b) == IF a > b THEN a ELSE b

Dropped(ps) == [p \in Peers |-> IF p \in ps THEN changes[p] ELSE invalidated[p]]

Returns(c) ==
    /\ request[c].at = "landed"
    /\ invalidated' = Dropped(Invalidates(c))
    /\ known' = [known EXCEPT ![request[c].peer] = Latest(@, request[c].change)]
    /\ request' = [request EXCEPT ![c] = NoCall]
    /\ UNCHANGED <<dialog, issued, changes, events, page, erased>>

\* The answer is lost: the call raises and invalidates nothing.
AnswerLost(c) ==
    /\ request[c].at = "landed"
    /\ request' = [request EXCEPT ![c] = NoCall]
    /\ UNCHANGED <<dialog, issued, changes, invalidated, known, events, page, erased>>

-----------------------------------------------------------------------------
(* The handlers of Telegram's events *)

\* The dialogs whose pages an event drops before it is published.
Heard(e) == IF e.named THEN {e.peer} ELSE Peers

\* _on_new_message, _on_outgoing_message, _on_deleted
Hear(e) ==
    /\ events' = events \ {e}
    /\ invalidated' = Dropped(Heard(e))
    /\ known' = [known EXCEPT ![e.peer] = Latest(@, e.change)]
    /\ UNCHANGED <<dialog, issued, changes, request, page, erased>>

\* An event that never arrives.
Missed(e) ==
    /\ events' = events \ {e}
    /\ UNCHANGED <<dialog, issued, changes, invalidated, known, request, page, erased>>

ClientNext ==
    \/ \E p \in Peers : NewMessage(p)
    \/ \E c \in Requesters :
          \/ \E p \in Peers : BeginRead(c, p) \/ BeginFresh(c, p)
          \/ EndRead(c) \/ BeginWrite(c) \/ BeginDelete(c) \/ Validate(c) \/ Refused(c)
          \/ LandMessage(c) \/ LandEdit(c) \/ LandDelete(c) \/ Returns(c) \/ AnswerLost(c)
    \/ \E e \in events : Hear(e) \/ Missed(e)

ClientSpec == ClientInit /\ [][ClientNext]_clientVars

-----------------------------------------------------------------------------
\* "Freshly-sent/received messages never go missing": a page read by a call that
\* begins after a write has returned, or after a subscriber has been told of a
\* change, is not older than that write or change, though other reads and writes
\* of the dialog are under way.
NothingGoesMissing == page[1] >= page[2]

\* What is removed for everybody belongs to the dialog that was named, although a
\* private dialog's ids name messages of every other one, and was not to be removed
\* for oneself only.
DeletesAsAsked == \A r \in erased : r.of = r.asked /\ ~r.forMe
=============================================================================
