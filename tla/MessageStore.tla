---------------------------- MODULE MessageStore ----------------------------
(***************************************************************************)
(* MessageStore (core/message_store.py): the SQLite copy of recent         *)
(* messages.  Per dialog it keeps rows, and a sync row [low, high] inside  *)
(* which the rows are promised to be all Telegram has; low = 0 means the   *)
(* window reaches the start of history.  history() refreshes the window    *)
(* from Telegram under the dialog's lock and then serves rows out of it;   *)
(* history(offset_id) pages backwards and pushes the low edge down.        *)
(*                                                                         *)
(* The store shares the event loop with the consumers of the client's live *)
(* streams (ingest, apply_deletion), with record_outgoing, and with the    *)
(* translator's writes, of which only ingest and record_outgoing take the  *)
(* lock.  Every SQL statement and every Telegram request is a step;        *)
(* any of them may fail or be cancelled, which drops the call.             *)
(*                                                                         *)
(* Abstractions: a message is its id (edits do not reach this store), a    *)
(* row is present or absent, with or without the source text of a          *)
(* translated send.  A live event reaches the client when the thing        *)
(* happens, or never.                                                      *)
(***************************************************************************)
EXTENDS Naturals, FiniteSets

CONSTANTS
    Peers,      \* dialogs
    Channels,   \* those with message ids of their own
    Readers,    \* callers of history()
    Limits,     \* page sizes they ask for
    MaxId,      \* bound: messages ever sent, per dialog
    MaxPending, \* bound: live events and translated sends waiting at one time
    MaxCached   \* bound: older pages of a dialog in the client's cache

ASSUME PeersAssumption == Channels \subseteq Peers /\ MaxId \in [Peers -> Nat]
ASSUME LimitsAssumption == Limits \subseteq Nat \ {0}

VARIABLES
    top,        \* per dialog, the last message id Telegram gave out in its space
    sent,       \* per dialog, the messages it ever had
    alive,      \* those Telegram still has
    heard,      \* <<dialog, id>> new-message events the consumers still hold
    gone,       \* <<dialog, id>> deletion events the consumer still holds
    doomed,     \* rows a deletion without a chat id has selected
    owed,       \* <<dialog, id>> translated sends not yet recorded
    cached,     \* older pages in the client's TTL cache
    rows,       \* table messages
    sourced,    \* rows that keep the source text of a translated send
    synced,     \* dialogs with a row in message_sync
    low, high,  \* that row
    fresh,      \* dialogs whose _last_sync is within sync_ttl
    op          \* per reader, the call of history() in progress

telegram == <<top, sent, alive>>
events == <<heard, gone, owed>>
window == <<synced, low, high>>
vars == <<top, sent, alive, heard, gone, doomed, owed, cached, rows, sourced,
          synced, low, high, fresh, op>>

Ids == UNION {1..MaxId[p] : p \in Peers}

\* The newest n messages of S: a Telegram page, an ORDER BY id DESC LIMIT n.
Newest(n, S) == {i \in S : Cardinality({j \in S : j > i}) < n}

Lowest(S) == CHOOSE i \in S : \A j \in S : i <= j
Highest(S) == CHOOSE i \in S : \A j \in S : i >= j

NoCall == [at |-> "idle"]

Init ==
    /\ top = [p \in Peers |-> 0]
    /\ sent = [p \in Peers |-> {}]
    /\ alive = [p \in Peers |-> {}]
    /\ heard = {} /\ gone = {} /\ doomed = {} /\ owed = {}
    /\ cached = [p \in Peers |-> {}]
    /\ rows = [p \in Peers |-> {}]
    /\ sourced = [p \in Peers |-> {}]
    /\ synced = {}
    /\ low = [p \in Peers |-> 0]
    /\ high = [p \in Peers |-> 0]
    /\ fresh = {}
    /\ op = [r \in Readers |-> NoCall]

-----------------------------------------------------------------------------
(* Telegram and the client's handlers (external) *)

Pending == Cardinality(heard) + Cardinality(gone) + Cardinality(owed)

\* The dialogs that number their messages together with p: a channel has ids
\* of its own, the other dialogs share theirs.
SameIds(p) == IF p \in Channels THEN {p} ELSE Peers \ Channels

\* A message is sent, by us with a translation to record, or by anyone.
Send(p) ==
    /\ top[p] < MaxId[p]
    /\ top' = [q \in Peers |-> IF q \in SameIds(p) THEN top[p] + 1 ELSE top[q]]
    /\ sent' = [sent EXCEPT ![p] = @ \union {top[p] + 1}]
    /\ alive' = [alive EXCEPT ![p] = @ \union {top[p] + 1}]
    /\ \E told, ours \in BOOLEAN :
          /\ heard' = IF told THEN heard \union {<<p, top[p] + 1>>} ELSE heard
          /\ owed' = IF ours THEN owed \union {<<p, top[p] + 1>>} ELSE owed
          /\ cached' = IF told \/ ours THEN [cached EXCEPT ![p] = {}] ELSE cached
    /\ UNCHANGED <<gone, doomed, rows, sourced, window, fresh, op>>
    /\ Pending' <= MaxPending

\* A message is deleted.  Its event names the dialog only for a channel; one
\* that does not drops every page the client has cached.
Delete(p, i) ==
    /\ i \in alive[p]
    /\ alive' = [alive EXCEPT ![p] = @ \ {i}]
    /\ \/ /\ gone' = gone \union {<<p, i>>}
          /\ cached' = [q \in Peers |-> IF p \in Channels /\ q # p THEN cached[q] ELSE {}]
       \/ UNCHANGED <<gone, cached>>
    /\ UNCHANGED <<top, sent, heard, doomed, owed, rows, sourced, window, fresh, op>>
    /\ Pending' <= MaxPending

\* An entry of the client's history cache outlives its TTL.
Forget(p) ==
    /\ \E c \in cached[p] : cached' = [cached EXCEPT ![p] = @ \ {c}]
    /\ UNCHANGED <<telegram, events, doomed, rows, sourced, window, fresh, op>>

-----------------------------------------------------------------------------
(* Writers beside history() *)

Locked == {"check", "since", "full", "refill", "write", "mark", "page", "fold"}

\* Nobody holds _sync_locks[p].
Free(p) == \A r \in Readers : op[r].at \in Locked => op[r].peer # p

Upserted(p, i) == rows' = [rows EXCEPT ![p] = @ \union {i}]

Dropped(p, S) ==
    /\ rows' = [rows EXCEPT ![p] = @ \ S]
    /\ sourced' = [sourced EXCEPT ![p] = @ \ S]

\* ingest
Ingest(p, i) ==
    /\ <<p, i>> \in heard
    /\ Free(p)
    /\ Upserted(p, i)
    /\ heard' = heard \ {<<p, i>>}
    /\ UNCHANGED <<telegram, gone, owed, doomed, cached, sourced, window, fresh, op>>

\* A mutation of MayRecord: record_outgoing writes without the dialog's lock.
FaultUnlocked(p) == TRUE

MayRecord(p) == Free(p)

\* record_outgoing
RecordOutgoing(p, i) ==
    /\ <<p, i>> \in owed
    /\ MayRecord(p)
    /\ Upserted(p, i)
    /\ sourced' = [sourced EXCEPT ![p] = @ \union {i}]
    /\ owed' = owed \ {<<p, i>>}
    /\ UNCHANGED <<telegram, heard, gone, doomed, cached, window, fresh, op>>

\* upsert_message_for_translation: a message on screen, alive or not, is
\* written without the lock.
Translate(p, i) ==
    /\ i \in sent[p]
    /\ Upserted(p, i)
    /\ UNCHANGED <<telegram, events, doomed, cached, sourced, window, fresh, op>>

\* clear_all_translations: a change of the translation policy empties the
\* column for every row, which is where the sent messages' source texts are.
ClearTranslations ==
    /\ sourced' = [p \in Peers |-> {}]
    /\ UNCHANGED <<telegram, events, doomed, cached, rows, window, fresh, op>>

\* The rows a deletion without a chat id removes.
Selected(i) == {p \in Peers \ Channels : i \in rows[p]} \X {i}

\* apply_deletion: at once when the event names the dialog, else a SELECT
\* followed by one DELETE per row found.
ApplyDeletion(p, i) ==
    /\ doomed = {}
    /\ <<p, i>> \in gone
    /\ gone' = gone \ {<<p, i>>}
    /\ IF p \in Channels
       THEN Dropped(p, {i}) /\ UNCHANGED doomed
       ELSE doomed' = Selected(i) /\ UNCHANGED <<rows, sourced>>
    /\ UNCHANGED <<telegram, heard, owed, cached, window, fresh, op>>

DeleteRow ==
    /\ \E d \in doomed : Dropped(d[1], {d[2]}) /\ doomed' = doomed \ {d}
    /\ UNCHANGED <<telegram, events, cached, window, fresh, op>>

\* sync_ttl passes since the last sync of p.
Lapse(p) ==
    /\ p \in fresh
    /\ fresh' = fresh \ {p}
    /\ UNCHANGED <<telegram, events, doomed, cached, rows, sourced, window, op>>

-----------------------------------------------------------------------------
(* history() *)

Goes(r, at) == op' = [op EXCEPT ![r].at = at]

\* A call for the newest page, or for what is older than a message o.
Call(r, p, l, o) ==
    /\ op[r].at = "idle"
    /\ o \in {0} \union sent[p]
    /\ op' = [op EXCEPT ![r] = [at |-> "wait", peer |-> p, limit |-> l, before |-> o]]
    /\ UNCHANGED <<telegram, events, doomed, cached, rows, sourced, window, fresh>>

Serves(r, ids, upto) ==
    op' = [op EXCEPT ![r] = [at |-> "served", peer |-> op[r].peer, limit |-> op[r].limit,
                             before |-> op[r].before, ids |-> ids, upto |-> upto]]

Short(p, l) ==
    /\ p \in synced /\ low[p] > 0
    /\ Cardinality(rows[p] \intersect (low[p]..high[p])) < l

\* The lock is taken for the newest page: refill a window with fewer rows
\* than asked for, sync a stale one, or serve it as it is.
TakeNewest(r) ==
    LET p == op[r].peer IN
    /\ op[r].at = "wait" /\ op[r].before = 0
    /\ Free(p)
    /\ Goes(r, IF Short(p, op[r].limit) THEN "refill"
               ELSE IF p \in fresh THEN "load" ELSE "since")
    /\ UNCHANGED <<telegram, events, doomed, cached, rows, sourced, window, fresh>>

\* After a refill the cooldown is looked at again.
CheckAgain(r) ==
    /\ op[r].at = "check"
    /\ Goes(r, IF op[r].peer \in fresh THEN "load" ELSE "since")
    /\ UNCHANGED <<telegram, events, doomed, cached, rows, sourced, window, fresh>>

Writes(r, page, then) ==
    op' = [op EXCEPT ![r] = [at |-> "write", peer |-> op[r].peer, limit |-> op[r].limit,
                             before |-> op[r].before, page |-> page, todo |-> page,
                             then |-> then]]

\* _sync_history asks for what is newer than the window.  A first page, or
\* one so full that there may be a gap, replaces the window; else everything
\* is fetched again.
FetchSince(r) ==
    LET p == op[r].peer
        new == Newest(op[r].limit, {i \in alive[p] : i > high[p]}) IN
    /\ op[r].at = "since"
    /\ IF p \notin synced \/ Cardinality(new) >= op[r].limit
       THEN Writes(r, new, "load")
       ELSE Goes(r, "full")
    /\ UNCHANGED <<telegram, events, doomed, cached, rows, sourced, window, fresh>>

\* _sync_full_window's request, for a stale window or for a short one.
FetchFull(r) ==
    /\ op[r].at \in {"full", "refill"}
    /\ Writes(r, Newest(op[r].limit, alive[op[r].peer]),
              IF op[r].at = "full" THEN "load" ELSE "check")
    /\ UNCHANGED <<telegram, events, doomed, cached, rows, sourced, window, fresh>>

\* One _upsert_message of a fetched page, oldest first.
UpsertNext(r) ==
    LET i == Lowest(op[r].todo) IN
    /\ op[r].at \in {"write", "fold"} /\ op[r].todo # {}
    /\ Upserted(op[r].peer, i)
    /\ op' = [op EXCEPT ![r].todo = @ \ {i}]
    /\ UNCHANGED <<telegram, events, doomed, cached, sourced, window, fresh>>

\* The low edge a page reaches: a short page reaches the start of history.
Edge(page, l) == IF Cardinality(page) < l THEN 0 ELSE Lowest(page)

\* _prune_window, or the DELETE of everything when Telegram has nothing.
Prune(r) ==
    LET page == op[r].page IN
    /\ op[r].at = "write" /\ op[r].todo = {}
    /\ Dropped(op[r].peer,
               IF page = {} THEN rows[op[r].peer]
               ELSE (Edge(page, op[r].limit)..Highest(page)) \ page)
    /\ Goes(r, "mark")
    /\ UNCHANGED <<telegram, events, doomed, cached, window, fresh>>

\* _set_sync_row and _remember_sync end a replacement of the window.
Mark(r) ==
    LET p == op[r].peer
        page == op[r].page IN
    /\ op[r].at = "mark"
    /\ synced' = synced \union {p}
    /\ low' = [low EXCEPT ![p] = Edge(page, op[r].limit)]
    /\ high' = [high EXCEPT ![p] = IF page = {} THEN 0 ELSE Highest(page)]
    /\ fresh' = fresh \union {p}
    /\ op' = [op EXCEPT ![r] = [at |-> op[r].then, peer |-> p, limit |-> op[r].limit,
                                before |-> 0]]
    /\ UNCHANGED <<telegram, events, doomed, cached, rows, sourced>>

\* _load_window, outside the lock: the sync row, then the rows.
LoadRow(r) ==
    LET p == op[r].peer IN
    /\ op[r].at = "load"
    /\ op' = [op EXCEPT ![r] = [at |-> "rows", peer |-> p, limit |-> op[r].limit,
                                before |-> 0, lo |-> low[p], hi |-> high[p]]]
    /\ UNCHANGED <<telegram, events, doomed, cached, rows, sourced, window, fresh>>

Loaded(p, lo, hi) == rows[p] \intersect (lo..hi)

LoadRows(r) ==
    /\ op[r].at = "rows"
    /\ Serves(r, Newest(op[r].limit, Loaded(op[r].peer, op[r].lo, op[r].hi)), op[r].hi)
    /\ UNCHANGED <<telegram, events, doomed, cached, rows, sourced, window, fresh>>

-----------------------------------------------------------------------------
(* history(offset_id) *)

\* A mutation of InWindow: an offset below the window counts as inside.
FaultNoLowBound(p, o) == p \in synced /\ o <= high[p]

\* _history_before: the offset lies inside the window.
InWindow(p, o) == p \in synced /\ low[p] <= o /\ o <= high[p]

\* The lock is taken for an older page: served from the rows when the window
\* covers it, else asked of the client.
TakeOlder(r) ==
    LET p == op[r].peer
        o == op[r].before
        have == Newest(op[r].limit, {i \in rows[p] : low[p] <= i /\ i < o}) IN
    /\ op[r].at = "wait" /\ o > 0
    /\ Free(p)
    /\ IF InWindow(p, o) /\ (low[p] = 0 \/ Cardinality(have) >= op[r].limit)
       THEN Serves(r, have, o - 1)
       ELSE Goes(r, "page")
    /\ UNCHANGED <<telegram, events, doomed, cached, rows, sourced, window, fresh>>

Folds(r, page) ==
    op' = [op EXCEPT ![r] = [at |-> "fold", peer |-> op[r].peer, limit |-> op[r].limit,
                             before |-> op[r].before, page |-> page, todo |-> page]]

\* client.history: a page it has cached, else one from Telegram.
AskPage(r) ==
    LET p == op[r].peer
        page == Newest(op[r].limit, {i \in alive[p] : i < op[r].before})
        hits == {c \in cached[p] : c.limit = op[r].limit /\ c.before = op[r].before} IN
    /\ op[r].at = "page"
    /\ \/ /\ \E c \in hits : Folds(r, c.page)
          /\ UNCHANGED cached
       \/ /\ hits = {}
          /\ Folds(r, page)
          /\ \/ /\ Cardinality(cached[p]) < MaxCached
                /\ cached' = [cached EXCEPT ![p] = @ \union
                       {[limit |-> op[r].limit, before |-> op[r].before, page |-> page]}]
             \/ UNCHANGED cached
    /\ UNCHANGED <<telegram, events, doomed, rows, sourced, window, fresh>>

\* The page is stored; when the offset is inside the window the window takes
\* it in, and the page is served as it came.
Absorb(r) ==
    LET p == op[r].peer
        edge == Edge(op[r].page, op[r].limit) IN
    /\ op[r].at = "fold" /\ op[r].todo = {}
    /\ low' = IF InWindow(p, op[r].before) /\ edge < low[p]
              THEN [low EXCEPT ![p] = edge] ELSE low
    /\ Serves(r, op[r].page, op[r].before - 1)
    /\ UNCHANGED <<telegram, events, doomed, cached, rows, sourced, synced, high, fresh>>

\* The call is cancelled, or Telegram or SQLite raises.
Fail(r) ==
    /\ op[r].at # "idle"
    /\ op' = [op EXCEPT ![r] = NoCall]
    /\ UNCHANGED <<telegram, events, doomed, cached, rows, sourced, window, fresh>>

\* The instant at which a call has its answer: it returns before anything else.
Returns(r) ==
    /\ op[r].at = "served"
    /\ op' = [op EXCEPT ![r] = NoCall]
    /\ UNCHANGED <<telegram, events, doomed, cached, rows, sourced, window, fresh>>

\* The process ends and another one opens the same database: calls, locks,
\* the cooldown, the caches and the undelivered events are gone.
Restart ==
    /\ heard' = {} /\ gone' = {} /\ doomed' = {} /\ owed' = {}
    /\ cached' = [p \in Peers |-> {}]
    /\ fresh' = {}
    /\ op' = [r \in Readers |-> NoCall]
    /\ UNCHANGED <<telegram, rows, sourced, window>>

-----------------------------------------------------------------------------

Environment(p) ==
    \/ Send(p) \/ Forget(p)
    \/ \E i \in Ids : Delete(p, i)

Consumers(p) ==
    \/ Lapse(p)
    \/ \E i \in Ids : \/ Ingest(p, i) \/ RecordOutgoing(p, i)
                      \/ Translate(p, i) \/ ApplyDeletion(p, i)

Reader(r) ==
    \/ \E p \in Peers, l \in Limits, o \in {0} \union Ids : Call(r, p, l, o)
    \/ TakeNewest(r) \/ CheckAgain(r) \/ FetchSince(r) \/ FetchFull(r)
    \/ UpsertNext(r) \/ Prune(r) \/ Mark(r) \/ LoadRow(r) \/ LoadRows(r)
    \/ TakeOlder(r) \/ AskPage(r) \/ Absorb(r) \/ Fail(r)

Next ==
    \/ \E r \in Readers : Returns(r)
    \/ /\ \A r \in Readers : op[r].at # "served"
       /\ \/ \E p \in Peers : Environment(p) \/ Consumers(p)
          \/ ClearTranslations
          \/ DeleteRow
          \/ Restart
          \/ \E r \in Readers : Reader(r)

Spec == Init /\ [][Next]_vars

-----------------------------------------------------------------------------
(* Properties *)

\* Type invariant: what a call of history() carries depends on where it is.
TypeOK ==
    /\ top \in [Peers -> Nat]
    /\ \A p \in Peers : /\ alive[p] \union rows[p] \subseteq sent[p]
                        /\ sent[p] \subseteq 1..top[p]
    /\ \A p \in Peers : sourced[p] \subseteq rows[p]
    /\ heard \union gone \union doomed \union owed \subseteq Peers \X Ids
    /\ synced \subseteq Peers /\ fresh \subseteq synced
    /\ \A p \in Peers : low[p] <= high[p] /\ high[p] \in 0..top[p]
    /\ \A r \in Readers :
          op[r] # NoCall =>
            /\ op[r].peer \in Peers /\ op[r].limit \in Limits
            /\ op[r].at \in {"write", "fold"} => op[r].todo \subseteq op[r].page
            /\ op[r].at = "rows" => op[r].lo <= op[r].hi

\* The promise of the sync row: inside the window the store has every message
\* Telegram has ("DB contiguity", message_store.py:3-5, 313-314), whatever
\* syncs, older pages, deletions and failures came in between.
WindowHasNoHole ==
    \A p \in synced : alive[p] \intersect (low[p]..high[p]) \subseteq rows[p]

\* What history() returns has no hole: no message Telegram has lies between
\* two served ones or between the page and the place it hangs from, although
\* the rows are read outside the lock; and an older page that comes back short
\* has reached the start of history.
PagesHaveNoHole ==
    \A r \in Readers : op[r].at = "served" =>
        LET below == {i \in alive[op[r].peer] : i <= op[r].upto} IN
        /\ \A i \in below : (\E j \in op[r].ids : j <= i) => i \in op[r].ids
        /\ op[r].before > 0 /\ Cardinality(op[r].ids) < op[r].limit
              => below \subseteq op[r].ids

\* Neither the window nor a page has a hole.
ReadsHaveNoHole == WindowHasNoHole /\ PagesHaveNoHole

\* The source text recorded for a translated send stays as long as the
\* message does, until the translation policy changes: no refresh of the
\* window, ingest, translation or deletion of another message wipes it
\* (record_outgoing, _replace_window, clear_all_translations).
SourceIsKept ==
    [][ClearTranslations \/
       \A p \in Peers : sourced[p] \intersect alive'[p] \subseteq sourced'[p]]_vars

\* client.py:635: the watermarks are not built from the client's TTL cache, so
\* a page that may move the window holds only what Telegram has when asked.
WatermarksFromFreshPages ==
    [][\A r \in Readers :
          /\ op[r].at = "page" /\ op'[r].at = "fold"
          /\ InWindow(op[r].peer, op[r].before)
          => op'[r].page \subseteq alive[op[r].peer]]_vars
=============================================================================
