# tg_messenger in TLA+

tg_messenger is a personal Telegram client: one `asyncio` process (web UI, terminal
UI, CLI commands, long-running watchers and an agent) over one Telethon connection,
one SQLite file and a few JSON files. Little of it is hard to compute; what is hard is
that everything runs interleaved on one event loop, that any `await` can fail or be
cancelled, that live events come late, twice over different queues or never, and that
what was sent to Telegram cannot be unsent. This directory holds models of the parts
where that matters, the TLC runs that check them, and proofs for the parts where the
property must hold for every size.

Paths below are relative to `src/tg_messenger/`.

## Inventory

| Component | State | Operations | What is hard | What makes it correct |
|---|---|---|---|---|
| `core/cache.py` TTLCache | stored entries with expiry, per-key lock and waiter count, per-key generation | `get`, `set`, `get_or_fetch`, `invalidate`, `invalidate_if` | an invalidation during a fetch; waiters of a failed fetch; generations pruned while in use | never caches an answer an invalidation has superseded; one fetch per key; every caller gets an answer |
| `interop/worker.py`, `factory_client.py` | per-session JSON file of reports, its copy in memory, the task in hand | start/migrate, replay, claim, execute, report | crashes, failed saves, lost requests and answers, two sessions, conflicting outcomes | reports on disk are not lost and arrive; no claim over an unacknowledged report; one message and one outcome per task |
| `agent/outbound_coordinator.py` | bounded store of offered translations (tokens) with a sending mark | `prepare`, `send_variant`, prune | double submit, cancellation after the message landed, eviction and expiry mid-send | a token is used by one send at a time, never after it succeeded, never stuck, never evicted mid-send |
| `core/message_store.py` | rows, the sync row `[low, high]`, per-dialog locks, cooldown | `history` (newest, older), `ingest`, `apply_deletion`, `record_outgoing`, translation upserts | several SQL statements and requests per operation, writers outside the lock, lost events | inside the window, and inside every page served, no message Telegram has is missing; a recorded source text stays |
| `core/client.py` | two TTL caches, live-event buses, send bucket | reads through the caches, writes that invalidate them, checked deletions, event handlers | invalidation against in-flight reads; an update that names no dialog; ids checked by one request and deleted by the next | a write or an event is seen by the next read; only what was checked is deleted |
| `core/events.py` | a bounded queue per subscriber | `publish`, `subscribe` | a slow subscriber | loses only the oldest events, of that subscriber only |
| `core/watch.py` DeletionWatcher | bounded cache of own messages | remember, match, notify | outgoing and deletion events on separate queues; failed notice | a true copy of every own message it took, and one |
| `core/heartbeat.py` | plans in SQLite | tick, plan commands | a tick's stale plan against a command; record before send | never two pings per interval, at most `max_per_day`, none to someone who has not answered |
| `core/moderation.py` | joins, rate windows, rules and log in SQLite | message, join, rules commands | joins and messages on separate queues; bounded caches; a failing action or log write | no rule fires on what was not seen; the log is complete |
| `core/auth.py`, `core/session_cipher.py` | login step; session files | phone, code, password, resend, reset; save, save_if_absent, load, delete | concurrent form posts; concurrent publication, crashes | the code asked for is the live one, no claim is left behind; no session overwritten |
| `core/storage.py` | one SQLite connection, a lock | execute, fetch, migrations, close | cancellation while a thread uses the connection; another process migrating | one thread at a time; migrations whole |
| `agent/ghostwrite.py` | enabled/paused dialogs, own-message ids, rate windows | auto-reply, human steps in | the echo of an own message before `send_text` returns; a pause while drafting | a human's message pauses, an own echo does not |
| `agent/suggest.py` | read receipts | suggest, nudges | a receipt between two reads or before a clear | a nudge is about a message that was read |
| `agent/translate.py`, `tui/settings.py` | settings, cached decisions | translate a history; save settings; check a model | a change of settings during a pass; two statements per change | no decision of the old settings is left; no unstored model is used |
| `agent/outbound.py` | detected languages, a lock per dialog | detect, offer variants | detection coalesced across callers | the dialog's language is detected once |
| `agent/runner.py`, `agent/orchestrator.py` | pending image per dialog | one event at a time through the graph | the image handed over out of band | an image meets its own turn |
| `web/` | echo suppression, one stream and history per page | open, send, render, stream, translate, mark read | answers and frames in any order across switches of the dialog | nothing unseen is marked read; a line is under its own message |
| `tui/` | pane, cursor, drafts, dialog list | open, scroll, stream, translate, send, pick a tab | workers that resume after an await with a pane, a composer or a tab that has changed | no hole in the pane; a text goes to its room, once; the list is the tab's |
| `cli/` | REPL with printers | read, send, print, translate, leave | leaving with events queued or under translation | what came before the exit is printed |
| `agent/factory.py` | none | structured calls with fallbacks | failures that look like answers | a failure is not a decision |
| `config`, `core/paths.py`, `names`, `usernames`, `languages` | none that lasts | parsing, construction | none beyond their inputs | pure functions |

How they meet: the client's handlers publish live events to buses and invalidate its
TTL caches; the message store, the watchers, the ghostwriter and the UIs consume the
buses; the message store fills itself through `client.history_since` (uncached) and
`client.history` (cached); the coordinator sends through the client and records the
draft with `message_store.record_outgoing`; the translator writes into the store's rows
directly. The worker is a process of its own that talks to an external factory over HTTP. The
long-running commands (heartbeat, moderation, ghostwriter, watcher, worker) and the commands
that configure them are processes of their own too: they share SQLite and files, not memory.

`PROJECT.json` lists every component with its status, and the hazards at their lines.

## Modules

| Module | What it models | Composed in |
|---|---|---|
| `TTLCache`, abstract `ReadThrough`, `TTLCacheProofs` | `core/cache.py`; what a cache may return to a reader | `MCCore` |
| `SessionFiles`, `CoreProofs` | `SessionStore` of `core/auth.py` on the file system, one command per process | `MCCore` |
| `Login`, `CoreProofs` | `LoginFlow` and `LoginSession` of `core/auth.py` under the login routes of `web/app.py` | `MCCore` |
| `DeletionWatcher`, `CoreProofs` | `core/watch.py` with its two `EventBus` queues and the client's handlers | `MCCore` |
| `ReportWorker`, `MCReportWorker`, abstract `TaskLedger`, `WorkersProofs` | `interop/worker.py`, the requests of `factory_client.py`, the factory and Telegram as their environment | `MCWorkers` |
| `Ghostwrite`, `WorkersProofs` | `agent/ghostwrite.py`, with Telegram, the owner, one queue of `core/events.py` and the commands as its environment | `MCWorkers` |
| `MessageStore`, `MCMessageStore`, `MessageStoreProofs` | `core/message_store.py`, with Telegram, the client's history cache and the live events as its environment | `MCStores` |
| `StorageLayer`, `StoresProofs` | `core/storage.py`: tasks, worker threads, migrations, another process | `MCStores` |
| `Heartbeat`, `EnginesProofs` | `core/heartbeat.py` and the plan commands | `MCStores` |
| `Moderation`, `EnginesProofs` | `core/moderation.py` and the rule commands | `MCStores` |
| `Nudges`, `StoresProofs` | receipts and nudges of `agent/suggest.py` | `MCStores` |
| `Translation`, `MCTranslation`, `StoresProofs` | `agent/translate.py`, its rows in the store, the structured call of `agent/factory.py`, the settings card, `tg lang`, the web form | `MCStores` |
| `OutboundTokens`, `MCOutboundTokens`, abstract `SelectionOnce`, `OutboundTokensProofs` | `agent/outbound_coordinator.py`; what may reach Telegram under an offered translation | `MCFrontends` |
| `Client`, `FrontendsProofs` | history reads, writes, deletions and handlers of `core/client.py` over an abstract cache | `MCFrontends` |
| `WebChat`, `FrontendsProofs` | `web/app.py`, `web/state.py` and the browser's `chat.html` | `MCFrontends` |
| `TuiHistory`, `MCTuiHistory`, `FrontendsProofs` | the message pane of `tui/app.py` | `MCFrontends` |
| `TuiComposer`, `FrontendsProofs` | the composer, drafts, outbound flow and suggester of `tui/app.py` | `MCFrontends` |
| `TuiSidebar`, `FrontendsProofs` | start-up and the dialog list of `tui/app.py` | `MCFrontends` |
| `ChatRepl`, `FrontendsProofs` | the chat REPL of `cli/main.py` | `MCFrontends` |

The four composing modules put components side by side that share no state (no process runs
them together, or each has tables, panes or requests of its own): the initial states choose
a `focus`, and every step is a step of that component. One run thus explores the
components one after the other, each in full, and a property of one holds
trivially while another has the focus. Fairness is that of the components, which owe nothing
in their initial states; `ReportWorker` does (a worker is to be started), so that `MCWorkers`
restates its fairness for the states in which it has the focus. Components that do
interact are composed otherwise: the abstract cache of `Client` is `ReadThrough`, which
`TTLCache` is shown to implement; `MessageStore` and `DeletionWatcher` hold the part of the
client and of the buses they depend on.

A definition called `Fault...` is a mutation: the named definition after it with a
plausible bug. `PROJECT.json` pairs each with the property that it breaks; no
specification uses one.

### TTLCache

The event loop runs a task up to its next suspension, so an action is what a task does
between two awaits. `get_or_fetch` is four of them: a hit; a miss that takes the lock at
once and starts the fetch, or queues; a waiter that gets the lock and finds or does not
find a value; the return of the fetch, with `set`, the release and the last-one-out
cleanup in one step, as there is no await between them. `LeavesEmptyHanded` is the
exception and the cancellation path, possible wherever a task awaits. `Left` removes a task
from the key's line: the `[lock, waiters]` pair exists exactly while the line is not
empty, the lock's holder is its head, because an `asyncio.Lock` is fair and a newcomer
never overtakes its waiters. Generations (`_epochs`) are numbers and 0 is "no entry",
which is what `.get(key, 0)` makes of it.

Values are version numbers of the data at Telegram (`truth`). `floor`, a history
variable, is the version at the last invalidation of a key.

* `StoreBounded` relates the dictionary, its order and the bound.
* `StoredNotSuperseded` is #125-A4: an invalidation that races a fetch wins.
* `SingleFlight` and `CallsEnd`: misses coalesce, and no waiter is orphaned.
* `ReadsThrough`: the cache implements `ReadThrough`, with a call in progress mapped to
  an unanswered question. A read may be as old as the invalidation in force when it was
  asked, no older.
* `EpochsReferenced` is violated (run `ttlcache_epochs`): the comment of `_prune_epoch`
  is true of the paths that call it and not of `get`'s lazy expiry and `invalidate()`.

Fairness (only `CallsEnd` needs it): a task whose lock is free runs, Telegram answers or
the connection raises, and an answered fetch returns. These are the event loop's and
Telethon's timeouts; nothing is assumed of new calls, invalidations or the clock.

### ReportWorker

`pc[w]` is the await a worker is in. `Start` and `Adopt` are `worker_reports_path` with
the window between `exists()` and `replace()`; `Add` and `Ack` are the list operation
followed by `_save`, whose temp-file-and-replace is atomic and which can fail. A request
is heard by the factory (`FactoryClaims`, `FactoryHears`) in a step of its own, so that
request and answer can each be lost. `Stop` is Ctrl+C or a crash, between any two steps:
memory is lost and a message on its way may or may not leave. The factory's rule for
replays and conflicts is what the module's docstring (lines 25-27) states of it.

* `NoWorkOverUnacked` is #294 and also what makes `ack()`'s `pop(0)` pop the report it
  posted.
* `ReportsAreDurable`: across restarts, migrations and saves of two sessions (#305) a
  report leaves the files only when its task has an outcome.
* `ReportsArrive`: a report in a session's file is settled in the end.
* `KeepsLedger`: the workers implement `TaskLedger` (one claim, at most one message, no
  "completed" without a message, one outcome).
* `SentIsReported` is violated (run `report_worker_lost`): between the send and `add` a
  cancellation or a crash leaves a sent message nobody reports.

Fairness (only `ReportsArrive` needs it): a session that ended is started again (weak), and
strongly fair: its next step, the factory hearing a report posted again and again, and an
acknowledgement whose save succeeds. Strong, because the worker may be stopped in
between any number of times; the code retries for ever with `IDLE_SLEEP`, and the
network and the disk must not be down for ever. A 4xx other than 409 ends the process,
and whoever runs it starts it again.

The branch for a corrupt file (lines 67-74) is not modelled: an atomic save cannot leave
one.

### OutboundTokens

Every access to the token store runs under one lock without an await inside, so `prepare`'s
insertion, `_mark_sending`, `_consume_token` and `_restore_token` are a step each and
requests interleave at `send_fn`. A token is the number of its issue: the store only ever
appends, so "oldest" is "smallest", and since all tokens live equally long the clock
is the number of tokens whose time is up. `Arrive` is Telegram taking the message, which is
apart from `send_fn` returning, so a cancelled request may have sent its message.

* `MarkedIsInFlight` is #125-A9. `MidSendIsKept` is `_prune`'s "never drop one mid-send";
  `TokensBounded` that the store stays within `token_max` all the same.
* `SendsOnce`: the coordinator implements `SelectionOnce`. Note what that does not say: a
  request cancelled after its message landed leaves a token that may be used again, and
  the variant may reach Telegram twice, once per attempt.

`CHECK_DEADLOCK FALSE`: a run ends when its tokens are spent.

### MessageStore

Every SQL statement and every Telegram request of `history` is an action, and a call
may fail or be cancelled between any two of them (`Fail`). The dialog's lock is not a
variable: it is held by the call whose `op` is in a state of `Locked`. `LoadRow` and
`LoadRows` come after the lock is released, as in line 127. `TakeOlder` reads the sync row
and the rows in one step: both are read under the lock, the row changes only under it,
and what other writers do in between shows as a step before or after. `served` is the
instant at which a call has its answer; it returns before anything else happens, so a
property of `served` compares a page with Telegram when it was read, not later.

A message is its id; edits do not reach this store as events. Private dialogs draw their ids
from one sequence (`SameIds`), so a dialog's messages (`sent`) have gaps that are not holes. A
row is there or not, with or without the source text of a translated send. Live events are
delivered to the client's handlers when they happen, or never; the consumers take them out of a
set, in any order. An event that is not delivered leaves the client's pages cached, too. For a
deletion without a chat id every dialog's cached pages go, and the rows are selected first and
then deleted one by one.

* `WindowHasNoHole` is the promise of the sync row.
* `PagesHaveNoHole` is the same for what `history` returns, older pages included, and that
  a short older page really is the start of history (the UI stops backfilling on it).
* `SourceIsKept`: the draft recorded for a translated send stays with its message. The
  exception is `ClearTranslations`: `clear_all_translations` empties the column for every
  row, and these drafts live in it.
* `WatermarksFromFreshPages` is violated (run `message_store_pages`): an older page comes
  from the client's cache.

Not promised, and not checked: that the window holds nothing Telegram has deleted. A lost
deletion, a page fetched before a deletion and written after it, and the translator's
unlocked upsert each leave a ghost row until the next full refresh of that range.

### Ghostwrite

Two tasks and a database. The incoming consumer is `eng`: drafting, between the repeated
`is_active` and the send (`cleared`), in `send_text` (`sending`), and going through the
events put off meanwhile (`deferred`). The outgoing consumer takes events from a bounded
queue (`Hear`). `_pause_for_human_outgoing` is a read (`Look`) and an UPDATE (`Pause`)
in either consumer, and the commands, which belong to other processes, come between. An
outgoing message is a number; its event reaches the client at any time after it was sent,
in any order, or never. `Land` is Telegram taking the reply, apart from `send_text`
returning or raising. A pause is for a day or for ever, and the clock is `Resume` and `Hour`.

* `EchoIsNotTheOwner`: an own reply whose send returned is not taken for the owner's
  message, whichever of echo and return comes first.
* `OwnerIsHeeded`, `OwnerSilencesEngine`: an owner's message the engine has heard of stays
  in its hands until the dialog is silent, through a reply under way and its failure; and
  the dialog does fall silent. Messages lost in a full queue, in a statement that raises or
  in a restart are not heard of.
* `OneReplyAfterPause`: the check is repeated before the send, so one reply can land after
  the pause and no second.
* `OwnSendsNeverPause` is violated (run `ghostwrite_echo`): the echo of an earlier reply,
  put off while a later one is sent, pauses the dialog.
* `PausesAreNotShortened` is violated (run `ghostwrite_pause`): pause-all between `Look`
  and `Pause`.

Fairness (only `OwnerSilencesEngine` needs it): both consumers take their next event, a
statement ends, and `send_text` returns or raises. Nothing is assumed of drafts, events,
commands or restarts.

### SessionFiles

Each command is a process: a write goes to a temporary file first (`BeginSave`,
`BeginCreate`, the rewrite of a plaintext session by `Load`), then takes
`.session-store.lock` and publishes it with `os.replace`, or with `os.link` for a creation,
or, without hard links, with a look and a replace. The section under the lock has two steps.
A command can fail (its temporary file goes) or die (the file stays, the lock does not) at
any of them, and the user starts the next one.

* `CreatesOnlyNew`: `save_session_if_absent` never replaces a session, with hard links or
  without, whatever other commands save, rewrite or delete meanwhile. `made` records what
  each creation met.

Observed and not stated anywhere, hence not a property: the rewrite of a plaintext session
reads outside the lock, so that it may put an older session over one saved in between.

### Login

Requests of several tabs await Telegram on one connection, which answers in order (`asked`).
A step checks the wizard's state before its first await, so that a second tab finds the slot
claimed. `CutOff` is a request cancelled after Telegram has sent a code: its hash is lost,
and `cut` excuses what follows. `OpenForm` is GET `/tg-login`; `reset` does nothing unless
the login is done. (The text of `auth.py:508`, "reload to restart", promises more.)

* `HashIsLive`: while the wizard asks for the code, the hash it holds is the last Telegram
  gave.
* `ClaimIsReleased` (liveness): the slot a phone claims is given back. Fairness: Telegram
  answers or the connection fails, which is Telethon's request timeout. Nothing is assumed
  of tabs.

### DeletionWatcher

Two consumers, `TakeOutgoing` and `TakeDeleted`, on bounded queues that drop their oldest
event (`Publish`), share the cache of own messages. A notice is a message of ours, too.
The cache is a set, its order is that of the updates (`sent`): the oldest leaves first.
`WatchAssumption` says how Telegram gives out ids and that the copies' ids are their own.
`CopyStep` sends or fails one dialog's copy; `inHand` is what `_match` popped and the loop
has not tried yet.

* `CopiesAreTrue`: a copy is of own deleted messages only, each copied once, though ids
  collide between dialogs and the update often names no dialog, and copies are own messages.
* `NewestAreKept`: a subscriber that is behind has lost its oldest events and no others.
* `TakenIsCopied` (liveness): a message taken out of the cache is copied, or its own send
  failed, or the watcher stopped. Fairness: both consumers take their next event, and a send
  ends.

### StorageLayer

A call takes the asyncio lock and runs in a worker thread; `cancelled` are the tasks whose
cancellation is kept until their thread ends. `Migrate` executes one statement in the open
transaction, `Commit` makes all of them visible with their records; another process migrates
the same file, and the process may be killed at any step.

* `MigrationsAreWhole`: a table exists exactly when its migration is recorded.
* `OneThread`: one thread uses the connection.
* `OpenIsMigrated` (proved, not run): a connection nobody works on has its whole schema.

### Heartbeat

A tick reads the plans and the clock once; for each plan due it awaits the tail of the
dialog, a text, the record and the send. Time is in hours. The commands (other processes)
upsert and remove rows in between; the peer and the owner write; a statement or request
fails; the process restarts. `pings`, `unanswered` and `late` are histories of what landed.

* `PingsKeepThePlan`: the interval and `max_per_day` hold for what landed, over failed
  sends, restarts, day boundaries and replaced plans.
* `OneUnansweredPing`: no second ping follows one the peer has not answered.
* `RemovedPlanIsSilent`: the tick under way when a plan is removed sends one ping at most
  and does not bring the row back (`_record_ping` is an UPDATE, not an upsert).

### Moderation

Messages and joins come on two queues (`posts` and joins may be judged in either order),
each with its consumer; the caches of members and rates forget the least recent. A rule that
matches has its actions taken and journaled one after the other; each can fail, and so can
the row of the log. The actions of a rule are a set, taken in `_apply`'s order. A sender's window
holds each message with the time it was seen at. `seen`, `welcomed`, `fired`, `done` and `erased`
are histories and outlast a restart, which empties the caches.

* `FiresTruly`: a rate rule fires only if so many messages of that sender and chat really
  lay within the window, a newcomer rule only if the join was seen within its limit.
* `AuditIsComplete`: every action of a rule that fired is in the log, done or failed, unless
  its own row could not be written; nothing is done that no rule asked for.

Noted, not stated: the account's rights are checked when the engine starts, for the rules of
that moment; rules of a chat that commands add later are acted on without it.

### Nudges

The receipt is two settings written and read by one statement each, by two processes; the
nudge run reads both, then the history, and drafts or drops. `received` and `stamped` are
histories.

* `NudgesTheRead`: a nudge is drafted only for an own message at the end of the dialog that
  a receipt covers.

Noted: between `FetchHistory` and `ClearLastRead` a fresh receipt is dropped with the spent
one; and a receipt whose time belongs to its predecessor may be nudged about early or late.
Neither is promised in the code.

### Translation

A pass reads its mode and its lists, looks the rows up, asks the model about the rest and
stores what it says, with an await for each. `WebSaves`, `CommandSaves` and the card's
`CardSaves` write settings meanwhile: a setting is put and then the cached decisions are
cleared, two statements each (`PutThenClear`). `Answer` and `NoAnswer` are what the
structured call makes of the model. The card checks a model before it stores it, and its key
presses arrive while a check or a save is awaited.

* `NothingOutlivesAChange`: once no change is under way, and none was torn by a failure,
  every cached decision was written after the last change.
* `AdoptedIsStored`: a translator is swapped in only after its model was proved and stored.
* `MarkersAreDecisions` is violated (run `translation_markers`): a failed call is stored as
  "no translation needed".

Noted, not stated: a pass that read the settings before a change stores its decisions after
the clear, and they stay; of several settings given to `set_settings` the first may be
written when a later one is refused (`translate.py:376`).

### OutboundTokens' callers: WebChat, TuiComposer, ChatRepl

`WebChat` has one browser: `OpenDialog` closes the old stream and asks for the history,
`Serve`, `Swap` are the answer; a stream carries incoming and outgoing messages apart; a
send's answer is its bubble, and the echo is suppressed by `sent`, a bucket of bounded size.

* `ReadIsShown`: Telegram is told read only what was on screen while its dialog was open.
* `LinesMatch`: a translation stands under the message it translates, although ids of
  dialogs collide.

`TuiComposer` has one composer for all rooms and a draft for each. The outbound flow is an
exclusive worker (`preparing`, `picking`, `sending`); a submission elsewhere cancels it.

* `RightRecipient`: a text is sent to the room it was typed in or suggested for.
* `SentAsOftenAsTyped`: once per submission, and once more per failure.
* `FlowKeepsDraft` is violated (run `tui_draft`).

`ChatRepl` is the loop and its printers. On one event loop a printer with a non-empty queue
takes all of it in one step.

* `PrintedBeforeExit`: what was published before the last line was read is printed before
  the printers are cancelled.

In all three a translated variant's echo may come before the send is remembered, because
`send_variant` awaits `record_outgoing` in between; it is then shown twice. Nothing in the
code promises otherwise.

### TuiHistory and TuiSidebar

`TuiHistory`: five writers of one pane. `OpenChat` clears it and starts the history worker;
`StartBackfill` pages upward from the cursor; `Drain` mounts live messages; `CtrlT` rebuilds
the pane; each worker compares the switch generation or the dialog after its await.
`TuiSidebar`: `_startup` loads, waits for the store, opens the gate, reconciles; a tab event
before the gate is dropped, after it it reloads exclusively.

* `PagesMeet`: without a whole-chat pass the pane has no hole once its history is shown:
  between any message it shows and the newest one nothing is missing, except live messages
  still on the feed, which the next drain mounts (`Awaited`).
* `HistoryHasNoHole`: the same with passes; violated (run `tui_hole`).
* `ListIsOfTheTab`: when nothing is loading, the list is that of the active tab.

Noted: `_restore_draft` may put an older draft over a newer one; a backfill cancelled before
its first step leaves `_backfilling` set; `_mark_read` may zero an unread count that is
newer.

### Client

Reads through the cache, taken at the word of `ReadThrough`; writes, edits and deletions
that invalidate when they return; handlers that invalidate before they publish; deletions
that name no dialog; refusals and lost answers. A page is the number of changes its dialog
had seen. `known` is the last change a caller was told of, by a return or an event.

* `NothingGoesMissing`: a page read by a call begun afterwards is not older than that.
* `DeletesAsAsked`: what `delete_messages` removes belongs to the dialog named, although ids
  of private dialogs are shared, and the check is one request and the deletion another.

## Runs

All with two workers, on a four-core machine. The first four hold; each of the others refutes
one statement of a comment or a docstring, and its finding in `PROJECT.json` quotes it.

| Run | Components, and the distinct states of each | Distinct states | Time |
|---|---|---|---|
| `core` | TTLCache 207,000, DeletionWatcher 42,000, SessionFiles 12,000, Login 1,600 | 262,439 | 110 s |
| `workers` | ReportWorker 45,000, Ghostwrite 18,000 | 63,476 | 65 s |
| `stores` | Moderation 766,000, Translation 196,000, Nudges 126,000, Heartbeat 54,000, StorageLayer 700, the rest MessageStore | 2,080,519 | 200 s |
| `frontends` | Client 690,000, TuiHistory 644,000, TuiComposer 222,000, OutboundTokens (two requests alike), WebChat 86,000, ChatRepl 32,000, TuiSidebar 300 | 1,932,817 | 135 s |
| `ttlcache_epochs` | TTLCache | violated | 1 s |
| `report_worker_lost` | ReportWorker | violated | 1 s |
| `message_store_pages` | MessageStore, one private dialog of 3 messages | violated | 12 s |
| `ghostwrite_echo`, `ghostwrite_pause` | Ghostwrite, a queue of 2 | violated | 2 s |
| `translation_markers` | Translation | violated | 2 s |
| `tui_hole`, `tui_draft` | TuiHistory; TuiComposer | violated | a few s |

Why the bounds are enough to be interesting:

* TTLCache: a store of one entry makes every fill of another key an eviction, so that an
  epoch is pruned under a fetch; two tasks are a fetcher and a waiter, or two fetches; two
  invalidations move an epoch twice during one fetch.
* SessionFiles: two commands, one with a key and one without, race for one name. Login: two
  tabs, two-factor on. DeletionWatcher: a queue and a cache of two that overflow; a private
  dialog whose ids collide with another's, and a channel.
* ReportWorker: two sessions race for the old file; it has two reports because one can only
  hold up another; one more task can be claimed by either. Ghostwrite: dialogs share only
  the queue and the one reply at a time, so one dialog suffices; a queue of one drops at the
  second message. Three messages and a queue of two pass as well (313,000 states; not among
  the runs).
* MessageStore: the private dialog has three messages and pages of two, so that a gap, a
  short page, a full page and an offset on the edge occur; the channel has two messages,
  pages of one and two readers, for an older page next to a refresh, and a cached page. Both
  page sizes at once, with one reader and with two, pass as well (1.7 and 5.4 million states).
* StorageLayer: two tasks and two statements, an abandoned thread beside a waiting one.
  Heartbeat: one contact, because contacts share only the tick; a day of six hours with
  quiet hours over its end, an interval of two and two pings a day make every limit
  bind, and nine hours cross a day's boundary. Moderation: one user in two chats, rules with
  and without rights, a cache of one member. Nudges: three messages, two receipts. Translation:
  two messages of two languages, one without words; the card, the web form and the command.
* OutboundTokens: a store of two with three tokens evicts while another token is mid-send.
  WebChat: two dialogs whose ids collide. TuiHistory: two chats, pages of one, one live message.
  TuiComposer: two rooms, three texts, one failure. Client: two private dialogs and a channel,
  two changes, two requesters.

The bounds, each in the guard of an action of the environment, a caller or the user:
`MaxVersion`, `MaxEpoch` (TTLCache); `MaxCodes`, `MaxSteps` (Login); `MaxDeletions`
(DeletionWatcher); `MaxMessages` (Ghostwrite, Moderation, WebChat); `MaxId`, `MaxPending`,
`MaxCached` (MessageStore); `MaxTime` (Heartbeat); `MaxJoins`, `MaxNow` (Moderation);
`MaxIds`, `MaxReceipts`, `MaxHour` (Nudges); `MaxSaves` (Translation); `MaxTokens`
(OutboundTokens); `MaxRequests` (WebChat); `MaxLive` (TuiHistory);
`MaxTexts`, `MaxFails` (TuiComposer); `MaxEvents`, `MaxLines` (ChatRepl);
`MaxIds`, `MaxChanges` (Client). `MCStores` limits the readers and the page sizes of its two
parts of the message store (`Within`), and `Edited` the rules that are edited.

Symmetry (readers, callers and their variants, requesters) is used only where no liveness is
checked. `CHECK_DEADLOCK FALSE` stands where the system may stop: watchers and engines are
stopped, the REPL is left, a login is done, messages and changes are used up. `workers`
checks deadlock: a worker is always started again.

Fairness is stated in the component's section where a liveness property needs it, and nowhere
else. It is that of the event loop (a task whose await has ended runs), of Telethon's and the
model client's timeouts (a request returns or raises), and for the report worker of its retry
loop and of the user who starts it again.

## Proofs

TLAPS proves every safety property that a passing run checks, for all values of the constants
and so for any number of dialogs, tasks, readers, messages and limits, from the named assumptions
of the modules, which the runs evaluate:

| Assumption | Module | What it asks |
|---|---|---|
| `ConstantsAssumption` | `TTLCache`, `ReportWorker` | a cache holds at least one entry; "nobody" and "no answer" are not tasks or keys |
| `BoundsAssumption`, `StorageAssumption`, `CommandsAssumption`, `GhostAssumption`, `NudgesAssumption` | `OutboundTokens`, `StorageLayer`, `SessionFiles`, `Ghostwrite`, `Nudges` | limits are positive, bounds are numbers, a "nobody" is nobody |
| `PeersAssumption`, `LimitsAssumption` | `MessageStore` | channels are dialogs; a page has at least one message |
| `WatchAssumption` | `DeletionWatcher` | ids as Telegram gives them: one message per id outside channels, one per id in a channel; copies get ids of their own; a queue holds something |
| `PlanAssumption` | `Heartbeat` | what the validators of `HeartbeatPlan` enforce |
| `ModAssumption` | `Moderation` | a rule's actions are the four there are, its limits are numbers |
| `TuiAssumption` | `TuiHistory` | `Closed` is no chat; sizes and ids are numbers |

Each theorem follows from an inductive invariant, which is needed because most of the properties
are not inductive: they speak of what was done or stored, and hold because of what a suspended
task may still rely on when it resumes. That is what the strengthenings state.

* **TTLCacheProofs**: `TypeCorrect`, `NeverServesSuperseded`, `FetchesCoalesce`,
  `ReadsNothingSuperseded`. `StoredNotSuperseded` says nothing of fetches. The invariant adds
  that a task inside `get_or_fetch` is in its key's line and a fetcher at its head (`Counted`,
  `FetcherHolds`), hence the entry and with it the epoch outlive the fetch, and that an epoch
  equal to the snapshot means the answer is not older than the floor (`EpochGuards`). That is
  the argument of `_prune_epoch`'s docstring, made precise: restarting at 0 is safe because
  nobody holds a snapshot then. `SingleFlight` follows from `FetcherHolds`.
* **MessageStoreProofs**: `NoHoles`, `KeepsSources`. What a call of `history` has in hand is
  complete between its ends at Telegram (`Whole`, `WholeBelow`): messages are only added above
  it, and a deletion takes from both. What it has written of the page stays written, since who
  drops rows that are alive needs the lock it holds (`LockOK`, `WritesOK`), and the low edge moves
  down only over such a page (`FoldsOK`). An empty page needs an argument of its own: whatever is
  alive by then was sent after it and lies above the window and above every range that a reader
  has loaded (`EmptyOK`). A deletion under way (`gone`, `doomed`) excuses its own ids alone.
* **CoreProofs**: `AccountsAreOnlyAdded`, `CodeIsAskedForLiveHash`, `CopiesTellTheTruth`,
  `SlowReaderLosesTheOldest`. Sections under the file lock exclude each other, and a creation
  without hard links that is about to publish has found no session (`SectionsOK`). Until the
  account is authorized the flow holds the last hash, unless its answer was cut off, and a code
  on its way was entered for a hash (`FlowIsLive`, `CodesHaveHash`). Of the watcher: an own
  message is in one place of outgoing queue, cache, deletion at hand and copies (`ReadOnce`,
  `OnePlace`), what a queue holds is the end of what was published (`EndOf`), and an event names
  only what is deleted (`TrueEvents`): an id without a chat names one message only, by
  `WatchAssumption`.
* **StoresProofs**, the storage layer: `StorageTypeCorrect`, `MigrationsNeverHalfApply`,
  `ConnectionHasOneThread`, `OpenHasItsSchema`. The lock is held exactly while a thread runs, by
  the task that started it, cancelled or not (`HolderRuns`); what an open connection lacks, its
  migrating thread has in hand, unless the connection is about to be closed (`SchemaInHand`);
  only such a thread has a transaction open. Nudges: `OnlyReadIsNudged`. Every own message
  up to the stored receipt was covered by one (`StampedTo`), and what the nudger read of it stays
  true, since no receipt is taken back (`NudgerKnows`). Translation: `ChangesClearDecisions`,
  `AdoptsWhatIsStored`. The first is
  inductive over the tables' types; for the second, only an open card stores a model, and as the
  last of its writes (`OnlyCardStoresModel`, `ModelIsLast`).
* **EnginesProofs**, the heartbeat: `PlansAreKept`, `PingsAreAnswered`, `RemovedPlansStaySilent`.
  The tick acts on a plan it read long ago; the invariant says what is still true of it. No ping
  of a plan landed after the last one the tick knows of (`SpacesOK`), and its counter is not less
  than the pings of its day, the one recorded and not yet sent included (`CountsOK`), or the plan
  was stored anew. `RemovedOK`: after the late ping of a removed plan the tick has nothing left
  of it. Moderation: `NeverOverModerates`, `TrailIsComplete`. The caches hold nothing that was
  not seen (`JoinedOK`, `RatesOK`), whatever they have forgotten, so a rule counts at most what
  was there; and the message in hand is one that a rule fired on, with no action that is not
  that rule's (`HandOK`).
* **WorkersProofs**, the report worker: `TypeCorrect`, `ClaimsOnlyWhenDrained`,
  `WorkersKeepLedger`, `FilesKeepReports`. The invariant says what each worker holds in each
  state (`WorkersOK`), that a task handed to a worker is its alone and untouched (`HandedOK`),
  and that every report in memory or in a file is of a claimed task and true of it (`QueuesOK`);
  the last is what lets any stale file be replayed. For the files (`KeptBy`): what a session's
  file has and its queue has not was acknowledged, so its task is settled and stays so
  (`Steady`), and a session that adopts the shared file has none of its own to overwrite.
  The ghostwriter: `EchoesAreToldApart`, `OwnersAreHeeded`, `SilenceHolds`. A reply whose send
  returned is in `_own_sent` until its echo is heard (`OwnIsKnown`), and no consumer is at a
  message it might wrongly take for the owner's, neither the reply under way nor, in the outgoing
  consumer, a known one (`ReplyIsThere`, `JudgesAreCareful`); the owner's messages heard of are in
  hand in a dialog that is active (`OwnersAreHeld`); after a reply has landed in a silent dialog
  none is under way there (`LateIsOver`).
* **OutboundTokensProofs**: `TypeCorrect`, `NoTokenStuck`, `MidSendNeverEvicted`,
  `StoreKeepsItsLimit`, `SelectionsSentOnce`. `FlightsOK` says that sends in progress have tokens
  of their own, marked if still stored, and send what was offered; `ConsumedOK` that a consumed
  token never comes back. The limit holds although marked tokens may not be evicted, because
  they were within it when they were marked: of the idle tokens the oldest that pruning keeps is
  kept because everything from it on fits (`SurplusIsDropped`); if none is kept only marked ones
  are left.
* **FrontendsProofs**: `NeverMissing` and `OnlyWhatWasAsked` (Client): an event or a return comes
  after its invalidation, so the cache's floor is not below any change a caller knows of
  (`KnownIsInvalidated`, `CallsInTime`, `EventsInTime`); an id that was
  checked is borne by the dialog asked for or by none that is numbered together with it, now and
  later, since ids are not given out twice (`IdsOK`, `DeletesOK`).
  `MarksWhatWasShown`, `TranslationsInPlace` (WebChat). `NeverToAnotherRoom`, `NeverTwice`
  (TuiComposer): a text that may still be sent is in one place only of composer, drafts, flow and
  confirmation, and was sent as often as its sends failed (`OneCopy`, `Sendable`).
  `ListFollowsTab` (TuiSidebar). `NothingIsLost` (ChatRepl). `PaneHasNoHole` (TuiHistory): the
  messages held, on screen or on the feed, are closed upwards: with one message every later one
  of the chat is held (`HeldOK`, `FeedOK`); the page of the history worker and what came since reach
  from its oldest message to the newest (`HistoryPageOK`), a page of the backfill reaches up to
  the cursor (`BackfillPageOK`), and the cursor is a message held (`CursorOK`); a worker whose
  chat is not the open one is gone (`HistoryOK`, `BackfillOK`).

Only model-checked: the five liveness properties (`CallsEnd`, `ClaimIsReleased`, `TakenIsCopied`,
`ReportsArrive`, `OwnerSilencesEngine`), which are beyond the prover. Two sizes of a store are
stated and listed by no run: `TokensBounded`, which is proved, and `StoreBounded` of `TTLCache`,
which TLC finds to hold. The type invariants `TypeOK` and `StorageTypeOK`
are theorems; those of the other components are the first conjunct of their inductive invariants
(`BeatInv`, `LoginInv`, `StoreInv`, `TuiInv` and so on), in the modules that prove them.

## Not modelled

Listed with reasons in `PROJECT.json`. In short:

* Libraries (Telethon, SQLite, httpx, LangGraph, Textual), rendering, argument parsing,
  prompts and logging; the factory's and Telegram's insides; time as a quantity, except
  where an engine counts it.
* `agent/runner.py`, `agent/orchestrator.py` (the image handed over per dialog),
  `agent/outbound.py`'s detection of a language and its lock, and the tools of
  `agent/factory.py`.
* `config.py`, `core/paths.py`, `dotenv`, `names`, `usernames`, `languages`: functions of
  their inputs.
* Of the client: the dialogs' and members' caches, the send bucket, stories, media, reactions
  and admin calls. Of the login: QR, revocation, the cipher. Of the user interfaces: reactions,
  search, unread badges, settings of profiles. Of the watchers: dry runs.
* The eviction of idle locks of the message store beyond 1000 dialogs.
* A send cancelled after Telegram took the message may be repeated by the user: nobody can
  tell, and the code promises nothing.

## Plan

Done: the cores of all components with state except the runner and the outbound detection, and
a theorem for every safety property that a run checks. Next, in this order:

1. `AgentRunner` with `Orchestrator`'s pending image, `OutboundTranslator`'s detection lock;
   the send bucket and the idle-lock eviction.
2. Pure functions against reference definitions: username candidates, profile paths.
3. A proof of `StoreBounded`, and the lemmas that several proof modules restate (the least of a
   set of numbers, a sequence without repetition) in one place.
