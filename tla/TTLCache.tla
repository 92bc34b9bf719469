------------------------------ MODULE TTLCache ------------------------------
(***************************************************************************)
(* core/cache.py: the single-flight TTL cache in front of every dialog and *)
(* history read.  The event loop runs one task at a time, so an action is  *)
(* what a task does between two awaits; an invalidation, an expiry or a    *)
(* change at Telegram can come between any two of them.                    *)
(*                                                                         *)
(* The values cached are abstracted to version numbers: truth[k] is the    *)
(* newest version of what key k names at Telegram.                         *)
(***************************************************************************)
EXTENDS Integers, Sequences, FiniteSets, SequencesExt

CONSTANTS
    Keys,        \* cache keys: "all"/"archived", or (peer, limit, offset)
    Procs,       \* the tasks that call get_or_fetch
    None,
    MaxSize,     \* the maxsize argument (2 for dialogs, 64 for histories)
    MaxVersion,  \* bound on truth: how often Telegram's data changes
    MaxEpoch     \* bound on an epoch: how often one key is invalidated

ASSUME ConstantsAssumption ==
    /\ None \notin Nat
    /\ None \notin Keys
    /\ MaxSize \in Nat \ {0}
    /\ MaxVersion \in Nat
    /\ MaxEpoch \in Nat

VARIABLES
    truth,  \* Telegram: truth[k] is k's newest version
    store,  \* _store: store[k] is the cached version, or None
    fresh,  \* the stored keys whose expires_at is still ahead of the clock
    order,  \* the order of _store's keys, oldest first
    epoch,  \* _epochs: 0 stands for "no entry", as .get(key, 0) reads it
    line,   \* _locks: the tasks counted in k's [lock, waiters] entry, in the
            \* order they will hold the lock; <<>> stands for "no entry"
    call,   \* call[p]: where task p is in get_or_fetch
    got,    \* got[p]: what p's last call returned
    floor   \* history: truth[k] when k was last invalidated

cacheVars == <<store, fresh, order, epoch, line>>
vars == <<truth, store, fresh, order, epoch, line, call, got, floor>>

Versions == 0 .. MaxVersion

\* call[p].floor is the floor when p called (history); snap the epoch read
\* before the fetch; ans the fetch's answer once Telegram has computed it.
Calls == [pc : {"idle", "waiting", "fetching"}, key : Keys \cup {None},
          floor : Versions, snap : 0 .. MaxEpoch, ans : Versions \cup {None}]

Idle == [pc |-> "idle", key |-> None, floor |-> 0, snap |-> 0, ans |-> None]

Init ==
    /\ truth = [k \in Keys |-> 0]
    /\ store = [k \in Keys |-> None]
    /\ fresh = {}
    /\ order = <<>>
    /\ epoch = [k \in Keys |-> 0]
    /\ line = [k \in Keys |-> <<>>]
    /\ call = [p \in Procs |-> Idle]
    /\ got = [p \in Procs |-> None]
    /\ floor = [k \in Keys |-> 0]

Stored(k) == store[k] # None
Live(k) == Stored(k) /\ k \in fresh
Inflight(k) == line[k] # <<>>

LockFree(k) == ~Inflight(k)

Generation(k) == epoch[k]
-----------------------------------------------------------------------------
(* The dictionary operations.                                              *)

\* get: an expired entry is popped by the read that finds it.
DropExpired(k) ==
    /\ store' = [store EXCEPT ![k] = None]
    /\ order' = SelectSeq(order, LAMBDA x : x # k)
    /\ fresh' = fresh

\* _prune_epoch, over the keys S, with the store and the locks as they are
\* after the step: the epoch of a key nothing refers to is dropped.
FaultPrunesInflight(ep, S, st, ln) ==
    [k \in Keys |-> IF k \in S /\ st[k] = None THEN 0 ELSE ep[k]]
Pruned(ep, S, st, ln) ==
    [k \in Keys |-> IF k \in S /\ st[k] = None /\ ln[k] = <<>> THEN 0 ELSE ep[k]]

\* set: k becomes the newest key; while the store is too large its oldest
\* key is evicted and that key's epoch pruned.
Filled(k) == Append(SelectSeq(order, LAMBDA x : x # k), k)
Evicted(k) == IF Len(Filled(k)) > MaxSize THEN {Head(Filled(k))} ELSE {}

Set(k, v) ==
    /\ store' = [x \in Keys |-> IF x \in Evicted(k) THEN None
                                ELSE IF x = k THEN v ELSE store[x]]
    /\ fresh' = (fresh \cup {k}) \ Evicted(k)
    /\ order' = IF Evicted(k) = {} THEN Filled(k) ELSE Tail(Filled(k))

\* The finally of get_or_fetch: p leaves k's entry; the last one out drops
\* the entry and prunes the epoch.
Left(p, k) ==
    LET place == CHOOSE i \in DOMAIN line[k] : line[k][i] = p
    IN [line EXCEPT ![k] = IF Head(@) = p THEN Tail(@) ELSE RemoveAt(@, place)]
-----------------------------------------------------------------------------
(* get_or_fetch.                                                           *)

\* The first look finds a live entry.
Hit(p, k) ==
    /\ call[p].pc = "idle"
    /\ Live(k)
    /\ got' = [got EXCEPT ![p] = store[k]]
    /\ UNCHANGED <<truth, cacheVars, call, floor>>

\* The first look misses: p is counted in k's entry.  On a free lock it runs
\* on without a suspension: the second look cannot differ, the epoch is read
\* and the fetch begins.  On a held lock it queues.
Miss(p, k) ==
    /\ call[p].pc = "idle"
    /\ ~Live(k)
    /\ DropExpired(k)
    /\ line' = [line EXCEPT ![k] = Append(@, p)]
    /\ call' = [call EXCEPT ![p] =
                 [pc |-> IF LockFree(k) THEN "fetching" ELSE "waiting",
                  key |-> k, floor |-> floor[k],
                  snap |-> IF LockFree(k) THEN Generation(k) ELSE 0, ans |-> None]]
    /\ UNCHANGED <<truth, epoch, got, floor>>

\* p, first in line, gets the lock: the second look finds what the task
\* before it cached, and p leaves with it ...
WaiterHit(p) ==
    LET k == call[p].key IN
    /\ call[p].pc = "waiting"
    /\ Head(line[k]) = p
    /\ Live(k)
    /\ got' = [got EXCEPT ![p] = store[k]]
    /\ line' = Left(p, k)
    /\ call' = [call EXCEPT ![p] = Idle]
    /\ epoch' = Pruned(epoch, {k}, store, line')
    /\ UNCHANGED <<truth, store, fresh, order, floor>>

\* ... or finds nothing, and p reads the epoch and fetches.
FaultNoRetry(p) == FALSE
WaiterMiss(p) ==
    LET k == call[p].key IN
    /\ call[p].pc = "waiting"
    /\ Head(line[k]) = p
    /\ ~Live(k)
    /\ DropExpired(k)
    /\ call' = [call EXCEPT ![p].pc = "fetching", ![p].snap = Generation(k)]
    /\ UNCHANGED <<truth, epoch, line, got, floor>>

\* Telegram computes the answer; it has not reached the task yet.
Answer(p) ==
    /\ call[p].pc = "fetching"
    /\ call[p].ans = None
    /\ call' = [call EXCEPT ![p].ans = truth[call[p].key]]
    /\ UNCHANGED <<truth, cacheVars, got, floor>>

\* The fetch returns.  Its value is cached unless the epoch has moved since
\* it was read; it is returned to the caller either way.
FetchReturns(p) ==
    LET k == call[p].key
        unmoved == Generation(k) = call[p].snap
    IN
    /\ call[p].pc = "fetching"
    /\ call[p].ans # None
    /\ IF unmoved THEN Set(k, call[p].ans) ELSE UNCHANGED <<store, fresh, order>>
    /\ got' = [got EXCEPT ![p] = call[p].ans]
    /\ line' = Left(p, k)
    /\ call' = [call EXCEPT ![p] = Idle]
    /\ epoch' = Pruned(epoch, {k} \cup (IF unmoved THEN Evicted(k) ELSE {}),
                       store', line')
    /\ UNCHANGED <<truth, floor>>

\* The fetch raises, or the task is cancelled while it fetches or queues.
LeavesEmptyHanded(p) ==
    LET k == call[p].key IN
    /\ call[p].pc # "idle"
    /\ line' = Left(p, k)
    /\ call' = [call EXCEPT ![p] = Idle]
    /\ epoch' = Pruned(epoch, {k}, store, line')
    /\ UNCHANGED <<truth, store, fresh, order, got, floor>>
-----------------------------------------------------------------------------
(* Invalidations, the clock, and Telegram.                                 *)

CanBump(S) == \A k \in S : epoch[k] < MaxEpoch

FaultBumpsStoredOnly(S) ==
    [k \in Keys |-> IF k \in S /\ (Stored(k) \/ epoch[k] > 0)
                    THEN epoch[k] + 1 ELSE epoch[k]]
Bumped(S) == [k \in Keys |-> IF k \in S THEN epoch[k] + 1 ELSE epoch[k]]

\* What every invalidation of the keys S does to the store.
Discard(S) ==
    /\ store' = [k \in Keys |-> IF k \in S THEN None ELSE store[k]]
    /\ order' = SelectSeq(order, LAMBDA x : x \notin S)
    /\ fresh' = fresh \ S
    /\ floor' = [k \in Keys |-> IF k \in S THEN truth[k] ELSE floor[k]]

\* invalidate(key), and invalidate_if(p) for the keys S that satisfy p: the
\* epoch of every one of them that is stored, in flight or has an epoch is
\* bumped, the entry popped, and the epoch pruned.  A key that is none of
\* the three is bumped and pruned at once by the first, skipped by the
\* second: nothing changes either way.
Invalidate(S) ==
    /\ S # {}
    /\ CanBump(S)
    /\ Discard(S)
    /\ epoch' = Pruned(Bumped(S), S, store', line)
    /\ UNCHANGED <<truth, line, call, got>>

\* invalidate(): bumps what has an epoch or is in flight, empties the store,
\* and prunes nothing.
InvalidateAll ==
    LET known == {k \in Keys : epoch[k] > 0 \/ Inflight(k)} IN
    /\ CanBump(known)
    /\ Discard(Keys)
    /\ epoch' = Bumped(known)
    /\ UNCHANGED <<truth, line, call, got>>

\* The oldest live entry reaches its expires_at (one ttl for all, so entries
\* expire in the order they were set).
Expire ==
    /\ \E i \in 1 .. Len(order) :
         /\ order[i] \in fresh
         /\ \A j \in 1 .. i - 1 : order[j] \notin fresh
         /\ fresh' = fresh \ {order[i]}
    /\ UNCHANGED <<truth, store, order, epoch, line, call, got, floor>>

\* Anybody's message, edit or deletion changes what k names.
Change(k) ==
    /\ truth[k] < MaxVersion
    /\ truth' = [truth EXCEPT ![k] = @ + 1]
    /\ UNCHANGED <<cacheVars, call, got, floor>>

Next ==
    \/ \E p \in Procs, k \in Keys : Hit(p, k) \/ Miss(p, k)
    \/ \E p \in Procs : WaiterHit(p) \/ WaiterMiss(p) \/ Answer(p)
                        \/ FetchReturns(p) \/ LeavesEmptyHanded(p)
    \/ \E S \in SUBSET Keys : Invalidate(S)
    \/ \E k \in Keys : Change(k)
    \/ InvalidateAll
    \/ Expire

\* A woken task runs, and Telegram answers or the connection raises: nothing
\* else is owed.  No call, change, expiry or invalidation is ever required.
Fairness ==
    \A p \in Procs :
        /\ WF_vars(WaiterHit(p) \/ WaiterMiss(p))
        /\ WF_vars(Answer(p))
        /\ WF_vars(FetchReturns(p))

Spec == Init /\ [][Next]_vars
FairSpec == Spec /\ Fairness
-----------------------------------------------------------------------------
(* Properties.                                                             *)

TypeOK ==
    /\ truth \in [Keys -> Versions]
    /\ floor \in [Keys -> Versions]
    /\ store \in [Keys -> Versions \cup {None}]
    /\ fresh \in SUBSET Keys
    /\ epoch \in [Keys -> 0 .. MaxEpoch]
    /\ call \in [Procs -> Calls]
    /\ got \in [Procs -> Versions \cup {None}]
    /\ line \in [Keys -> Seq(Procs)]

\* The store never outgrows maxsize, holds every key once, and only stored
\* keys can be live: set's eviction loop, get's pop and the two
\* invalidations keep _store's order and its contents together.
StoreBounded ==
    /\ Len(order) <= MaxSize
    /\ IsInjective(order)
    /\ ToSet(order) = {k \in Keys : Stored(k)}
    /\ fresh \subseteq ToSet(order)

\* No entry survives, or is created after, an invalidation it predates: what
\* the cache would serve is never older than the last invalidation of its
\* key (#125-A4: an invalidation racing the fetch wins).
StoredNotSuperseded ==
    \A k \in Keys : Stored(k) => store[k] >= floor[k]

\* Concurrent misses coalesce: at most one fetch of a key is in flight.
SingleFlight ==
    \A p, q \in Procs :
        /\ call[p].pc = "fetching"
        /\ call[q].pc = "fetching"
        /\ call[p].key = call[q].key
        => p = q

\* Whatever happens to the tasks before it in line (a fetch that fails, a
\* waiter cancelled), every call of get_or_fetch ends: no lock is orphaned.
CallsEnd ==
    \A p \in Procs : (call[p].pc # "idle") ~> (call[p].pc = "idle")

\* _prune_epoch's comment: "Drop a key's epoch once nothing references it
\* (not stored, no in-flight fetch).  Keeps _epochs bounded as keys churn."
EpochsReferenced ==
    \A k \in Keys : epoch[k] > 0 => Stored(k) \/ Inflight(k)

\* The cache implements ReadThrough.
askedBar ==
    [p \in {q \in Procs : call[q].pc # "idle"} |->
        [key |-> call[p].key, floor |-> call[p].floor]]

Promise == INSTANCE ReadThrough WITH asked <- askedBar

\* Every read returns something no older than the last invalidation its
\* caller could know of, through any interleaving of fetches, waiters,
\* expiries, evictions, cancellations and invalidations.
ReadsThrough == Promise!Spec
=============================================================================
