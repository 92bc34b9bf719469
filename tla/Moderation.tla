---------------------------- MODULE Moderation ----------------------------
(***************************************************************************)
(* ModerationEngine (core/moderation.py): two consumers, of messages and   *)
(* of chat actions, share the caches of joins and of message rates; each   *)
(* message is judged by the first enabled rule of its chat that matches,   *)
(* whose actions are then taken one by one and journaled.  The rules are   *)
(* rows that other processes, the moderate-rules commands, write.          *)
(*                                                                         *)
(* Times are in ticks; text conditions are one flag of the message.  The   *)
(* window of a sender holds, with each time, the message it is of.         *)
(***************************************************************************)
EXTENDS Integers, Sequences, FiniteSets

CONSTANTS
    Rules,       \* the rules there may be: name, chat, enabled, suspect, newWithin,
                 \* rate (0: not set), actions
    Edited,      \* bound: those of them that commands add or remove during the run
    Users, Chats,
    Rights,      \* Rights[c]: what the account may do in c: "delete", "ban"
    Enforce,     \* enforce
    Window,      \* RATE_WINDOW_SEC
    Members,     \* member_cache_size, rate_cache_size
    MaxMessages, \* bound: messages in a run
    MaxJoins,    \* bound: joins in a run
    MaxNow       \* bound: the clock

Actions == {"warn", "mute", "ban", "delete"}

ASSUME ModAssumption ==
    /\ Edited \subseteq Rules
    /\ \A r \in Rules : r.actions \subseteq Actions /\ r.rate \in Nat /\ r.newWithin \in Nat

VARIABLES
    now,
    rules,      \* moderation_rules
    engine,     \* blocked: _blocked_chats; loaded, mine: _rules_by_chat; up
    posts,      \* the messages of the run, in the order of their updates
    taken,      \* how many of them the consumer has taken
    joins,      \* the joins not consumed yet
    joinCount,
    joined,     \* _joined, least recent first
    rates,      \* _rate, least recent first
    hand,       \* the message being judged: its rule, the actions left
    done,       \* what was done on Telegram
    journal,    \* moderation_log
    erased,       \* history: rows the process could not write
    fired,      \* history: each message judged against a rule, its time
    seen,       \* history: the messages whose rate was recorded, and when
    welcomed    \* history: the joins recorded, and when

modVars == <<now, rules, engine, posts, taken, joins, joinCount, joined, rates, hand, done,
             journal, erased, fired, seen, welcomed>>

Off == [up |-> FALSE, blocked |-> {}, loaded |-> FALSE, mine |-> {}]
Resting == [stage |-> "idle"]

ModInit ==
    /\ now = 0 /\ rules = Rules /\ engine = Off
    /\ posts = <<>> /\ taken = 0 /\ joins = <<>> /\ joinCount = 0
    /\ joined = <<>> /\ rates = <<>> /\ hand = Resting
    /\ done = {} /\ journal = {} /\ erased = {} /\ fired = {} /\ seen = {} /\ welcomed = {}

-----------------------------------------------------------------------------
(* The world *)

Tick ==
    /\ now < MaxNow
    /\ now' = now + 1
    /\ UNCHANGED <<rules, engine, posts, taken, joins, joinCount, joined, rates, hand, done,
                   journal, erased, fired, seen, welcomed>>

\* add_rule: an upsert by chat and name.
AddRule(r) ==
    /\ r \notin rules
    /\ rules' = {q \in rules : q.chat # r.chat \/ q.name # r.name} \union {r}
    /\ UNCHANGED <<now, engine, posts, taken, joins, joinCount, joined, rates, hand, done,
                   journal, erased, fired, seen, welcomed>>

RemoveRule(r) ==
    /\ r \in rules
    /\ rules' = rules \ {r}
    /\ UNCHANGED <<now, engine, posts, taken, joins, joinCount, joined, rates, hand, done,
                   journal, erased, fired, seen, welcomed>>

Post(chat, user, suspect) ==
    /\ engine.up /\ Len(posts) < MaxMessages
    /\ posts' = Append(posts, [chat |-> chat, from |-> user, suspect |-> suspect])
    /\ UNCHANGED <<now, rules, engine, taken, joins, joinCount, joined, rates, hand, done,
                   journal, erased, fired, seen, welcomed>>

\* A join; other chat actions are passed over by on_chat_action.
Join(chat, user) ==
    /\ engine.up /\ joinCount < MaxJoins
    /\ joins' = Append(joins, <<chat, user>>)
    /\ joinCount' = joinCount + 1
    /\ UNCHANGED <<now, rules, engine, posts, taken, joined, rates, hand, done, journal, erased,
                   fired, seen, welcomed>>

-----------------------------------------------------------------------------
(* Start and stop *)

Needs(chat) ==
    LET asked == UNION {r.actions : r \in {r \in rules : r.chat = chat /\ r.enabled}}
    IN (asked \intersect {"delete", "ban"}) \union (IF "mute" \in asked THEN {"ban"} ELSE {})

\* check_admin_rights and disable_chats: from the rules as they are then.
Start ==
    /\ ~engine.up
    /\ engine' = [Off EXCEPT !.up = TRUE,
                  !.blocked = {r.chat : r \in {r \in rules : ~(Needs(r.chat) \subseteq Rights[r.chat])}}]
    /\ UNCHANGED <<now, rules, posts, taken, joins, joinCount, joined, rates, hand, done,
                   journal, erased, fired, seen, welcomed>>

Row(m, action) == [message |-> m, action |-> action]

\* The process is stopped: its caches and queues are gone.
StopEngine ==
    /\ engine.up
    /\ engine' = Off
    /\ taken' = Len(posts) /\ joins' = <<>> /\ joined' = <<>> /\ rates' = <<>>
    /\ erased' = erased \union (IF hand = Resting THEN {}
                            ELSE {Row(hand.message, a) : a \in hand.todo})
    /\ hand' = Resting
    /\ UNCHANGED <<now, rules, posts, joinCount, done, journal, fired, seen, welcomed>>

-----------------------------------------------------------------------------
(* The bounded caches *)

Has(cache, key) == \E i \in DOMAIN cache : cache[i].key = key
Place(cache, key) == CHOOSE i \in DOMAIN cache : cache[i].key = key

Without(cache, key) ==
    IF Has(cache, key)
    THEN SubSeq(cache, 1, Place(cache, key) - 1)
           \o SubSeq(cache, Place(cache, key) + 1, Len(cache))
    ELSE cache

\* cache with key most recent, bounded: the least recent goes.
Renewed(cache, key, value) ==
    LET all == Append(Without(cache, key), [key |-> key, value |-> value])
    IN IF Len(all) > Members THEN Tail(all) ELSE all

Lookup(cache, key, none) == IF Has(cache, key) THEN cache[Place(cache, key)].value ELSE none

ConsumeJoin ==
    /\ engine.up /\ joins # <<>>
    /\ joins' = Tail(joins)
    /\ joined' = Renewed(joined, Head(joins), now)
    /\ welcomed' = welcomed \union {<<Head(joins), now>>}
    /\ UNCHANGED <<now, rules, engine, posts, taken, joinCount, rates, hand, done, journal,
                   erased, fired, seen>>

Recent(window) == {w \in window : now - w[2] <= Window}

-----------------------------------------------------------------------------
(* process_message *)

\* The engine's rules of a chat; rules are loaded at the first message.
Mine == IF engine.loaded THEN engine.mine ELSE rules
RulesOf(chat) == {r \in Mine : r.chat = chat /\ r.enabled}

\* A mutation of IsNew: whoever is in the cache is new.
FaultOnceNew(key, within) == Lookup(joined, key, -1) # -1

IsNew(key, within) ==
    LET at == Lookup(joined, key, -1) IN at # -1 /\ now - at <= within

\* rule_matches, on what the caches say of the sender.
Matches(rule, m, count) ==
    /\ rule.suspect => m.suspect
    /\ rule.newWithin > 0 => IsNew(<<m.chat, m.from>>, rule.newWithin)
    /\ rule.rate > 0 => count >= rule.rate

\* The first rule that matches wins: rules are listed by name.
TakeMessage ==
    LET n      == taken + 1
        m      == posts[n]
        key    == <<m.chat, m.from>>
        own    == RulesOf(m.chat)
        rated  == \E r \in own : r.rate > 0
        window == Recent(Lookup(rates, key, {}) \union {<<n, now>>})
        hits   == {r \in own : Matches(r, m, Cardinality(window))}
    IN /\ engine.up /\ hand = Resting /\ taken < Len(posts)
       /\ taken' = n
       /\ IF m.chat \in engine.blocked
          THEN UNCHANGED <<engine, rates, hand, fired, seen>>
          ELSE /\ engine' = [engine EXCEPT !.loaded = TRUE, !.mine = Mine]
               /\ rates' = IF rated THEN Renewed(rates, key, window) ELSE rates
               /\ seen' = IF rated THEN seen \union {<<n, now>>} ELSE seen
               /\ \/ hits = {} /\ UNCHANGED <<hand, fired>>
                  \/ \E r \in hits :
                        /\ \A q \in hits : r.name <= q.name
                        /\ fired' = fired \union {[message |-> n, rule |-> r, at |-> now]}
                        /\ hand' = IF r.actions = {} THEN Resting
                                   ELSE [stage |-> "act", message |-> n, todo |-> r.actions]
       /\ UNCHANGED <<now, rules, posts, joins, joinCount, joined, done, journal, erased, welcomed>>

\* The rules cannot be read: logged, the next message.
LoadFails ==
    /\ engine.up /\ hand = Resting /\ taken < Len(posts)
    /\ ~engine.loaded /\ posts[taken + 1].chat \notin engine.blocked
    /\ taken' = taken + 1
    /\ UNCHANGED <<now, rules, engine, posts, joins, joinCount, joined, rates, hand, done,
                   journal, erased, fired, seen, welcomed>>

\* A mutation of AfterFailure: the remaining actions are given up.
FaultAbandons == Resting

AfterFailure == [hand EXCEPT !.stage = "failed"]

\* _apply: the next action, in its order.
Ranks == [warn |-> 1, mute |-> 2, ban |-> 3, delete |-> 4]
NextOf(todo) == CHOOSE a \in todo : \A b \in todo : Ranks[a] <= Ranks[b]

\* _do: the call.  In dry-run there is none.  It fails at Telegram's word, and
\* always where the account lacks the right.
Act ==
    /\ engine.up /\ hand # Resting /\ hand.stage = "act"
    /\ IF ~Enforce THEN hand' = [hand EXCEPT !.stage = "dry"] /\ UNCHANGED done
       ELSE \/ /\ hand' = [hand EXCEPT !.stage = "done"]
               /\ done' = done \union {Row(hand.message, NextOf(hand.todo))}
            \/ /\ hand' = AfterFailure
               /\ UNCHANGED done
    /\ UNCHANGED <<now, rules, engine, posts, taken, joins, joinCount, joined, rates, journal,
                   erased, fired, seen, welcomed>>

\* _journal: a row that cannot be written is only logged.
Journal ==
    /\ engine.up /\ hand # Resting /\ hand.stage \in {"dry", "done", "failed"}
    /\ LET row == Row(hand.message, NextOf(hand.todo)) IN
           \/ journal' = journal \union {row} /\ UNCHANGED erased
           \/ erased' = erased \union {row} /\ UNCHANGED journal
    /\ hand' = LET left == hand.todo \ {NextOf(hand.todo)}
               IN IF left = {} THEN Resting ELSE [hand EXCEPT !.stage = "act", !.todo = left]
    /\ UNCHANGED <<now, rules, engine, posts, taken, joins, joinCount, joined, rates, done,
                   fired, seen, welcomed>>

ModNext ==
    \/ Tick \/ Start \/ StopEngine \/ ConsumeJoin \/ TakeMessage \/ LoadFails \/ Act \/ Journal
    \/ \E r \in Edited : AddRule(r) \/ RemoveRule(r)
    \/ \E c \in Chats, u \in Users :
           \/ Join(c, u)
           \/ \E suspect \in BOOLEAN : Post(c, u, suspect)

ModSpec == ModInit /\ [][ModNext]_modVars

-----------------------------------------------------------------------------
(* Properties *)

\* A rate rule acts only on a sender who was really seen often enough within
\* the window, and a newcomer rule only on one whose join was seen within its
\* limit, whatever the bounded caches forgot (the engine never over-moderates).
FiresTruly ==
    \A f \in fired :
        LET m == posts[f.message] IN
        /\ f.rule.rate > 0 =>
               Cardinality({s \in seen : /\ posts[s[1]].from = m.from
                                         /\ posts[s[1]].chat = m.chat
                                         /\ s[1] <= f.message
                                         /\ f.at - s[2] <= Window}) >= f.rule.rate
        /\ f.rule.newWithin > 0 =>
               \E w \in welcomed : /\ w[1] = <<m.chat, m.from>>
                                   /\ w[2] <= f.at /\ f.at - w[2] <= f.rule.newWithin

\* "The audit trail stays complete": every action of every rule that fired is
\* journaled, done or failed, unless its row could not be written or is still
\* to come; and nothing is done that no rule asked for.
AuditIsComplete ==
    /\ \A f \in fired : \A a \in f.rule.actions :
           \/ Row(f.message, a) \in journal \union erased
           \/ /\ hand # Resting /\ hand.message = f.message
              /\ a \in hand.todo
    /\ \A d \in done : \E f \in fired :
           f.message = d.message /\ d.action \in f.rule.actions
=============================================================================
