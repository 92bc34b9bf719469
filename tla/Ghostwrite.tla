----------------------------- MODULE Ghostwrite -----------------------------
(***************************************************************************)
(* GhostwriteEngine (agent/ghostwrite.py): auto-replies in dialogs enabled *)
(* by hand, and silence in a dialog once its owner writes there.  Two      *)
(* consumers share the engine: one drafts and sends replies, one watches   *)
(* the outgoing stream, which carries the owner's messages from any device *)
(* and the echoes of the engine's own, in any order and before or after    *)
(* send_text returns.  The commands that enable, pause and resume dialogs  *)
(* are other processes writing the same table.                             *)
(*                                                                         *)
(* A database read and what is done with it are two steps.  An outgoing    *)
(* message is its number in mail.  The caches of enabled dialogs and of    *)
(* own ids are taken to be large enough: the first only saves a query, the *)
(* second holds own_cache_size ids.  Dry runs send nothing and are left    *)
(* out.                                                                    *)
(***************************************************************************)
EXTENDS Naturals, Sequences, FiniteSets, SequencesExt

CONSTANTS
    Dialogs,
    Nobody,
    MaxPerHour,   \* max_per_hour
    QueueMax,     \* maxsize of the outgoing bus's queue
    MaxMessages   \* bound: outgoing messages in a run

ASSUME GhostAssumption ==
    /\ Nobody \notin Dialogs
    /\ MaxPerHour \in Nat \ {0} /\ QueueMax \in Nat \ {0} /\ MaxMessages \in Nat

VARIABLES
    enabled,   \* ghostwrite_dialogs: the rows with enabled = 1
    paused,    \* and their paused_until: "no" (NULL or past), "day", "forever"
    mail,      \* outgoing messages as Telegram numbers them: [dialog, by]
    coming,    \* those whose event has not reached the client
    outq,      \* the outgoing consumer's queue
    slots,     \* slots[d]: replies attempted in the last hour
    own,       \* _own_sent
    eng,       \* the incoming consumer; while it sends, events is _sending[dialog]
    judge,     \* per consumer, the event _pause_for_human_outgoing is at
    known,     \* history: engine messages whose send_text has returned
    unheeded,  \* history: the owner's messages the engine has heard of, in
               \* dialogs that have been active ever since
    late       \* history: replies that landed since the dialog fell silent

table == <<enabled, paused>>
engine == <<slots, own, eng, judge>>
ghostVars == <<enabled, paused, mail, coming, outq, slots, own, eng, judge,
          known, unheeded, late>>

Idle == [at |-> "idle", dialog |-> Nobody, id |-> 0, events |-> <<>>]
NoJudge == [at |-> "none", event |-> 0]

GhostInit ==
    /\ enabled = {}
    /\ paused = [d \in Dialogs |-> "no"]
    /\ mail = <<>> /\ coming = {} /\ outq = <<>>
    /\ slots = [d \in Dialogs |-> 0]
    /\ own = {}
    /\ eng = Idle
    /\ judge = [h \in {"in", "out"} |-> NoJudge]
    /\ known = {} /\ unheeded = {}
    /\ late = [d \in Dialogs |-> 0]

\* A mutation of Active: the pause is not looked at.
FaultEnabledOnly(d) == d \in enabled

\* is_active
Active(d) == d \in enabled /\ paused[d] = "no"

Silent(d) == d \notin enabled \/ paused[d] # "no"

\* Of the owner's messages S, those whose dialogs are still not silent.
Heeds(S) == unheeded' = {e \in S : \E d \in enabled' :
                                  mail[e].dialog = d /\ paused'[d] = "no"}

-----------------------------------------------------------------------------
(* The commands, the clock, Telegram and the owner *)

Enable(d) ==
    /\ enabled' = enabled \union {d}
    /\ paused' = [paused EXCEPT ![d] = "no"]
    /\ late' = [late EXCEPT ![d] = 0]
    /\ UNCHANGED <<mail, coming, outq, engine, known>>
    /\ Heeds(unheeded)

Disable(d) ==
    /\ enabled' = enabled \ {d}
    /\ UNCHANGED <<paused, mail, coming, outq, engine, known, late>>
    /\ Heeds(unheeded)

PauseAll ==
    /\ paused' = [d \in Dialogs |-> IF d \in enabled THEN "forever" ELSE paused[d]]
    /\ UNCHANGED <<enabled, mail, coming, outq, engine, known, late>>
    /\ Heeds(unheeded)

\* resume_dialog; or a day has passed since the pause.
Resume(d) ==
    /\ paused[d] # "no"
    /\ paused' = [paused EXCEPT ![d] = "no"]
    /\ late' = [late EXCEPT ![d] = 0]
    /\ UNCHANGED <<enabled, mail, coming, outq, engine, known>>
    /\ Heeds(unheeded)

\* An hour has passed since the oldest attempt, or dialogs beyond
\* max_rate_dialogs have pushed the window of d out, attempt by attempt.
Hour(d) ==
    /\ slots[d] > 0
    /\ slots' = [slots EXCEPT ![d] = @ - 1]
    /\ UNCHANGED <<table, mail, coming, outq, own, eng, judge, known, unheeded, late>>

Posts(d, by) ==
    /\ Len(mail) < MaxMessages
    /\ mail' = Append(mail, [dialog |-> d, by |-> by])
    /\ coming' = coming \union {Len(mail) + 1}

\* The owner writes in d from any device.
OwnerWrites(d) ==
    /\ Posts(d, "owner")
    /\ UNCHANGED <<table, outq, engine, known, unheeded, late>>

\* An event reaches the client and the bus, whose full queue drops its oldest.
Deliver(e) ==
    LET kept == IF Len(outq) = QueueMax THEN Tail(outq) ELSE outq IN
    /\ e \in coming
    /\ coming' = coming \ {e}
    /\ outq' = Append(kept, e)
    /\ UNCHANGED <<table, mail, engine, known, late>>
    /\ Heeds((unheeded \union {m \in {e} : mail[m].by = "owner"})
                \ (ToSet(outq) \ ToSet(kept)))

-----------------------------------------------------------------------------
(* process_incoming *)

\* _over_rate_limit
UnderLimit(d) == slots[d] < MaxPerHour

\* An incoming message in an active dialog with a slot left: the suggester
\* is asked.
Take(d) ==
    /\ eng.at = "idle"
    /\ Active(d)
    /\ UnderLimit(d)
    /\ slots' = [slots EXCEPT ![d] = @ + 1]
    /\ eng' = [Idle EXCEPT !.at = "drafting", !.dialog = d]
    /\ UNCHANGED <<table, mail, coming, outq, own, judge, known, unheeded, late>>

\* It fails, or has nothing to say.
NoDraft ==
    /\ eng.at = "drafting"
    /\ eng' = Idle
    /\ UNCHANGED <<table, mail, coming, outq, slots, own, judge, known, unheeded, late>>

\* _dispatch asks again whether the dialog is active ...
Check ==
    /\ eng.at = "drafting"
    /\ eng' = IF Active(eng.dialog) THEN [eng EXCEPT !.at = "cleared"] ELSE Idle
    /\ UNCHANGED <<table, mail, coming, outq, slots, own, judge, known, unheeded, late>>

\* ... and calls send_text.
Begin ==
    /\ eng.at = "cleared"
    /\ eng' = [eng EXCEPT !.at = "sending"]
    /\ UNCHANGED <<table, mail, coming, outq, slots, own, judge, known, unheeded, late>>

\* The reply reaches Telegram.
Land ==
    /\ eng.at = "sending" /\ eng.id = 0
    /\ Posts(eng.dialog, "engine")
    /\ eng' = [eng EXCEPT !.id = Len(mail) + 1]
    /\ late' = IF Silent(eng.dialog) THEN [late EXCEPT ![eng.dialog] = @ + 1] ELSE late
    /\ UNCHANGED <<table, outq, slots, own, judge, known, unheeded>>

\* send_text returns the id: the events put off meanwhile can be told apart.
ReplyReturns ==
    /\ eng.at = "sending" /\ eng.id # 0
    /\ own' = own \union {eng.id}
    /\ known' = known \union {eng.id}
    /\ eng' = [eng EXCEPT !.at = "deferred"]
    /\ UNCHANGED <<table, mail, coming, outq, slots, judge, unheeded, late>>

\* A mutation of AfterFailure: a failed send forgets what came meanwhile.
FaultForgets(x) == Idle

\* send_text raised: no id can be trusted, and the events are the owner's.
AfterFailure(x) == [x EXCEPT !.at = "deferred", !.id = 0]

\* It raises, whether or not the reply landed.
SendRaises ==
    /\ eng.at = "sending"
    /\ eng' = AfterFailure(eng)
    /\ UNCHANGED <<table, mail, coming, outq, slots, own, judge, known, unheeded, late>>

\* _handle_deferred_outgoing: one event after the other, its own id skipped.
NextDeferred ==
    /\ eng.at = "deferred" /\ judge["in"].at = "none"
    /\ IF eng.events = <<>>
       THEN eng' = Idle /\ UNCHANGED judge
       ELSE /\ eng' = [eng EXCEPT !.events = Tail(@)]
            /\ judge' = IF Head(eng.events) = eng.id THEN judge
                        ELSE [judge EXCEPT !["in"] = [at |-> "look",
                                                      event |-> Head(eng.events)]]
    /\ UNCHANGED <<table, mail, coming, outq, slots, own, known, unheeded, late>>

-----------------------------------------------------------------------------
(* on_outgoing, and _pause_for_human_outgoing in either consumer *)

\* A mutation of PutOff: an event is judged at once, reply under way or not.
FaultJudgesAtOnce(d) == FALSE

\* dialog d is in _sending.
PutOff(d) == eng.at = "sending" /\ eng.dialog = d

Hear ==
    LET e == Head(outq) IN
    /\ outq # <<>> /\ judge["out"].at = "none"
    /\ outq' = Tail(outq)
    /\ IF PutOff(mail[e].dialog)
       THEN eng' = [eng EXCEPT !.events = Append(@, e)] /\ UNCHANGED <<own, judge>>
       ELSE /\ own' = own \ {e}
            /\ judge' = IF e \in own THEN judge
                        ELSE [judge EXCEPT !["out"] = [at |-> "look", event |-> e]]
            /\ UNCHANGED eng
    /\ UNCHANGED <<table, mail, coming, slots, known, unheeded, late>>

\* An active dialog is to be paused, one already silent is left alone ...
Look(h) ==
    /\ judge[h].at = "look"
    /\ judge' = [judge EXCEPT ![h] = IF Active(mail[judge[h].event].dialog)
                                     THEN [@ EXCEPT !.at = "pause"] ELSE NoJudge]
    /\ UNCHANGED <<table, mail, coming, outq, slots, own, eng, known, unheeded, late>>

\* ... and the UPDATE follows.
Pause(h) ==
    /\ judge[h].at = "pause"
    /\ paused' = [paused EXCEPT ![mail[judge[h].event].dialog] = "day"]
    /\ judge' = [judge EXCEPT ![h] = NoJudge]
    /\ UNCHANGED <<enabled, mail, coming, outq, slots, own, eng, known, late>>
    /\ Heeds(unheeded)

\* A statement raises: the error is logged and the event lost.
Fails(h) ==
    /\ judge[h].at # "none"
    /\ judge' = [judge EXCEPT ![h] = NoJudge]
    /\ UNCHANGED <<table, mail, coming, outq, slots, own, eng, known, late>>
    /\ Heeds(unheeded \ {judge[h].event})

\* The engine is stopped and started again: everything in memory is gone,
\* and events sent meanwhile are not repeated.
Restart ==
    /\ coming' = {} /\ outq' = <<>>
    /\ slots' = [d \in Dialogs |-> 0]
    /\ own' = {}
    /\ eng' = Idle
    /\ judge' = [h \in {"in", "out"} |-> NoJudge]
    /\ unheeded' = {}
    /\ UNCHANGED <<table, mail, known, late>>

GhostNext ==
    \/ \E d \in Dialogs : \/ Enable(d) \/ Disable(d) \/ Resume(d) \/ Hour(d)
                          \/ OwnerWrites(d) \/ Take(d)
    \/ PauseAll
    \/ \E e \in coming : Deliver(e)
    \/ NoDraft \/ Check \/ Begin \/ Land \/ ReplyReturns \/ SendRaises
    \/ NextDeferred \/ Hear
    \/ \E h \in {"in", "out"} : Look(h) \/ Pause(h) \/ Fails(h)
    \/ Restart

\* The consumers go on, a statement ends one way or the other, and so does a
\* send: nothing is assumed of drafts, events, commands or restarts.
GhostFairness ==
    /\ WF_ghostVars(Hear)
    /\ WF_ghostVars(NextDeferred)
    /\ WF_ghostVars(ReplyReturns \/ SendRaises)
    /\ \A h \in {"in", "out"} : WF_ghostVars(Look(h)) /\ WF_ghostVars(Pause(h))

GhostSpec == GhostInit /\ [][GhostNext]_ghostVars
GhostFairSpec == GhostSpec /\ GhostFairness

-----------------------------------------------------------------------------
(* Properties *)

\* The owner's messages the engine still has in hand.
Held == ToSet(outq)
    \union (IF eng.at \in {"sending", "deferred"} THEN ToSet(eng.events) ELSE {})
    \union {judge[h].event : h \in {"in", "out"}}

\* Type invariant of the table, the queue and the two consumers.
GhostTypeOK ==
    /\ enabled \subseteq Dialogs
    /\ paused \in [Dialogs -> {"no", "day", "forever"}]
    /\ mail \in Seq([dialog : Dialogs, by : {"owner", "engine"}])
    /\ coming \subseteq DOMAIN mail
    /\ outq \in Seq(DOMAIN mail) /\ Len(outq) <= QueueMax
    /\ slots \in [Dialogs -> 0..MaxPerHour]
    /\ own \subseteq known /\ known \subseteq DOMAIN mail
    /\ eng.at \in {"idle", "drafting", "cleared", "sending", "deferred"}
    /\ eng.at # "idle" => eng.dialog \in Dialogs
    /\ eng.id \in {0} \union DOMAIN mail
    /\ eng.events \in Seq(DOMAIN mail)
    /\ \A h \in {"in", "out"} :
          /\ judge[h].at \in {"none", "look", "pause"}
          /\ judge[h].at # "none" => judge[h].event \in DOMAIN mail
    /\ unheeded \subseteq DOMAIN mail
    /\ late \in [Dialogs -> Nat]

\* A consumer is judging, as the owner's, a reply of the engine's own whose
\* send_text has returned.
Mistaken(h) == judge[h].at # "none" /\ judge[h].event \in known

\* A reply is never taken for the owner's message because its echo came before
\* send_text returned (_sending) or after (_own_sent).  What remains is the
\* echo of an earlier reply, put off while a later one was being sent.
EchoIsNotTheOwner ==
    /\ ~Mistaken("out")
    /\ Mistaken("in") => judge["in"].event # eng.id

\* ghostwrite.py:313-314: the engine's own sends "are matched against the
\* bounded own-id cache (DeletionWatcher pattern) and must NOT trigger a pause".
OwnSendsNeverPause == ~Mistaken("out") /\ ~Mistaken("in")

\* An owner's message the engine has heard of is not forgotten before its
\* dialog has been silent: not while a reply is under way, and not when that
\* reply fails ("treated as human intervention").
OwnerIsHeeded == unheeded \subseteq Held

\* The dialog does fall silent.
OwnerSilencesEngine ==
    \A e \in 1..MaxMessages : (e \in unheeded) ~> (e \notin unheeded)

\* Once a dialog is silent (paused by its owner's message, by pause-all or
\* disabled), one reply at most still lands there: the one under way.
OneReplyAfterPause == \A d \in Dialogs : late[d] <= 1

\* ghostwrite.py:348 "do not shorten an existing pause": a pause for ever does
\* not become one of a day.
PausesAreNotShortened ==
    [][\A d \in Dialogs : paused[d] = "forever" => paused'[d] # "day"]_ghostVars
=============================================================================
