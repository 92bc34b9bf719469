----------------------------- MODULE Heartbeat -----------------------------
(***************************************************************************)
(* HeartbeatService (core/heartbeat.py): one process goes through the      *)
(* stored plans once per tick and pings the peers that are due, while the  *)
(* plan commands, other processes, write the same table.  A tick reads the *)
(* plans once and the clock once; each plan then takes four awaits: the    *)
(* dialog's last message, a text, the record, the send.                    *)
(*                                                                         *)
(* Times are whole numbers of hours.  Texts are left out.                  *)
(***************************************************************************)
EXTENDS Integers, Sequences, FiniteSets

CONSTANTS
    Contacts,
    Interval,              \* interval_hours
    MaxJitter,             \* jitter_minutes
    Day,                   \* DAY_SEC
    MaxPerDay,             \* max_per_day
    QuietStart, QuietEnd,  \* quiet_start, quiet_end
    MaxTime                \* bound: hours in a run

\* HeartbeatPlan's validators
ASSUME PlanAssumption ==
    /\ Interval \in Nat \ {0}
    /\ MaxJitter \in Nat
    /\ MaxPerDay \in Nat \ {0}

Never == -1
Time == 0..MaxTime

VARIABLES
    clock,
    stored,      \* the peers that have a row in heartbeat_plans
    row,         \* row[p]: last_ping_at, pings_today, day_start, next_jitter_sec
    tick,        \* the tick under way: its time, the plans it read, those left,
                 \* and the plan in hand
    ours,        \* the peers whose dialog ends with a message of ours
    pings,       \* history: per peer, the times of the ticks whose pings landed
                 \* since the plan was stored
    unanswered,  \* history: pings landed since the peer last wrote
    late         \* history: pings landed since the plan was removed, Never while
                 \* the owner wants it

beatVars == <<clock, stored, row, tick, ours, pings, unanswered, late>>

Fresh == [last |-> Never, today |-> 0, since |-> Never, jitter |-> 0]
Asleep == [at |-> "sleep", time |-> 0, read |-> [p \in {} |-> Fresh], left |-> {},
           peer |-> 0, superseded |-> FALSE]

BeatInit ==
    /\ clock = 0
    /\ stored = {}
    /\ row = [p \in Contacts |-> Fresh]
    /\ tick = Asleep
    /\ ours = {}
    /\ pings = [p \in Contacts |-> <<>>]
    /\ unanswered = [p \in Contacts |-> 0]
    /\ late = [p \in Contacts |-> 0]

-----------------------------------------------------------------------------
(* Whether a plan is due: pure *)

InQuietWindow(hour) ==
    IF QuietStart <= QuietEnd
    THEN QuietStart <= hour /\ hour < QuietEnd
    ELSE QuietStart <= hour \/ hour < QuietEnd

\* The daily counter of plan still runs at time t.
SameDay(plan, t) == plan.since # Never /\ t - plan.since < Day

\* A mutation of IsDue: a plan's counter outlives its day, and its interval is
\* measured without it.
FaultDayOnly(plan, t) == SameDay(plan, t) => plan.today < MaxPerDay

IsDue(plan, t) ==
    /\ ~InQuietWindow(t % Day)
    /\ SameDay(plan, t) => plan.today < MaxPerDay
    /\ plan.last # Never => t >= plan.last + Interval + plan.jitter

\* The row _record_ping writes, from the plan as the tick read it.
Recorded(plan, t, jitter) ==
    IF SameDay(plan, t)
    THEN [plan EXCEPT !.last = t, !.today = @ + 1, !.jitter = jitter]
    ELSE [last |-> t, today |-> 1, since |-> t, jitter |-> jitter]

-----------------------------------------------------------------------------
(* The clock, the peers, the owner, the commands *)

Advance ==
    /\ clock < MaxTime
    /\ clock' = clock + 1
    /\ UNCHANGED <<stored, row, tick, ours, pings, unanswered, late>>

PeerWrites(p) ==
    /\ ours' = ours \ {p}
    /\ unanswered' = [unanswered EXCEPT ![p] = 0]
    /\ UNCHANGED <<clock, stored, row, tick, pings, late>>

\* The owner writes to p from anywhere.
OwnerWrites(p) ==
    /\ ours' = ours \union {p}
    /\ UNCHANGED <<clock, stored, row, tick, pings, unanswered, late>>

\* add_plan: an upsert of every column.  A ping under way was recorded in the
\* row it replaces.
AddPlan(p) ==
    /\ stored' = stored \union {p}
    /\ row' = [row EXCEPT ![p] = Fresh]
    /\ pings' = [pings EXCEPT ![p] = <<>>]
    /\ late' = [late EXCEPT ![p] = Never]
    /\ tick' = IF tick.at = "send" /\ tick.peer = p
               THEN [tick EXCEPT !.superseded = TRUE] ELSE tick
    /\ UNCHANGED <<clock, ours, unanswered>>

RemovePlan(p) ==
    /\ p \in stored
    /\ stored' = stored \ {p}
    /\ late' = [late EXCEPT ![p] = 0]
    /\ UNCHANGED <<clock, row, tick, ours, pings, unanswered>>

-----------------------------------------------------------------------------
(* process_plans, _maybe_ping *)

\* The plans left, without the one in hand.
OnToNext == tick' = [tick EXCEPT !.at = "next", !.left = @ \ {tick.peer},
                                 !.peer = 0, !.superseded = FALSE]

ReadPlans ==
    /\ tick.at = "sleep"
    /\ tick' = [Asleep EXCEPT !.at = "next", !.time = clock, !.left = stored,
                              !.read = [p \in stored |-> row[p]]]
    /\ UNCHANGED <<clock, stored, row, ours, pings, unanswered, late>>

\* A plan that is not due is passed over at once.
TakePlan(p) ==
    /\ tick.at = "next" /\ p \in tick.left
    /\ \A q \in tick.left : p <= q
    /\ tick' = IF IsDue(tick.read[p], tick.time)
               THEN [tick EXCEPT !.at = "tail", !.peer = p]
               ELSE [tick EXCEPT !.left = @ \ {p}]
    /\ UNCHANGED <<clock, stored, row, ours, pings, unanswered, late>>

TickEnds ==
    /\ tick.at = "next" /\ tick.left = {}
    /\ tick' = Asleep
    /\ UNCHANGED <<clock, stored, row, ours, pings, unanswered, late>>

\* A mutation of Nags: only the owner's answer to a plan never pinged counts.
FaultFirstOnly(p) == p \in ours /\ tick.read[p].last = Never

\* _last_is_ours
Nags(p) == p \in ours

CheckTail ==
    /\ tick.at = "tail"
    /\ IF Nags(tick.peer) THEN OnToNext ELSE tick' = [tick EXCEPT !.at = "text"]
    /\ UNCHANGED <<clock, stored, row, ours, pings, unanswered, late>>

\* A mutation of Records: the record is an upsert, as add_plan's.
FaultUpserts(p) ==
    /\ stored' = stored \union {p}
    /\ \E j \in 0..MaxJitter :
           row' = [row EXCEPT ![p] = Recorded(tick.read[p], tick.time, j)]

\* UPDATE ... WHERE peer = ?
Records(p) ==
    /\ \E j \in 0..MaxJitter :
           row' = IF p \in stored
                  THEN [row EXCEPT ![p] = Recorded(tick.read[p], tick.time, j)] ELSE row
    /\ UNCHANGED stored

\* There is a text, the provider's or a template: the ping is recorded.
Record ==
    /\ tick.at = "text"
    /\ Records(tick.peer)
    /\ tick' = [tick EXCEPT !.at = "send"]
    /\ UNCHANGED <<clock, ours, pings, unanswered, late>>

\* The ping reaches the peer.
SendPing ==
    LET p == tick.peer IN
    /\ tick.at = "send"
    /\ ours' = ours \union {p}
    /\ pings' = IF tick.superseded THEN pings ELSE [pings EXCEPT ![p] = Append(@, tick.time)]
    /\ unanswered' = [unanswered EXCEPT ![p] = @ + 1]
    /\ late' = IF late[p] = Never THEN late ELSE [late EXCEPT ![p] = @ + 1]
    /\ OnToNext
    /\ UNCHANGED <<clock, stored, row>>

\* A statement or a request raises: the next plan.
PlanFails ==
    /\ tick.at \in {"tail", "text", "send"}
    /\ OnToNext
    /\ UNCHANGED <<clock, stored, row, ours, pings, unanswered, late>>

\* The process is stopped, and another one started: only the table is left.
StopsAndStarts ==
    /\ tick.at # "sleep"
    /\ tick' = Asleep
    /\ UNCHANGED <<clock, stored, row, ours, pings, unanswered, late>>

BeatNext ==
    \/ Advance
    \/ \E p \in Contacts : \/ PeerWrites(p) \/ OwnerWrites(p)
                        \/ AddPlan(p) \/ RemovePlan(p) \/ TakePlan(p)
    \/ ReadPlans \/ TickEnds \/ CheckTail \/ Record \/ SendPing
    \/ PlanFails \/ StopsAndStarts

BeatSpec == BeatInit /\ [][BeatNext]_beatVars

-----------------------------------------------------------------------------
(* Properties *)

\* Type invariant of the table and of the tick.
BeatTypeOK ==
    /\ clock \in Nat
    /\ stored \subseteq Contacts
    /\ row \in [Contacts -> [last : Int, today : Nat, since : Int, jitter : Nat]]
    /\ tick.at \in {"sleep", "next", "tail", "text", "send"}
    /\ tick.time \in Nat /\ tick.left \subseteq DOMAIN tick.read
    /\ tick.at \in {"tail", "text", "send"} => tick.peer \in tick.left
    /\ ours \subseteq Contacts
    /\ pings \in [Contacts -> Seq(Nat)]

\* Safety 1 of the module's docstring, "never ping more often than scheduled":
\* between two pings of a plan lies its interval, whatever ticks are
\* interrupted, whatever sends fail and whatever the commands do meanwhile.
PingsAreSpaced ==
    \A p \in Contacts : \A i, j \in DOMAIN pings[p] :
        i < j => pings[p][j] - pings[p][i] >= Interval

\* Safety 3: no more than max_per_day pings of a plan since its day began.
PingsAreCapped ==
    \A p \in stored :
        Cardinality({i \in DOMAIN pings[p] : pings[p][i] >= row[p].since}) <= MaxPerDay

\* Safety 4: a peer that has not answered a ping gets no other, also when the
\* plan is removed, stored again or replaced in between.
OneUnansweredPing == \A p \in Contacts : unanswered[p] <= 1

\* Safety 1 and 3 of heartbeat.py's docstring.
PingsKeepThePlan == PingsAreSpaced /\ PingsAreCapped

\* A removed plan is not brought back by the tick that had read it: one ping at
\* most still comes, the one under way.
RemovedPlanIsSilent == \A p \in Contacts : late[p] <= 1
=============================================================================
