--------------------------- MODULE EnginesProofs ----------------------------
(***************************************************************************)
(* Proofs about the two engines that keep their state in tables, for any   *)
(* contacts, plans, rules and bounds.                                      *)
(*                                                                         *)
(* Heartbeat: pings keep the interval and the daily limit of their plan,   *)
(* no ping follows an unanswered one, and a removed plan sends one ping at *)
(* most.  They rest on what a tick still knows when it resumes: the pings  *)
(* landed since it read a plan are none, or those of a plan that was       *)
(* stored anew.                                                            *)
(*                                                                         *)
(* Moderation: rules fire only on what the caches truly saw, and every     *)
(* action of a rule that fired is journaled.  They rest on the caches      *)
(* holding nothing that was not seen, and on the message in hand being one *)
(* a rule fired on.                                                        *)
(***************************************************************************)
EXTENDS Heartbeat, Moderation, FiniteSetTheorems, TLAPS

Busy == {"tail", "text", "send"}
Plan == [last : Nat \union {Never}, today : Nat, since : Nat \union {Never}, jitter : Nat]

-----------------------------------------------------------------------------
(* The invariant *)

TablesOK ==
    /\ clock \in Nat
    /\ stored \in SUBSET Contacts
    /\ row \in [Contacts -> Plan]
    /\ pings \in [Contacts -> Seq(Nat)]
    /\ unanswered \in [Contacts -> Nat]
    /\ late \in [Contacts -> {Never, 0, 1}]

TickOK ==
    /\ tick = [at |-> tick.at, time |-> tick.time, read |-> tick.read, left |-> tick.left,
               peer |-> tick.peer, superseded |-> tick.superseded]
    /\ tick.at \in {"sleep", "next"} \union Busy
    /\ tick.time \in Nat
    /\ tick.left \in SUBSET Contacts
    /\ \A p \in tick.left : tick.read[p] \in Plan
    /\ tick.superseded \in BOOLEAN
    /\ tick.at = "sleep" => tick.left = {}
    /\ tick.at \in Busy => /\ tick.peer \in tick.left
                           /\ IsDue(tick.read[tick.peer], tick.time)

\* Who has not answered is who we wrote last to, and the ping in hand is not
\* for one of them.
UnansweredOK ==
    /\ \A p \in Contacts : unanswered[p] <= 1
    /\ \A p \in Contacts : unanswered[p] = 1 => p \in ours
    /\ tick.at \in {"text", "send"} => unanswered[tick.peer] = 0

\* The row of a removed plan is gone, and its one late ping was the tick's last.
RemovedOK ==
    /\ \A p \in Contacts : late[p] = Never <=> p \in stored
    /\ \A p \in tick.left : late[p] # 1

\* The pings are no later than t.
UpTo(s, t) == \A i \in DOMAIN s : s[i] <= t

\* The ping that is recorded in the row of p and did not land yet.
OnItsWay(p) == tick.at = "send" /\ tick.peer = p /\ ~tick.superseded

\* Interval: the last ping is the one recorded, in the row and as the tick read it.
SpacesOK ==
    /\ PingsAreSpaced
    /\ \A p \in stored : UpTo(pings[p], row[p].last)
    /\ \A p \in tick.left : UpTo(pings[p], tick.read[p].last)
    /\ \A p \in stored : OnItsWay(p) => row[p].last = tick.time

\* The pings not before t.
Since(s, t) == {i \in DOMAIN s : s[i] >= t}

\* Daily limit: the counter is not less than the pings of its day, in the row and
\* as the tick read it, the one on its way included.
CountsOK ==
    /\ \A p \in stored : row[p].today <= MaxPerDay
    /\ \A p \in stored : Cardinality(Since(pings[p], row[p].since)) <= row[p].today
    /\ \A p \in stored :
           OnItsWay(p) => Cardinality(Since(pings[p], row[p].since)) + 1 <= row[p].today
    /\ \A p \in tick.left : Cardinality(Since(pings[p], tick.read[p].since)) <= tick.read[p].today

BeatInv == TablesOK /\ TickOK /\ UnansweredOK /\ RemovedOK /\ SpacesOK /\ CountsOK

-----------------------------------------------------------------------------
(* Steps of the tick *)

LEMMA ToNext ==
    ASSUME TickOK, OnToNext
    PROVE  /\ TickOK'
           /\ tick'.at = "next" /\ tick'.left = tick.left \ {tick.peer}
           /\ tick'.read = tick.read /\ tick'.time = tick.time
  <1>1. tick' = [at |-> "next", time |-> tick.time, read |-> tick.read,
                 left |-> tick.left \ {tick.peer}, peer |-> 0, superseded |-> FALSE]
    BY DEF TickOK, OnToNext
  <1>2. /\ tick'.at = "next" /\ tick'.left = tick.left \ {tick.peer}
        /\ tick'.read = tick.read /\ tick'.time = tick.time
        /\ tick'.peer = 0 /\ tick'.superseded = FALSE
    BY <1>1
  <1> QED BY <1>1, <1>2 DEF TickOK, Busy

LEMMA ToSleep ==
    ASSUME tick' = Asleep
    PROVE  TickOK' /\ tick'.at = "sleep" /\ tick'.left = {}
  BY DEF TickOK, Asleep, Busy

\* A step that leaves the plans and their pings alone, and drops plans from the
\* tick or none, keeps what the tick knows.
LEMMA TickMovesOn ==
    ASSUME SpacesOK, CountsOK, UNCHANGED <<stored, row, pings>>,
           tick'.left \subseteq tick.left, tick'.read = tick.read \/ tick'.left = {},
           tick'.at = "send" => tick' = tick
    PROVE  SpacesOK' /\ CountsOK'
  <1>1. \A p \in tick'.left : tick'.read[p] = tick.read[p] /\ p \in tick.left
    OBVIOUS
  <1>2. \A p : OnItsWay(p)' => OnItsWay(p) /\ tick'.time = tick.time
    BY DEF OnItsWay
  <1>3. SpacesOK'
    BY <1>1, <1>2 DEF SpacesOK, PingsAreSpaced
  <1>4. CountsOK'
    BY <1>1, <1>2 DEF CountsOK
  <1> QED BY <1>3, <1>4

\* What a plan that is due allows.
LEMMA DueAllows ==
    ASSUME NEW plan \in Plan, NEW t \in Nat, IsDue(plan, t)
    PROVE  /\ plan.last # Never => t >= plan.last + Interval
           /\ SameDay(plan, t) => plan.today < MaxPerDay
           /\ plan.last <= t
  BY PlanAssumption DEF IsDue, Plan, Never

\* The row that a record writes.
LEMMA RecordedRow ==
    ASSUME NEW plan \in Plan, NEW t \in Nat, NEW j \in 0..MaxJitter
    PROVE  /\ Recorded(plan, t, j) \in Plan
           /\ Recorded(plan, t, j).last = t
           /\ SameDay(plan, t) => /\ Recorded(plan, t, j).since = plan.since
                                  /\ Recorded(plan, t, j).today = plan.today + 1
           /\ ~SameDay(plan, t) => /\ Recorded(plan, t, j).since = t
                                   /\ Recorded(plan, t, j).today = 1
  <1>1. CASE SameDay(plan, t)
    <2>1. plan = [last |-> plan.last, today |-> plan.today, since |-> plan.since,
                  jitter |-> plan.jitter]
      BY DEF Plan
    <2>2. Recorded(plan, t, j) = [last |-> t, today |-> plan.today + 1, since |-> plan.since,
                                  jitter |-> j]
      BY <1>1, <2>1 DEF Recorded
    <2>3. plan.today + 1 \in Nat /\ plan.since \in Nat \union {Never} /\ j \in Nat
      BY PlanAssumption DEF Plan
    <2> QED BY <1>1, <2>2, <2>3 DEF Plan
  <1>2. CASE ~SameDay(plan, t)
    <2>1. Recorded(plan, t, j) = [last |-> t, today |-> 1, since |-> t, jitter |-> j]
      BY <1>2 DEF Recorded
    <2>2. j \in Nat
      BY PlanAssumption
    <2> QED BY <1>2, <2>1, <2>2 DEF Plan
  <1> QED BY <1>1, <1>2

LEMMA SinceIsFinite ==
    ASSUME NEW s \in Seq(Nat), NEW t
    PROVE  IsFiniteSet(Since(s, t)) /\ Cardinality(Since(s, t)) \in Nat
  <1>1. DOMAIN s = 1..Len(s) /\ Len(s) \in Nat
    OBVIOUS
  <1>2. IsFiniteSet(1..Len(s))
    BY <1>1, FS_Interval
  <1>3. Since(s, t) \subseteq 1..Len(s)
    BY <1>1 DEF Since
  <1>4. IsFiniteSet(Since(s, t))
    BY <1>2, <1>3, FS_Subset
  <1> QED BY <1>4, FS_CardinalityType

\* A ping that lands adds one to those of its day, at most.
LEMMA OneMoreLands ==
    ASSUME NEW s \in Seq(Nat), NEW t, NEW u \in Nat
    PROVE  /\ Cardinality(Since(Append(s, u), t)) \in Nat
           /\ Cardinality(Since(Append(s, u), t)) <= Cardinality(Since(s, t)) + 1
  <1> DEFINE r == Append(s, u)
             new == Len(s) + 1
  <1>1. /\ Len(s) \in Nat /\ DOMAIN s = 1..Len(s) /\ DOMAIN r = 1..new
        /\ \A i \in 1..Len(s) : r[i] = s[i]
    OBVIOUS
  <1>2. Since(r, t) \subseteq Since(s, t) \union {new}
    <2> SUFFICES ASSUME NEW i \in DOMAIN r, r[i] >= t, i # new
                 PROVE  i \in Since(s, t)
      BY DEF Since
    <2>1. i \in 1..Len(s)
      BY <1>1
    <2> QED BY <1>1, <2>1 DEF Since
  <1>3. IsFiniteSet(Since(s, t)) /\ Cardinality(Since(s, t)) \in Nat
    BY SinceIsFinite
  <1> HIDE DEF new, r
  <1>4. /\ IsFiniteSet(Since(s, t) \union {new})
        /\ Cardinality(Since(s, t) \union {new}) <= Cardinality(Since(s, t)) + 1
        /\ Cardinality(Since(s, t) \union {new}) \in Nat
    <2>1. /\ IsFiniteSet(Since(s, t) \union {new})
          /\ Cardinality(Since(s, t) \union {new}) \in {Cardinality(Since(s, t)),
                                                        Cardinality(Since(s, t)) + 1}
      BY <1>3, FS_AddElement
    <2> QED BY <1>3, <2>1
  <1>5. /\ IsFiniteSet(Since(r, t))
        /\ Cardinality(Since(r, t)) <= Cardinality(Since(s, t) \union {new})
    BY <1>2, <1>4, FS_Subset
  <1>6. Cardinality(Since(r, t)) \in Nat
    BY <1>5, FS_CardinalityType
  <1> QED BY <1>3, <1>4, <1>5, <1>6 DEF r

-----------------------------------------------------------------------------
(* The steps that touch a plan or its pings *)

LEMMA AddKeeps ==
    ASSUME BeatInv, NEW p \in Contacts, AddPlan(p)
    PROVE  BeatInv'
  <1>1. /\ stored' = stored \union {p} /\ stored' \in SUBSET Contacts
        /\ row'[p] = Fresh /\ \A q \in Contacts \ {p} : row'[q] = row[q]
        /\ pings'[p] = <<>> /\ \A q \in Contacts \ {p} : pings'[q] = pings[q]
        /\ late'[p] = Never /\ \A q \in Contacts \ {p} : late'[q] = late[q]
    BY DEF BeatInv, TablesOK, AddPlan
  <1>2. TablesOK'
    <2>1. Fresh \in Plan /\ <<>> \in Seq(Nat)
      BY DEF Fresh, Plan
    <2> QED BY <2>1 DEF BeatInv, TablesOK, AddPlan
  <1>3. /\ tick'.at = tick.at /\ tick'.time = tick.time /\ tick'.read = tick.read
        /\ tick'.left = tick.left /\ tick'.peer = tick.peer
        /\ tick'.superseded \in BOOLEAN
        /\ tick'.superseded = tick.superseded \/ (tick.at = "send" /\ tick.peer = p)
        /\ tick.at = "send" /\ tick.peer = p => tick'.superseded
        /\ tick' = [at |-> tick'.at, time |-> tick'.time, read |-> tick'.read,
                    left |-> tick'.left, peer |-> tick'.peer, superseded |-> tick'.superseded]
    <2>1. CASE tick.at = "send" /\ tick.peer = p
      <3>1. tick' = [at |-> tick.at, time |-> tick.time, read |-> tick.read,
                     left |-> tick.left, peer |-> tick.peer, superseded |-> TRUE]
        BY <2>1 DEF AddPlan, BeatInv, TickOK
      <3> QED BY <2>1, <3>1
    <2>2. CASE ~(tick.at = "send" /\ tick.peer = p)
      BY <2>2 DEF AddPlan, BeatInv, TickOK
    <2> QED BY <2>1, <2>2
  <1>4. TickOK'
    BY <1>3 DEF BeatInv, TickOK
  <1>5. UnansweredOK' /\ RemovedOK'
    BY <1>1, <1>3 DEF AddPlan, BeatInv, UnansweredOK, RemovedOK, TablesOK, TickOK, Never
  <1>6. ~OnItsWay(p)' /\ \A q : OnItsWay(q)' => OnItsWay(q)
    BY <1>3 DEF OnItsWay
  <1>7. DOMAIN pings'[p] = {}
    BY <1>1
  <1>8. \A q \in stored' \ {p} : q \in stored /\ q \in Contacts \ {p}
    BY <1>1
  <1>9. SpacesOK'
    <2>1. PingsAreSpaced'
      BY <1>1, <1>7 DEF BeatInv, SpacesOK, PingsAreSpaced
    <2>2. \A t : UpTo(pings'[p], t)
      BY <1>7 DEF UpTo
    <2>3. \A q \in stored' : UpTo(pings'[q], row'[q].last)
      BY <1>1, <1>8, <2>2 DEF BeatInv, SpacesOK
    <2>4. \A q \in tick'.left : UpTo(pings'[q], tick'.read[q].last)
      BY <1>1, <1>3, <2>2 DEF BeatInv, SpacesOK, TickOK
    <2>5. \A q \in stored' : OnItsWay(q)' => row'[q].last = tick'.time
      BY <1>1, <1>3, <1>6, <1>8 DEF BeatInv, SpacesOK
    <2> QED BY <2>1, <2>3, <2>4, <2>5 DEF SpacesOK
  <1>10. CountsOK'
    <2>1. \A s : Cardinality(Since(pings'[p], s)) = 0
      <3>1. \A s : Since(pings'[p], s) = {}
        BY <1>7 DEF Since
      <3> QED BY <3>1, FS_EmptySet
    <2>2. row'[p].today = 0
      BY <1>1 DEF Fresh
    <2>3. \A q \in stored' : row'[q].today <= MaxPerDay
      BY <1>1, <1>8, <2>2, PlanAssumption DEF BeatInv, CountsOK
    <2>4. \A q \in stored' : Cardinality(Since(pings'[q], row'[q].since)) <= row'[q].today
      BY <1>1, <1>8, <2>1, <2>2 DEF BeatInv, CountsOK
    <2>5. \A q \in stored' : OnItsWay(q)' =>
              Cardinality(Since(pings'[q], row'[q].since)) + 1 <= row'[q].today
      BY <1>1, <1>6, <1>8 DEF BeatInv, CountsOK
    <2>6. \A q \in tick'.left :
              Cardinality(Since(pings'[q], tick'.read[q].since)) <= tick'.read[q].today
      <3>1. \A q \in tick.left : q \in Contacts /\ tick.read[q].today \in Nat
        BY DEF BeatInv, TickOK, Plan
      <3> QED BY <1>1, <1>3, <2>1, <3>1 DEF BeatInv, CountsOK
    <2> QED BY <2>3, <2>4, <2>5, <2>6 DEF CountsOK
  <1> QED BY <1>2, <1>4, <1>5, <1>9, <1>10 DEF BeatInv

LEMMA RecordKeeps ==
    ASSUME BeatInv, Record
    PROVE  BeatInv'
  <1> DEFINE p == tick.peer
             plan == tick.read[p]
             t == tick.time
  <1>1. /\ tick.at = "text" /\ p \in tick.left /\ p \in Contacts
        /\ plan \in Plan /\ t \in Nat /\ IsDue(plan, t)
    BY DEF BeatInv, TickOK, Busy, Record
  <1>2. tick' = [at |-> "send", time |-> t, read |-> tick.read, left |-> tick.left,
                 peer |-> p, superseded |-> tick.superseded]
    BY DEF BeatInv, TickOK, Record
  <1>3. /\ tick'.at = "send" /\ tick'.time = t /\ tick'.read = tick.read
        /\ tick'.left = tick.left /\ tick'.peer = p /\ tick'.superseded = tick.superseded
    BY <1>2
  <1>4. TickOK'
    BY <1>2, <1>3 DEF BeatInv, TickOK, Busy, Record
  <1>5. UNCHANGED <<clock, stored, ours, pings, unanswered, late>>
    BY DEF Record, Records
  <1>6. PICK j \in 0..MaxJitter :
          row' = IF p \in stored THEN [row EXCEPT ![p] = Recorded(plan, t, j)] ELSE row
    BY DEF Record, Records
  <1> DEFINE new == Recorded(plan, t, j)
  <1>7. new \in Plan /\ new.last = t
    BY <1>1, RecordedRow
  <1>8. /\ p \in stored => row'[p] = new
        /\ \A q \in stored \ {p} : row'[q] = row[q]
    BY <1>6 DEF BeatInv, TablesOK
  <1>9. TablesOK'
    BY <1>1, <1>5, <1>6, <1>7 DEF BeatInv, TablesOK
  <1>10. UnansweredOK' /\ RemovedOK'
    BY <1>1, <1>3, <1>5 DEF BeatInv, UnansweredOK, RemovedOK
  <1>11. \A q : OnItsWay(q)' => q = p
    BY <1>3 DEF OnItsWay
  <1>12. UpTo(pings[p], plan.last) /\ plan.last <= t /\ (plan.last # Never => t >= plan.last + Interval)
    BY <1>1, DueAllows DEF BeatInv, SpacesOK
  <1>13. pings[p] \in Seq(Nat) /\ \A i \in DOMAIN pings[p] : pings[p][i] \in Nat
    BY <1>1 DEF BeatInv, TablesOK
  <1>14. plan.last \in Nat \union {Never}
    BY <1>1 DEF Plan
  <1> HIDE DEF new, plan, t, p
  <1>15. SpacesOK'
    <2>1. UpTo(pings[p], t)
      BY <1>1, <1>12, <1>13, <1>14 DEF UpTo, Never
    <2>2. \A q \in stored : UpTo(pings[q], row'[q].last)
      BY <1>7, <1>8, <2>1 DEF BeatInv, SpacesOK
    <2>3. \A q \in stored : OnItsWay(q)' => row'[q].last = tick'.time
      BY <1>3, <1>7, <1>8, <1>11
    <2>4. \A q \in tick'.left : UpTo(pings[q], tick'.read[q].last)
      BY <1>3 DEF BeatInv, SpacesOK
    <2>5. PingsAreSpaced'
      BY <1>5 DEF BeatInv, SpacesOK, PingsAreSpaced
    <2> QED BY <1>5, <2>2, <2>3, <2>4, <2>5 DEF SpacesOK
  <1>16. new.today <= MaxPerDay /\ Cardinality(Since(pings[p], new.since)) + 1 <= new.today
    <2>1. CASE SameDay(plan, t)
      <3>1. new.since = plan.since /\ new.today = plan.today + 1 /\ plan.today < MaxPerDay
        BY <1>1, <2>1, RecordedRow, DueAllows DEF new
      <3>2. Cardinality(Since(pings[p], plan.since)) <= plan.today
        BY <1>1 DEF BeatInv, CountsOK, plan
      <3>3. plan.today \in Nat /\ MaxPerDay \in Nat /\ Cardinality(Since(pings[p], plan.since)) \in Nat
        BY <1>1, <1>13, SinceIsFinite, PlanAssumption DEF Plan
      <3> QED BY <3>1, <3>2, <3>3
    <2>2. CASE ~SameDay(plan, t)
      <3>1. new.since = t /\ new.today = 1
        BY <1>1, <2>2, RecordedRow DEF new
      <3>2. \A i \in DOMAIN pings[p] : pings[p][i] < t
        BY <1>1, <1>12, <1>13, <1>14, PlanAssumption DEF UpTo, Never
      <3>3. Since(pings[p], t) = {}
        BY <1>1, <1>13, <3>2 DEF Since
      <3>4. Cardinality(Since(pings[p], t)) = 0
        BY <3>3, FS_EmptySet
      <3> QED BY <3>1, <3>4, PlanAssumption
    <2> QED BY <2>1, <2>2
  <1>17. CountsOK'
    <2>1. Cardinality(Since(pings[p], new.since)) \in Nat /\ new.today \in Nat
      BY <1>7, <1>13, SinceIsFinite DEF Plan
    <2>2. Cardinality(Since(pings[p], new.since)) <= new.today
      BY <1>16, <2>1
    <2>3. \A q \in stored : row'[q].today <= MaxPerDay
      BY <1>8, <1>16 DEF BeatInv, CountsOK
    <2>4. \A q \in stored : Cardinality(Since(pings[q], row'[q].since)) <= row'[q].today
      BY <1>8, <2>2 DEF BeatInv, CountsOK
    <2>5. \A q \in stored : OnItsWay(q)' => Cardinality(Since(pings[q], row'[q].since)) + 1 <= row'[q].today
      BY <1>8, <1>11, <1>16
    <2>6. \A q \in tick'.left : Cardinality(Since(pings[q], tick'.read[q].since)) <= tick'.read[q].today
      BY <1>3 DEF BeatInv, CountsOK
    <2> QED BY <1>5, <2>3, <2>4, <2>5, <2>6 DEF CountsOK
  <1> QED BY <1>4, <1>9, <1>10, <1>15, <1>17 DEF BeatInv

LEMMA RemoveKeeps ==
    ASSUME BeatInv, NEW p \in Contacts, RemovePlan(p)
    PROVE  BeatInv'
  <1>1. /\ stored' = stored \ {p} /\ stored' \in SUBSET Contacts
        /\ late'[p] = 0 /\ \A q \in Contacts \ {p} : late'[q] = late[q]
        /\ UNCHANGED <<clock, row, tick, ours, pings, unanswered>>
    BY DEF BeatInv, TablesOK, RemovePlan
  <1>2. TablesOK'
    BY <1>1 DEF BeatInv, TablesOK, RemovePlan
  <1>3. TickOK' /\ UnansweredOK'
    BY <1>1 DEF BeatInv, TickOK, UnansweredOK
  <1>4. RemovedOK'
    BY <1>1 DEF BeatInv, RemovedOK, TickOK, Never
  <1>5. SpacesOK' /\ CountsOK'
    <2>1. \A q : OnItsWay(q)' <=> OnItsWay(q)
      BY <1>1 DEF OnItsWay
    <2>2. SpacesOK'
      BY <1>1, <2>1 DEF BeatInv, SpacesOK, PingsAreSpaced
    <2>3. CountsOK'
      BY <1>1, <2>1 DEF BeatInv, CountsOK
    <2> QED BY <2>2, <2>3
  <1> QED BY <1>2, <1>3, <1>4, <1>5 DEF BeatInv

LEMMA SendKeeps ==
    ASSUME BeatInv, SendPing
    PROVE  BeatInv'
  <1> DEFINE p == tick.peer
             plan == tick.read[p]
             t == tick.time
  <1>1. /\ tick.at = "send" /\ p \in tick.left /\ p \in Contacts
        /\ plan \in Plan /\ t \in Nat /\ IsDue(plan, t)
    BY DEF BeatInv, TickOK, Busy, SendPing
  <1>2. OnToNext /\ UNCHANGED <<clock, stored, row>>
    BY DEF SendPing
  <1>3. /\ TickOK' /\ tick'.at = "next" /\ tick'.left = tick.left \ {p}
        /\ tick'.read = tick.read /\ tick'.time = t
    BY <1>2, ToNext DEF BeatInv
  <1>4. unanswered[p] = 0 /\ late[p] \in {Never, 0}
    BY <1>1 DEF BeatInv, TablesOK, UnansweredOK, RemovedOK
  <1>5. /\ ours' = ours \union {p}
        /\ unanswered' = [unanswered EXCEPT ![p] = 1]
        /\ late' = IF late[p] = Never THEN late ELSE [late EXCEPT ![p] = 1]
    <2>1. unanswered[p] + 1 = 1 /\ (late[p] # Never => late[p] + 1 = 1)
      BY <1>4
    <2> QED BY <2>1 DEF SendPing
  <1>6. /\ unanswered'[p] = 1 /\ \A q \in Contacts \ {p} : unanswered'[q] = unanswered[q]
        /\ late'[p] = Never <=> late[p] = Never
        /\ \A q \in Contacts \ {p} : late'[q] = late[q]
    BY <1>1, <1>5 DEF BeatInv, TablesOK, Never
  <1>7. UnansweredOK' /\ RemovedOK'
    <2>1. UnansweredOK'
      BY <1>3, <1>5, <1>6 DEF BeatInv, UnansweredOK
    <2>2. RemovedOK'
      BY <1>1, <1>2, <1>3, <1>6 DEF BeatInv, RemovedOK, TickOK
    <2> QED BY <2>1, <2>2
  <1>8. CASE tick.superseded
    <2>1. UNCHANGED <<stored, row, pings>>
      BY <1>2, <1>8 DEF SendPing
    <2>2. SpacesOK' /\ CountsOK'
      BY <1>3, <2>1, TickMovesOn DEF BeatInv
    <2>3. TablesOK'
      BY <1>1, <1>2, <1>5, <2>1 DEF BeatInv, TablesOK
    <2> QED BY <1>3, <1>7, <2>2, <2>3 DEF BeatInv
  <1>9. CASE ~tick.superseded
    <2>1. pings' = [pings EXCEPT ![p] = Append(pings[p], t)]
      BY <1>9 DEF SendPing
    <2>2. pings[p] \in Seq(Nat)
      BY <1>1 DEF BeatInv, TablesOK
    <2>3. /\ pings'[p] = Append(pings[p], t)
          /\ \A q \in Contacts \ {p} : pings'[q] = pings[q]
      BY <1>1, <2>1 DEF BeatInv, TablesOK
    <2>4. TablesOK'
      <3>1. Append(pings[p], t) \in Seq(Nat)
        BY <1>1, <2>2
      <3> QED BY <1>1, <1>2, <1>5, <2>1, <3>1 DEF BeatInv, TablesOK
    <2>5. OnItsWay(p) /\ \A q : ~OnItsWay(q)'
      BY <1>1, <1>3, <1>9 DEF OnItsWay
    <2>6. /\ Len(pings[p]) \in Nat /\ DOMAIN pings[p] = 1..Len(pings[p])
          /\ DOMAIN pings'[p] = 1..(Len(pings[p]) + 1)
          /\ \A i \in 1..Len(pings[p]) : pings'[p][i] = pings[p][i] /\ pings[p][i] \in Nat
          /\ pings'[p][Len(pings[p]) + 1] = t
      BY <2>2, <2>3
    <2>7. \A i \in 1..Len(pings[p]) : t - pings[p][i] >= Interval /\ pings[p][i] <= t
      <3>1. UpTo(pings[p], plan.last)
        BY <1>1 DEF BeatInv, SpacesOK
      <3>2. plan.last # Never => t >= plan.last + Interval
        BY <1>1, DueAllows
      <3>3. plan.last \in Nat \union {Never}
        BY <1>1 DEF Plan
      <3>4. SUFFICES ASSUME NEW i \in 1..Len(pings[p])
                     PROVE  t - pings[p][i] >= Interval /\ pings[p][i] <= t
        OBVIOUS
      <3>5. pings[p][i] <= plan.last /\ pings[p][i] \in Nat
        BY <2>6, <3>1 DEF UpTo
      <3> HIDE DEF p, plan, t
      <3> QED BY <1>1, <3>2, <3>3, <3>5, PlanAssumption DEF Never
    <2> HIDE DEF p, plan, t
    <2>8. SpacesOK'
      <3>1. PingsAreSpaced'
        <4> SUFFICES ASSUME NEW q \in Contacts, NEW i \in DOMAIN pings'[q],
                            NEW j \in DOMAIN pings'[q], i < j
                     PROVE  pings'[q][j] - pings'[q][i] >= Interval
          BY DEF PingsAreSpaced
        <4>1. CASE q # p
          BY <2>3, <4>1 DEF BeatInv, SpacesOK, PingsAreSpaced
        <4>2. CASE q = p /\ j = Len(pings[p]) + 1
          BY <2>6, <2>7, <4>2
        <4>3. CASE q = p /\ j # Len(pings[p]) + 1
          <5>1. i \in 1..Len(pings[p]) /\ j \in 1..Len(pings[p])
            BY <2>6, <4>3
          <5> QED BY <1>1, <2>6, <4>3, <5>1 DEF BeatInv, SpacesOK, PingsAreSpaced
        <4> QED BY <4>1, <4>2, <4>3
      <3>2. \A q \in stored' : UpTo(pings'[q], row'[q].last)
        <4>1. \A q \in stored : q \in Contacts
          BY DEF BeatInv, TablesOK
        <4>2. p \in stored => row[p].last = t
          BY <2>5 DEF BeatInv, SpacesOK, t
        <4>3. UpTo(pings'[p], t)
          BY <1>1, <2>6, <2>7 DEF UpTo
        <4> QED BY <1>2, <2>3, <4>1, <4>2, <4>3 DEF BeatInv, SpacesOK
      <3>3. \A q \in tick'.left : UpTo(pings'[q], tick'.read[q].last)
        BY <1>3, <2>3 DEF BeatInv, SpacesOK, TickOK
      <3> QED BY <2>5, <3>1, <3>2, <3>3 DEF SpacesOK
    <2>9. CountsOK'
      <3>1. \A q \in stored : q \in Contacts /\ row[q].today \in Nat
        BY DEF BeatInv, TablesOK, Plan
      <3>2. p \in stored => Cardinality(Since(pings'[p], row[p].since)) <= row[p].today
        <4>1. SUFFICES ASSUME p \in stored
                       PROVE  Cardinality(Since(pings'[p], row[p].since)) <= row[p].today
          OBVIOUS
        <4>2. Cardinality(Since(pings[p], row[p].since)) + 1 <= row[p].today
          BY <2>5, <4>1 DEF BeatInv, CountsOK
        <4>3. Cardinality(Since(pings[p], row[p].since)) \in Nat
          BY <2>2, SinceIsFinite
        <4>4. /\ Cardinality(Since(pings'[p], row[p].since)) \in Nat
              /\ Cardinality(Since(pings'[p], row[p].since))
                   <= Cardinality(Since(pings[p], row[p].since)) + 1
          BY <1>1, <2>2, <2>3, OneMoreLands
        <4> QED BY <3>1, <4>1, <4>2, <4>3, <4>4
      <3>3. \A q \in stored' : Cardinality(Since(pings'[q], row'[q].since)) <= row'[q].today
        BY <1>2, <2>3, <3>1, <3>2 DEF BeatInv, CountsOK
      <3>4. \A q \in tick'.left :
                Cardinality(Since(pings'[q], tick'.read[q].since)) <= tick'.read[q].today
        BY <1>3, <2>3 DEF BeatInv, CountsOK, TickOK
      <3> QED BY <1>2, <2>5, <3>3, <3>4 DEF BeatInv, CountsOK
    <2> QED BY <1>3, <1>7, <2>4, <2>8, <2>9 DEF BeatInv
  <1> QED BY <1>8, <1>9 DEF BeatInv, TickOK

-----------------------------------------------------------------------------
(* The steps that leave plans and pings alone *)

LEMMA ReadKeeps ==
    ASSUME BeatInv, ReadPlans
    PROVE  BeatInv'
  <1>1. UNCHANGED <<clock, stored, row, ours, pings, unanswered, late>>
    BY DEF ReadPlans
  <1>2. tick' = [at |-> "next", time |-> clock, read |-> [p \in stored |-> row[p]],
                 left |-> stored, peer |-> 0, superseded |-> FALSE]
    BY DEF ReadPlans, Asleep
  <1>3. /\ tick'.at = "next" /\ tick'.time = clock /\ tick'.left = stored
        /\ \A p \in stored : tick'.read[p] = row[p]
        /\ tick'.superseded = FALSE
    BY <1>2
  <1>4. TablesOK'
    BY <1>1 DEF BeatInv, TablesOK
  <1>5. TickOK'
    <2>1. \A p \in tick'.left : tick'.read[p] \in Plan
      BY <1>3 DEF BeatInv, TablesOK
    <2> QED BY <1>2, <1>3, <2>1 DEF BeatInv, TablesOK, TickOK, Busy
  <1>6. UnansweredOK' /\ RemovedOK'
    <2>1. \A p \in stored : p \in Contacts /\ late[p] # 1
      BY DEF BeatInv, TablesOK, RemovedOK, Never
    <2> QED BY <1>1, <1>3, <2>1 DEF BeatInv, UnansweredOK, RemovedOK
  <1>7. \A p : ~OnItsWay(p)'
    BY <1>3 DEF OnItsWay
  <1>8. SpacesOK'
    BY <1>1, <1>3, <1>7 DEF BeatInv, SpacesOK, PingsAreSpaced
  <1>9. CountsOK'
    BY <1>1, <1>3, <1>7 DEF BeatInv, CountsOK
  <1> QED BY <1>4, <1>5, <1>6, <1>8, <1>9 DEF BeatInv

LEMMA TakeKeeps ==
    ASSUME BeatInv, NEW p \in Contacts, TakePlan(p)
    PROVE  BeatInv'
  <1>1. UNCHANGED <<clock, stored, row, ours, pings, unanswered, late>>
    BY DEF TakePlan
  <1>2. TablesOK' /\ p \in tick.left /\ tick.at = "next"
    BY <1>1 DEF BeatInv, TablesOK, TakePlan
  <1>3. /\ TickOK' /\ tick'.at \in {"next", "tail"} /\ tick'.read = tick.read
        /\ tick'.left \subseteq tick.left
    <2>1. CASE IsDue(tick.read[p], tick.time)
      <3>1. tick' = [at |-> "tail", time |-> tick.time, read |-> tick.read,
                     left |-> tick.left, peer |-> p, superseded |-> tick.superseded]
        BY <2>1 DEF TakePlan, BeatInv, TickOK
      <3>2. /\ tick'.at = "tail" /\ tick'.time = tick.time /\ tick'.read = tick.read
            /\ tick'.left = tick.left /\ tick'.peer = p /\ tick'.superseded = tick.superseded
        BY <3>1
      <3> QED BY <1>2, <2>1, <3>1, <3>2 DEF BeatInv, TickOK, Busy
    <2>2. CASE ~IsDue(tick.read[p], tick.time)
      <3>1. tick' = [at |-> "next", time |-> tick.time, read |-> tick.read,
                     left |-> tick.left \ {p}, peer |-> tick.peer,
                     superseded |-> tick.superseded]
        BY <2>2 DEF TakePlan, BeatInv, TickOK
      <3>2. /\ tick'.at = "next" /\ tick'.time = tick.time /\ tick'.read = tick.read
            /\ tick'.left = tick.left \ {p} /\ tick'.superseded = tick.superseded
        BY <3>1
      <3> QED BY <3>1, <3>2 DEF BeatInv, TickOK, Busy
    <2> QED BY <2>1, <2>2
  <1>4. UnansweredOK' /\ RemovedOK'
    BY <1>1, <1>3 DEF BeatInv, UnansweredOK, RemovedOK
  <1>5. SpacesOK' /\ CountsOK'
    BY <1>1, <1>3, TickMovesOn DEF BeatInv
  <1> QED BY <1>2, <1>3, <1>4, <1>5 DEF BeatInv

\* The plan in hand is let go, or the whole tick.
LEMMA LetGoKeeps ==
    ASSUME BeatInv, OnToNext \/ tick' = Asleep,
           UNCHANGED <<clock, stored, row, ours, pings, unanswered, late>>
    PROVE  BeatInv'
  <1>1. /\ TickOK' /\ tick'.at \in {"next", "sleep"} /\ tick'.left \subseteq tick.left
        /\ tick'.read = tick.read \/ tick'.left = {}
    BY ToNext, ToSleep DEF BeatInv
  <1>2. TablesOK'
    BY DEF BeatInv, TablesOK
  <1>3. UnansweredOK' /\ RemovedOK'
    BY <1>1 DEF BeatInv, UnansweredOK, RemovedOK
  <1>4. SpacesOK' /\ CountsOK'
    BY <1>1, TickMovesOn DEF BeatInv
  <1> QED BY <1>1, <1>2, <1>3, <1>4 DEF BeatInv

LEMMA CheckKeeps ==
    ASSUME BeatInv, CheckTail
    PROVE  BeatInv'
  <1>1. UNCHANGED <<clock, stored, row, ours, pings, unanswered, late>>
    BY DEF CheckTail
  <1>2. CASE Nags(tick.peer)
    <2>1. OnToNext
      BY <1>2 DEF CheckTail
    <2> QED BY <1>1, <2>1, LetGoKeeps
  <1>3. CASE ~Nags(tick.peer)
    <2>1. tick' = [at |-> "text", time |-> tick.time, read |-> tick.read, left |-> tick.left,
                   peer |-> tick.peer, superseded |-> tick.superseded]
      BY <1>3 DEF CheckTail, BeatInv, TickOK
    <2>2. /\ tick'.at = "text" /\ tick'.time = tick.time /\ tick'.read = tick.read
          /\ tick'.left = tick.left /\ tick'.peer = tick.peer
          /\ tick'.superseded = tick.superseded
      BY <2>1
    <2>3. tick.at = "tail" /\ tick.peer \in Contacts
      BY DEF CheckTail, BeatInv, TickOK, Busy
    <2>4. TickOK'
      BY <2>1, <2>2, <2>3 DEF BeatInv, TickOK, Busy
    <2>5. unanswered[tick.peer] = 0
      BY <1>3, <2>3 DEF Nags, BeatInv, UnansweredOK, TablesOK
    <2>6. UnansweredOK' /\ RemovedOK'
      BY <1>1, <2>2, <2>5 DEF BeatInv, UnansweredOK, RemovedOK
    <2>7. SpacesOK' /\ CountsOK'
      BY <1>1, <2>2, TickMovesOn DEF BeatInv
    <2>8. TablesOK'
      BY <1>1 DEF BeatInv, TablesOK
    <2> QED BY <2>4, <2>6, <2>7, <2>8 DEF BeatInv
  <1> QED BY <1>2, <1>3

\* The clock, a message of the peer or of the owner, or nothing at all.
LEMMA OutsideKeeps ==
    ASSUME BeatInv, UNCHANGED <<stored, row, tick, pings, late>>,
           clock' \in Nat,
           /\ unanswered' = unanswered /\ ours \subseteq ours'
           \/ \E p \in Contacts : PeerWrites(p)
    PROVE  BeatInv'
  <1>1. TickOK' /\ RemovedOK'
    BY DEF BeatInv, TickOK, RemovedOK
  <1>2. TablesOK' /\ UnansweredOK'
    <2>1. CASE unanswered' = unanswered /\ ours \subseteq ours'
      BY <2>1 DEF BeatInv, TablesOK, UnansweredOK
    <2>2. ASSUME NEW p \in Contacts, PeerWrites(p)
          PROVE  TablesOK' /\ UnansweredOK'
      <3>1. /\ ours' = ours \ {p} /\ unanswered' \in [Contacts -> Nat] /\ unanswered'[p] = 0
            /\ \A q \in Contacts \ {p} : unanswered'[q] = unanswered[q]
        BY <2>2 DEF PeerWrites, BeatInv, TablesOK
      <3>2. tick.at \in {"text", "send"} => tick.peer \in Contacts
        BY DEF BeatInv, TickOK, Busy
      <3>3. TablesOK'
        BY <3>1 DEF BeatInv, TablesOK
      <3>4. \A q \in Contacts : unanswered'[q] <= 1 /\ (unanswered'[q] = 1 => q \in ours')
        <4> SUFFICES ASSUME NEW q \in Contacts
                     PROVE  unanswered'[q] <= 1 /\ (unanswered'[q] = 1 => q \in ours')
          OBVIOUS
        <4>1. CASE q = p
          BY <3>1, <4>1
        <4>2. CASE q # p
          BY <3>1, <4>2 DEF BeatInv, UnansweredOK
        <4> QED BY <4>1, <4>2
      <3>5. tick.at \in {"text", "send"} => unanswered'[tick.peer] = 0
        BY <3>1, <3>2 DEF BeatInv, UnansweredOK
      <3>6. UnansweredOK'
        BY <3>4, <3>5 DEF UnansweredOK
      <3> QED BY <3>3, <3>6
    <2> QED BY <2>1, <2>2
  <1>3. SpacesOK' /\ CountsOK'
    BY TickMovesOn DEF BeatInv
  <1> QED BY <1>1, <1>2, <1>3 DEF BeatInv

LEMMA BeatStep ==
    ASSUME BeatInv, [BeatNext]_beatVars
    PROVE  BeatInv'
  <1>1. CASE Advance
    BY <1>1, OutsideKeeps DEF Advance, BeatInv, TablesOK
  <1>2. ASSUME NEW p \in Contacts, PeerWrites(p)
        PROVE  BeatInv'
    BY <1>2, OutsideKeeps DEF PeerWrites, BeatInv, TablesOK
  <1>3. ASSUME NEW p \in Contacts, OwnerWrites(p)
        PROVE  BeatInv'
    BY <1>3, OutsideKeeps DEF OwnerWrites, BeatInv, TablesOK
  <1>4. CASE TickEnds \/ PlanFails \/ StopsAndStarts
    BY <1>4, LetGoKeeps DEF TickEnds, PlanFails, StopsAndStarts
  <1>5. CASE UNCHANGED beatVars
    BY <1>5, OutsideKeeps DEF beatVars, BeatInv, TablesOK
  <1> QED BY <1>1, <1>2, <1>3, <1>4, <1>5, AddKeeps, RemoveKeeps, TakeKeeps, ReadKeeps,
             CheckKeeps, RecordKeeps, SendKeeps DEF BeatNext

LEMMA BeatStarts == BeatInit => BeatInv
  <1> SUFFICES ASSUME BeatInit PROVE BeatInv
    OBVIOUS
  <1>1. Fresh \in Plan /\ <<>> \in Seq(Nat)
    BY DEF Fresh, Plan
  <1>2. TablesOK
    BY <1>1 DEF BeatInit, TablesOK
  <1>3. TickOK /\ tick.at = "sleep" /\ tick.left = {}
    BY DEF BeatInit, TickOK, Asleep, Busy
  <1>4. UnansweredOK /\ RemovedOK /\ SpacesOK /\ CountsOK
    BY <1>3 DEF BeatInit, UnansweredOK, RemovedOK, SpacesOK, CountsOK, PingsAreSpaced, Never
  <1> QED BY <1>2, <1>3, <1>4 DEF BeatInv

-----------------------------------------------------------------------------
(* The theorems *)

\* What a tick knows of the plans it read stays true, whatever it meets.
THEOREM BeatInvariant == BeatSpec => []BeatInv
  BY BeatStarts, BeatStep, PTL DEF BeatSpec

\* Safety 1 and 3 of heartbeat.py's docstring: whatever ticks are interrupted,
\* whatever sends fail and whatever the commands do meanwhile, the pings of a
\* plan keep its interval and its daily limit.
THEOREM PlansAreKept == BeatSpec => []PingsKeepThePlan
  <1>1. BeatInv => PingsKeepThePlan
    <2> SUFFICES ASSUME BeatInv, NEW p \in stored
                 PROVE  Cardinality(Since(pings[p], row[p].since)) <= MaxPerDay
      BY DEF BeatInv, SpacesOK, PingsKeepThePlan, PingsAreCapped, Since
    <2>1. pings[p] \in Seq(Nat) /\ row[p].today \in Nat
      BY DEF BeatInv, TablesOK, Plan
    <2>2. Cardinality(Since(pings[p], row[p].since)) \in Nat
      BY <2>1, SinceIsFinite
    <2> QED BY <2>1, <2>2, PlanAssumption DEF BeatInv, CountsOK
  <1> QED BY <1>1, BeatInvariant, PTL

\* Safety 4: no ping follows one the peer has not answered.
THEOREM PingsAreAnswered == BeatSpec => []OneUnansweredPing
  <1>1. BeatInv => OneUnansweredPing
    BY DEF BeatInv, UnansweredOK, OneUnansweredPing
  <1> QED BY <1>1, BeatInvariant, PTL

\* A tick does not bring back the plan that was removed under it.
THEOREM RemovedPlansStaySilent == BeatSpec => []RemovedPlanIsSilent
  <1>1. BeatInv => RemovedPlanIsSilent
    <2> SUFFICES ASSUME BeatInv, NEW p \in Contacts PROVE late[p] <= 1
      BY DEF RemovedPlanIsSilent
    <2>1. late[p] \in {Never, 0, 1}
      BY DEF BeatInv, TablesOK
    <2> QED BY <2>1 DEF Never
  <1> QED BY <1>1, BeatInvariant, PTL

-----------------------------------------------------------------------------
(* Moderation *)

Keys == Chats \X Users
Posted == [chat : Chats, from : Users, suspect : BOOLEAN]
Entry(V) == [key : Keys, value : V]
Entries(s) == {s[i] : i \in DOMAIN s}
Fired == [message : Nat, rule : Rules, at : Nat]
Engines == [up : BOOLEAN, blocked : SUBSET {r.chat : r \in Rules}, loaded : BOOLEAN,
            mine : SUBSET Rules]
Hands == [stage : {"act", "dry", "done", "failed"}, message : Nat, todo : SUBSET Actions]

\* The bounded caches hold what they held and the entry renewed.
LEMMA WithoutKeeps ==
    ASSUME NEW S, NEW cache \in Seq(S), NEW key
    PROVE  Without(cache, key) \in Seq(S) /\ Entries(Without(cache, key)) \subseteq Entries(cache)
<1>1. CASE Has(cache, key)
    <2> DEFINE p == Place(cache, key)
               a == SubSeq(cache, 1, p - 1)
               b == SubSeq(cache, p + 1, Len(cache))
    <2>1. p \in DOMAIN cache
        BY <1>1 DEF Has, Place
    <2>2. Len(cache) \in Nat /\ DOMAIN cache = 1..Len(cache)
        OBVIOUS
    <2> HIDE DEF p
    <2>3. p \in Nat \ {0} /\ p <= Len(cache)
        BY <2>1, <2>2
    <2>4. /\ a \in Seq(S) /\ Len(a) = p - 1 /\ DOMAIN a = 1..(p - 1)
          /\ \A i \in 1..(p - 1) : a[i] = cache[i]
        <3>1. \A i \in 1..(p - 1) : cache[i] \in S
            BY <2>2, <2>3
        <3>2. a = [i \in 1..(p - 1) |-> cache[i]]
            BY <2>3
        <3> QED
            BY <2>3, <3>1, <3>2
    <2>5. /\ b \in Seq(S) /\ Len(b) = Len(cache) - p /\ DOMAIN b = 1..(Len(cache) - p)
          /\ \A i \in 1..(Len(cache) - p) : b[i] = cache[i + p]
        <3>1. \A i \in 1..(Len(cache) - p) : cache[i + p] \in S
            BY <2>2, <2>3
        <3> DEFINE n == Len(cache) - p
        <3>2. n \in Nat
            BY <2>2, <2>3
        <3>3. b = [i \in 1..n |-> cache[i + p]]
            BY <2>2, <2>3
        <3> HIDE DEF n, b
        <3>4. b \in Seq(S) /\ Len(b) = n /\ DOMAIN b = 1..n /\ \A i \in 1..n : b[i] = cache[i + p]
            <4>1. \A i \in 1..n : cache[i + p] \in S
                BY <3>1 DEF n
            <4> QED
                BY <3>2, <3>3, <4>1
        <3> QED
            BY <3>4 DEF n
    <2> HIDE DEF a, b
    <2>6. Entries(a) \subseteq Entries(cache)
        <3>1. DOMAIN a \subseteq DOMAIN cache
            BY <2>2, <2>3, <2>4
        <3> QED
            BY <2>4, <3>1 DEF Entries
    <2>7. Entries(b) \subseteq Entries(cache)
        <3>1. \A i \in DOMAIN b : i + p \in DOMAIN cache /\ b[i] = cache[i + p]
            BY <2>2, <2>3, <2>5
        <3> QED
            BY <3>1 DEF Entries
    <2>8. Entries(a \o b) \subseteq Entries(a) \union Entries(b)
        <3>1. \A i \in DOMAIN (a \o b) :
                  \/ i \in DOMAIN a /\ (a \o b)[i] = a[i]
                  \/ i - Len(a) \in DOMAIN b /\ (a \o b)[i] = b[i - Len(a)]
            BY <2>4, <2>5
        <3> QED
            BY <3>1 DEF Entries
    <2>9. Without(cache, key) = a \o b
        BY <1>1 DEF Without, a, b, p
    <2>10. a \o b \in Seq(S)
        BY <2>4, <2>5
    <2> QED
        BY <2>6, <2>7, <2>8, <2>9, <2>10
<1>2. CASE ~Has(cache, key)
    BY <1>2 DEF Without
<1> QED
    BY <1>1, <1>2

LEMMA RenewedKeeps ==
    ASSUME NEW V, NEW cache \in Seq(Entry(V)), NEW key \in Keys, NEW value \in V
    PROVE  /\ Renewed(cache, key, value) \in Seq(Entry(V))
           /\ Entries(Renewed(cache, key, value))
                 \subseteq Entries(cache) \union {[key |-> key, value |-> value]}
<1> DEFINE e == [key |-> key, value |-> value]
           rest == Without(cache, key)
           all == Append(rest, e)
<1>1. e \in Entry(V)
    BY DEF Entry
<1>2. rest \in Seq(Entry(V)) /\ Entries(rest) \subseteq Entries(cache)
    BY WithoutKeeps
<1> HIDE DEF e, rest
<1>3. /\ all \in Seq(Entry(V)) /\ Len(all) = Len(rest) + 1 /\ Len(rest) \in Nat
      /\ DOMAIN all = 1..(Len(rest) + 1) /\ DOMAIN rest = 1..Len(rest)
      /\ all[Len(rest) + 1] = e /\ \A i \in DOMAIN rest : all[i] = rest[i]
    BY <1>1, <1>2
<1> HIDE DEF all
<1>4. \A i \in DOMAIN all : i = Len(rest) + 1 \/ i \in DOMAIN rest
    BY <1>3
<1>5. Entries(all) \subseteq Entries(rest) \union {e}
    BY <1>3, <1>4 DEF Entries
<1>6. Tail(all) \in Seq(Entry(V)) /\ Entries(Tail(all)) \subseteq Entries(all)
    <2>1. all # <<>>
        BY <1>3
    <2>2. /\ Tail(all) \in Seq(Entry(V)) /\ DOMAIN Tail(all) = 1..(Len(all) - 1)
          /\ \A i \in 1..(Len(all) - 1) : Tail(all)[i] = all[i + 1]
        BY <1>3, <2>1
    <2>3. \A i \in DOMAIN Tail(all) : i + 1 \in DOMAIN all /\ Tail(all)[i] = all[i + 1]
        BY <1>3, <2>2
    <2> QED
        BY <2>2, <2>3 DEF Entries
<1>7. Renewed(cache, key, value) \in {Tail(all), all}
    BY DEF Renewed, all, rest, e
<1> QED
    BY <1>2, <1>3, <1>5, <1>6, <1>7 DEF e

LEMMA LookupFinds ==
    ASSUME NEW cache, NEW key, NEW none
    PROVE  \/ Lookup(cache, key, none) = none
           \/ \E e \in Entries(cache) : e.key = key /\ e.value = Lookup(cache, key, none)
<1>1. CASE Has(cache, key)
    <2>1. Place(cache, key) \in DOMAIN cache /\ cache[Place(cache, key)].key = key
        BY <1>1 DEF Has, Place
    <2> QED
        BY <1>1, <2>1 DEF Lookup, Entries
<1>2. CASE ~Has(cache, key)
    BY <1>2 DEF Lookup
<1> QED
    BY <1>1, <1>2

LEMMA NextIsOne ==
    ASSUME NEW todo \in SUBSET Actions, todo # {}
    PROVE  NextOf(todo) \in todo
<1>1. \E a \in todo : \A b \in todo : Ranks[a] <= Ranks[b]
    <2>1. /\ Ranks["warn"] = 1 /\ Ranks["mute"] = 2 /\ Ranks["ban"] = 3 /\ Ranks["delete"] = 4
          /\ \A b \in todo : b \in {"warn", "mute", "ban", "delete"}
        BY DEF Ranks, Actions
    <2>2. \A b \in todo : Ranks[b] \in 1..4
        BY <2>1
    <2>3. CASE "warn" \in todo
        BY <2>1, <2>2, <2>3
    <2>4. CASE "warn" \notin todo /\ "mute" \in todo
        BY <2>1, <2>4
    <2>5. CASE "warn" \notin todo /\ "mute" \notin todo /\ "ban" \in todo
        BY <2>1, <2>5
    <2>6. CASE "warn" \notin todo /\ "mute" \notin todo /\ "ban" \notin todo
        BY <2>1, <2>6
    <2> QED
        BY <2>3, <2>4, <2>5, <2>6
<1> QED
    BY <1>1 DEF NextOf

-----------------------------------------------------------------------------
(* The inductive invariant *)

ModTables ==
    /\ now \in Nat /\ taken \in Nat
    /\ posts \in Seq(Posted) /\ taken <= Len(posts)
    /\ joins \in Seq(Keys)
    /\ rules \subseteq Rules /\ engine \in Engines
    /\ joined \in Seq(Entry(Nat))
    /\ rates \in Seq(Entry(SUBSET (Nat \X Nat)))
    /\ hand \in {Resting} \union Hands
    /\ hand # Resting => hand.todo # {}
    /\ fired \subseteq Fired
    /\ seen \subseteq Nat \X Nat /\ IsFiniteSet(seen)
    /\ welcomed \subseteq Keys \X Nat

KeyOf(n) == <<posts[n].chat, posts[n].from>>

\* What was seen, welcomed and fired, was so by now and of messages taken.
PastOK ==
    /\ \A w \in welcomed : w[2] <= now
    /\ \A s \in seen : s[1] > 0 /\ s[1] <= taken
    /\ \A f \in fired : f.message > 0 /\ f.message <= taken

\* The caches hold nothing that was not seen.
JoinedOK == \A e \in Entries(joined) : <<e.key, e.value>> \in welcomed
RatesOK == \A e \in Entries(rates) : e.value \subseteq {s \in seen : KeyOf(s[1]) = e.key}

\* The message in hand is one a rule fired on, with that rule's actions.
HandOK ==
    hand # Resting => \E f \in fired : f.message = hand.message /\ hand.todo \subseteq f.rule.actions

ModInv ==
    ModTables /\ PastOK /\ JoinedOK /\ RatesOK /\ HandOK /\ FiresTruly /\ AuditIsComplete

\* What FiresTruly says of one message fired upon.
OftenEnough(f) ==
    f.rule.rate > 0 =>
        Cardinality({s \in seen : /\ posts[s[1]].from = posts[f.message].from
                                  /\ posts[s[1]].chat = posts[f.message].chat
                                  /\ s[1] <= f.message
                                  /\ f.at - s[2] <= Window}) >= f.rule.rate
NewEnough(f) ==
    f.rule.newWithin > 0 =>
        \E w \in welcomed : /\ w[1] = KeyOf(f.message)
                            /\ w[2] <= f.at /\ f.at - w[2] <= f.rule.newWithin

LEMMA FiresOneByOne == FiresTruly <=> \A f \in fired : OftenEnough(f) /\ NewEnough(f)
    BY DEF FiresTruly, OftenEnough, NewEnough, KeyOf

LEMMA FiresAfter == FiresTruly' <=> \A f \in fired' : OftenEnough(f)' /\ NewEnough(f)'
    BY DEF FiresTruly, OftenEnough, NewEnough, KeyOf

LEMMA ModBegins == ModInit => ModInv
<1> SUFFICES ASSUME ModInit PROVE ModInv
    OBVIOUS
<1>1. /\ now = 0 /\ rules = Rules /\ engine = Off /\ posts = <<>> /\ taken = 0 /\ joins = <<>>
      /\ joined = <<>> /\ rates = <<>> /\ hand = Resting
      /\ done = {} /\ journal = {} /\ erased = {} /\ fired = {} /\ seen = {} /\ welcomed = {}
    BY DEF ModInit
<1>2. Entries(joined) = {} /\ Entries(rates) = {}
    BY <1>1 DEF Entries
<1>3. ModTables
    BY <1>1, FS_EmptySet DEF ModTables, Engines, Off
<1>4. FiresTruly /\ AuditIsComplete
    BY <1>1 DEF FiresTruly, AuditIsComplete
<1> QED
    BY <1>1, <1>2, <1>3, <1>4 DEF ModInv, PastOK, JoinedOK, RatesOK, HandOK

-----------------------------------------------------------------------------
(* The steps *)

\* The steps that neither take a message nor a join, nor act.
LEMMA OthersStay ==
    ASSUME ModInv, now' \in Nat, now <= now', rules' \subseteq Rules, engine' \in Engines,
           joins' \in Seq(Keys), posts' \in Seq(Posted), Len(posts) <= Len(posts'),
           \A n \in 1..taken : posts'[n] = posts[n],
           taken' \in Nat, taken <= taken', taken' <= Len(posts'),
           joined' \in {joined, <<>>}, rates' \in {rates, <<>>},
           fired' = fired, seen' = seen, welcomed' = welcomed, done' = done, journal' = journal,
           \/ hand' = hand /\ erased' = erased
           \/ /\ hand' = Resting
              /\ erased' = erased \union (IF hand = Resting THEN {}
                                          ELSE {Row(hand.message, a) : a \in hand.todo})
    PROVE  ModInv'
<1>0. ModTables /\ PastOK /\ JoinedOK /\ RatesOK /\ HandOK /\ FiresTruly /\ AuditIsComplete
    BY DEF ModInv
<1>1. ModTables'
    <2>1. /\ joined \in Seq(Entry(Nat)) /\ rates \in Seq(Entry(SUBSET (Nat \X Nat)))
          /\ hand \in {Resting} \union Hands /\ (hand # Resting => hand.todo # {})
          /\ fired \subseteq Fired /\ seen \subseteq Nat \X Nat /\ IsFiniteSet(seen)
          /\ welcomed \subseteq Keys \X Nat
        BY <1>0 DEF ModTables
    <2>2. joined' \in Seq(Entry(Nat)) /\ rates' \in Seq(Entry(SUBSET (Nat \X Nat)))
        <3>1. \A S : <<>> \in Seq(S)
            OBVIOUS
        <3> QED
            BY <2>1, <3>1, Zenon
    <2>3. hand' \in {Resting} \union Hands /\ (hand' # Resting => hand'.todo # {})
        BY <2>1
    <2>4. /\ fired' \subseteq Fired /\ seen' \subseteq Nat \X Nat /\ IsFiniteSet(seen')
          /\ welcomed' \subseteq Keys \X Nat
        BY <2>1
    <2> QED
        BY <2>2, <2>3, <2>4 DEF ModTables
<1>2. PastOK'
    <2>1. /\ now \in Nat /\ taken \in Nat /\ fired \subseteq Fired
          /\ welcomed \subseteq Keys \X Nat /\ seen \subseteq Nat \X Nat
        BY <1>0 DEF ModTables
    <2>2. /\ \A w \in welcomed : w[2] \in Nat
          /\ \A s \in seen : s[1] \in Nat
          /\ \A f \in fired : f.message \in Nat
        BY <2>1 DEF Fired
    <2>3. \A w \in welcomed : w[2] <= now'
        BY <1>0, <2>1, <2>2 DEF PastOK
    <2>4. \A s \in seen : s[1] > 0 /\ s[1] <= taken'
        BY <1>0, <2>1, <2>2 DEF PastOK
    <2>5. \A f \in fired : f.message > 0 /\ f.message <= taken'
        BY <1>0, <2>1, <2>2 DEF PastOK
    <2> QED
        BY <2>3, <2>4, <2>5 DEF PastOK
<1>3. /\ \A s \in seen : posts'[s[1]] = posts[s[1]]
      /\ \A f \in fired : posts'[f.message] = posts[f.message]
    <2>1. /\ taken \in Nat /\ fired \subseteq Fired /\ seen \subseteq Nat \X Nat
        BY <1>0 DEF ModTables
    <2>2. /\ \A s \in seen : s[1] \in Nat /\ s[1] > 0 /\ s[1] <= taken
          /\ \A f \in fired : f.message \in Nat /\ f.message > 0 /\ f.message <= taken
        BY <1>0, <2>1 DEF PastOK, Fired
    <2>3. /\ \A s \in seen : s[1] \in 1..taken
          /\ \A f \in fired : f.message \in 1..taken
        BY <2>1, <2>2
    <2> QED
        BY <2>3
<1>4. JoinedOK' /\ RatesOK'
    <2>1. Entries(joined') \subseteq Entries(joined) /\ Entries(rates') \subseteq Entries(rates)
        BY DEF Entries
    <2>2. \A s \in seen : KeyOf(s[1])' = KeyOf(s[1])
        BY <1>3 DEF KeyOf
    <2>3. JoinedOK'
        BY <1>0, <2>1 DEF JoinedOK
    <2>4. \A e \in Entries(rates') : e.value \subseteq {s \in seen' : KeyOf(s[1])' = e.key}
        BY <1>0, <2>1, <2>2 DEF RatesOK
    <2> QED
        BY <2>3, <2>4 DEF RatesOK, KeyOf
<1>5. HandOK'
    BY <1>0 DEF HandOK
<1>6. FiresTruly'
    <2>1. ASSUME NEW f \in fired
          PROVE  OftenEnough(f)' /\ NewEnough(f)'
        <3>1. OftenEnough(f) /\ NewEnough(f)
            BY <1>0, FiresOneByOne
        <3>2. {s \in seen : /\ posts'[s[1]].from = posts'[f.message].from
                            /\ posts'[s[1]].chat = posts'[f.message].chat
                            /\ s[1] <= f.message
                            /\ f.at - s[2] <= Window}
               = {s \in seen : /\ posts[s[1]].from = posts[f.message].from
                               /\ posts[s[1]].chat = posts[f.message].chat
                               /\ s[1] <= f.message
                               /\ f.at - s[2] <= Window}
            BY <1>3
        <3>3. KeyOf(f.message)' = KeyOf(f.message)
            BY <1>3 DEF KeyOf
        <3>4. OftenEnough(f)'
            BY <3>1, <3>2 DEF OftenEnough
        <3> QED
            BY <3>1, <3>3, <3>4 DEF NewEnough
    <2> QED
        BY <2>1, FiresAfter
<1>7. AuditIsComplete'
    <2>1. ASSUME NEW f \in fired, NEW a \in f.rule.actions
          PROVE  \/ Row(f.message, a) \in journal' \union erased'
                 \/ hand' # Resting /\ hand'.message = f.message /\ a \in hand'.todo
        <3>1. \/ Row(f.message, a) \in journal \union erased
              \/ hand # Resting /\ hand.message = f.message /\ a \in hand.todo
            BY <1>0 DEF AuditIsComplete
        <3> QED
            BY <3>1
    <2> QED
        BY <1>0, <2>1 DEF AuditIsComplete, Row
<1> QED
    BY <1>1, <1>2, <1>4, <1>5, <1>6, <1>7 DEF ModInv

LEMMA ConsumeJoinStays ==
    ASSUME ModInv, ConsumeJoin
    PROVE  ModInv'
<1>0. ModTables /\ PastOK /\ JoinedOK /\ RatesOK /\ HandOK /\ FiresTruly /\ AuditIsComplete
    BY DEF ModInv
<1> DEFINE key == Head(joins)
<1>1. /\ joins # <<>> /\ joins' = Tail(joins)
      /\ joined' = Renewed(joined, key, now)
      /\ welcomed' = welcomed \union {<<key, now>>}
      /\ now' = now /\ rules' = rules /\ engine' = engine /\ posts' = posts /\ taken' = taken
      /\ rates' = rates /\ hand' = hand /\ done' = done /\ journal' = journal
      /\ erased' = erased /\ fired' = fired /\ seen' = seen
    BY DEF ConsumeJoin
<1>2. joins \in Seq(Keys) /\ joined \in Seq(Entry(Nat)) /\ now \in Nat /\ welcomed \subseteq Keys \X Nat
    BY <1>0 DEF ModTables
<1>3. key \in Keys /\ joins' \in Seq(Keys)
    BY <1>1, <1>2
<1> HIDE DEF key
<1>4. /\ joined' \in Seq(Entry(Nat))
      /\ Entries(joined') \subseteq Entries(joined) \union {[key |-> key, value |-> now]}
    BY <1>1, <1>2, <1>3, RenewedKeeps
<1>5. ModTables'
    BY <1>0, <1>1, <1>2, <1>3, <1>4 DEF ModTables
<1>6. PastOK'
    BY <1>0, <1>1, <1>2 DEF PastOK
<1>7. JoinedOK'
    <2>1. ASSUME NEW e \in Entries(joined')
          PROVE  <<e.key, e.value>> \in welcomed'
        <3>1. CASE e \in Entries(joined)
            BY <1>0, <1>1, <3>1 DEF JoinedOK
        <3>2. CASE e = [key |-> key, value |-> now]
            <4>1. e.key = key /\ e.value = now
                BY <3>2
            <4> QED
                BY <4>1, <1>1
        <3> QED
            BY <3>1, <3>2, <1>4
    <2> QED
        BY <2>1 DEF JoinedOK
<1>8. RatesOK' /\ HandOK' /\ AuditIsComplete'
    BY <1>0, <1>1 DEF RatesOK, HandOK, AuditIsComplete, KeyOf, Row
<1>9. FiresTruly'
    <2>1. ASSUME NEW f \in fired
          PROVE  OftenEnough(f)' /\ NewEnough(f)'
        <3>1. OftenEnough(f) /\ NewEnough(f)
            BY <1>0, FiresOneByOne
        <3>2. OftenEnough(f)'
            BY <1>1, <3>1 DEF OftenEnough
        <3> QED
            BY <1>1, <3>1, <3>2 DEF NewEnough, KeyOf
    <2> QED
        BY <1>1, <2>1, FiresAfter
<1> QED
    BY <1>5, <1>6, <1>7, <1>8, <1>9 DEF ModInv

LEMMA ActStays ==
    ASSUME ModInv, Act
    PROVE  ModInv'
<1>0. ModTables /\ PastOK /\ JoinedOK /\ RatesOK /\ HandOK /\ FiresTruly /\ AuditIsComplete
    BY DEF ModInv
<1> DEFINE entry == Row(hand.message, NextOf(hand.todo))
<1>1. /\ hand # Resting
      /\ \E stage \in {"dry", "done", "failed"} : hand' = [hand EXCEPT !.stage = stage]
      /\ done' \subseteq done \union {entry}
      /\ now' = now /\ rules' = rules /\ engine' = engine /\ posts' = posts /\ taken' = taken
      /\ joins' = joins /\ joined' = joined /\ rates' = rates /\ journal' = journal
      /\ erased' = erased /\ fired' = fired /\ seen' = seen /\ welcomed' = welcomed
    BY DEF Act, AfterFailure
<1>2. hand \in Hands /\ hand.todo # {} /\ hand.todo \in SUBSET Actions
    BY <1>0, <1>1 DEF ModTables, Hands
<1>3. /\ hand' \in Hands /\ hand'.message = hand.message /\ hand'.todo = hand.todo
      /\ hand' # Resting
    <2>1. PICK stage \in {"dry", "done", "failed"} : hand' = [hand EXCEPT !.stage = stage]
        BY <1>1
    <2>2. /\ hand' \in Hands /\ hand'.message = hand.message /\ hand'.todo = hand.todo
          /\ hand'.stage = stage
        BY <1>2, <2>1 DEF Hands
    <2> QED
        BY <2>2 DEF Resting
<1>4. PICK f \in fired : f.message = hand.message /\ hand.todo \subseteq f.rule.actions
    BY <1>0, <1>1 DEF HandOK
<1>5. NextOf(hand.todo) \in hand.todo
    BY <1>2, NextIsOne
<1>6. ModTables'
    BY <1>0, <1>1, <1>2, <1>3 DEF ModTables
<1>7. PastOK' /\ JoinedOK' /\ RatesOK'
    BY <1>0, <1>1 DEF PastOK, JoinedOK, RatesOK, KeyOf
<1>8. HandOK'
    BY <1>1, <1>3, <1>4 DEF HandOK
<1>9. FiresTruly'
    BY <1>0, <1>1 DEF FiresTruly
<1>10. AuditIsComplete'
    <2>1. \A g \in fired : \A a \in g.rule.actions :
             \/ Row(g.message, a) \in journal' \union erased'
             \/ hand' # Resting /\ hand'.message = g.message /\ a \in hand'.todo
        BY <1>0, <1>1, <1>3 DEF AuditIsComplete
    <2>2. ASSUME NEW d \in done'
          PROVE  \E g \in fired : g.message = d.message /\ d.action \in g.rule.actions
        <3>1. CASE d \in done
            BY <1>0, <3>1 DEF AuditIsComplete
        <3>2. CASE d = entry
            <4>1. d.message = hand.message /\ d.action = NextOf(hand.todo)
                BY <3>2 DEF Row
            <4> QED
                BY <4>1, <1>4, <1>5
        <3> QED
            BY <1>1, <3>1, <3>2
    <2> QED
        BY <1>1, <2>1, <2>2 DEF AuditIsComplete, Row
<1> QED
    BY <1>6, <1>7, <1>8, <1>9, <1>10 DEF ModInv

LEMMA JournalStays ==
    ASSUME ModInv, Journal
    PROVE  ModInv'
<1>0. ModTables /\ PastOK /\ JoinedOK /\ RatesOK /\ HandOK /\ FiresTruly /\ AuditIsComplete
    BY DEF ModInv
<1> DEFINE next == NextOf(hand.todo)
           left == hand.todo \ {next}
<1>1. /\ hand # Resting
      /\ hand' = IF left = {} THEN Resting ELSE [hand EXCEPT !.stage = "act", !.todo = left]
      /\ journal' \union erased' = journal \union erased \union {Row(hand.message, next)}
      /\ now' = now /\ rules' = rules /\ engine' = engine /\ posts' = posts /\ taken' = taken
      /\ joins' = joins /\ joined' = joined /\ rates' = rates /\ done' = done
      /\ fired' = fired /\ seen' = seen /\ welcomed' = welcomed
    BY DEF Journal
<1>2. hand \in Hands /\ hand.todo # {} /\ hand.todo \in SUBSET Actions
    BY <1>0, <1>1 DEF ModTables, Hands
<1> HIDE DEF next
<1>3. \/ left = {} /\ hand' = Resting
      \/ /\ hand' \in Hands /\ hand' # Resting /\ hand'.todo = left /\ left # {}
         /\ hand'.message = hand.message
    <2>1. CASE left # {}
        <3>1. /\ hand' \in Hands /\ hand'.stage = "act" /\ hand'.todo = left
              /\ hand'.message = hand.message
            BY <1>1, <1>2, <2>1 DEF Hands
        <3> QED
            BY <2>1, <3>1 DEF Resting
    <2> QED
        BY <1>1, <2>1
<1>4. PICK f \in fired : f.message = hand.message /\ hand.todo \subseteq f.rule.actions
    BY <1>0, <1>1 DEF HandOK
<1>5. ModTables'
    BY <1>0, <1>1, <1>3 DEF ModTables
<1>6. PastOK' /\ JoinedOK' /\ RatesOK'
    BY <1>0, <1>1 DEF PastOK, JoinedOK, RatesOK, KeyOf
<1>7. HandOK'
    BY <1>1, <1>3, <1>4 DEF HandOK
<1>8. FiresTruly'
    BY <1>0, <1>1 DEF FiresTruly
<1>9. AuditIsComplete'
    <2>1. ASSUME NEW g \in fired, NEW a \in g.rule.actions
          PROVE  \/ Row(g.message, a) \in journal' \union erased'
                 \/ hand' # Resting /\ hand'.message = g.message /\ a \in hand'.todo
        <3>1. \/ Row(g.message, a) \in journal \union erased
              \/ hand.message = g.message /\ a \in hand.todo
            BY <1>0 DEF AuditIsComplete
        <3>2. a \in hand.todo => a = next \/ a \in left
            OBVIOUS
        <3> QED
            BY <1>1, <1>3, <3>1, <3>2
    <2> QED
        BY <1>0, <1>1, <2>1 DEF AuditIsComplete, Row
<1> QED
    BY <1>5, <1>6, <1>7, <1>8, <1>9 DEF ModInv

LEMMA TakeMessageStays ==
    ASSUME ModInv, TakeMessage
    PROVE  ModInv'
<1>0. ModTables /\ PastOK /\ JoinedOK /\ RatesOK /\ HandOK /\ FiresTruly /\ AuditIsComplete
    BY DEF ModInv
<1> DEFINE n      == taken + 1
           m      == posts[n]
           key    == <<m.chat, m.from>>
           own    == RulesOf(m.chat)
           rated  == \E r \in own : r.rate > 0
           window == Recent(Lookup(rates, key, {}) \union {<<n, now>>})
           hits   == {r \in own : Matches(r, m, Cardinality(window))}
<1>1. /\ hand = Resting /\ taken < Len(posts) /\ taken' = n
      /\ now' = now /\ rules' = rules /\ posts' = posts /\ joins' = joins /\ joined' = joined
      /\ done' = done /\ journal' = journal /\ erased' = erased /\ welcomed' = welcomed
    BY DEF TakeMessage
<1>2. /\ now \in Nat /\ taken \in Nat /\ n \in Nat /\ n <= Len(posts)
      /\ posts \in Seq(Posted) /\ m \in Posted /\ key \in Keys
    <2>1. now \in Nat /\ taken \in Nat /\ posts \in Seq(Posted)
        BY <1>0 DEF ModTables
    <2>2. n \in 1..Len(posts) /\ n \in Nat /\ n <= Len(posts)
        BY <1>1, <2>1
    <2>3. m \in Posted
        BY <2>1, <2>2
    <2> QED
        BY <2>1, <2>2, <2>3 DEF Posted, Keys
<1>3. CASE m.chat \in engine.blocked
    <2>1. /\ engine' = engine /\ rates' = rates /\ hand' = hand /\ fired' = fired /\ seen' = seen
        BY <1>3 DEF TakeMessage
    <2> QED
        BY <1>0, <1>1, <1>2, <2>1, OthersStay DEF ModTables
<1>4. CASE m.chat \notin engine.blocked
    <2>1. /\ engine' = [engine EXCEPT !.loaded = TRUE, !.mine = Mine]
          /\ rates' = IF rated THEN Renewed(rates, key, window) ELSE rates
          /\ seen' = IF rated THEN seen \union {<<n, now>>} ELSE seen
          /\ \/ hits = {} /\ UNCHANGED <<hand, fired>>
             \/ \E r \in hits :
                   /\ fired' = fired \union {[message |-> n, rule |-> r, at |-> now]}
                   /\ hand' = IF r.actions = {} THEN Resting
                              ELSE [stage |-> "act", message |-> n, todo |-> r.actions]
        BY <1>4 DEF TakeMessage
    <2>2. /\ rates \in Seq(Entry(SUBSET (Nat \X Nat))) /\ engine \in Engines /\ rules \subseteq Rules
          /\ fired \subseteq Fired /\ seen \subseteq Nat \X Nat /\ IsFiniteSet(seen)
          /\ welcomed \subseteq Keys \X Nat
        BY <1>0 DEF ModTables
    <2>3. Mine \subseteq Rules /\ own \subseteq Rules
        BY <2>2 DEF Mine, RulesOf, Engines
    <2>4. engine' \in Engines
        BY <2>1, <2>2, <2>3 DEF Engines
    <2>5. KeyOf(n) = key
        BY DEF KeyOf
    <2>6. window \subseteq {s \in seen \union {<<n, now>>} : KeyOf(s[1]) = key /\ now - s[2] <= Window}
        <3> DEFINE old == Lookup(rates, key, {})
        <3>1. old \subseteq {s \in seen : KeyOf(s[1]) = key}
            <4>1. old = {} \/ \E e \in Entries(rates) : e.key = key /\ e.value = old
                BY LookupFinds
            <4> HIDE DEF old, key
            <4> QED
                BY <4>1, <1>0 DEF RatesOK
        <3> HIDE DEF old, key, n
        <3>2. <<n, now>>[1] = n
            OBVIOUS
        <3> QED
            BY <3>1, <3>2, <2>5 DEF Recent, old
    <2> HIDE DEF window, own, key, m, n
    <2>7. window \in SUBSET (Nat \X Nat)
        <3>1. <<n, now>> \in Nat \X Nat
            BY <1>2
        <3> QED
            BY <2>2, <2>6, <3>1
    <2>8. /\ seen \subseteq seen' /\ seen' \subseteq seen \union {<<n, now>>}
          /\ seen' \subseteq Nat \X Nat /\ IsFiniteSet(seen')
          /\ rated => window \subseteq seen'
        <3>1. IsFiniteSet(seen \union {<<n, now>>})
            BY <2>2, FS_AddElement
        <3> QED
            BY <1>2, <2>1, <2>2, <2>6, <3>1
    <2>9. /\ rates' \in Seq(Entry(SUBSET (Nat \X Nat)))
          /\ Entries(rates') \subseteq Entries(rates) \union {[key |-> key, value |-> window]}
          /\ ~rated => rates' = rates
        <3>1. CASE rated
            BY <3>1, <1>2, <2>1, <2>2, <2>7, RenewedKeeps
        <3> QED
            BY <3>1, <2>1, <2>2
    <2>10. RatesOK'
        <3>1. ASSUME NEW e \in Entries(rates')
              PROVE  e.value \subseteq {s \in seen' : KeyOf(s[1]) = e.key}
            <4>1. CASE e \in Entries(rates)
                BY <4>1, <1>0, <2>8 DEF RatesOK
            <4>2. CASE rated /\ e = [key |-> key, value |-> window]
                <5>1. e.key = key /\ e.value = window
                    BY <4>2
                <5> QED
                    BY <4>2, <5>1, <2>6, <2>8
            <4> QED
                BY <4>1, <4>2, <2>9
        <3> QED
            BY <1>1, <3>1 DEF RatesOK, KeyOf
    <2>11. JoinedOK'
        BY <1>0, <1>1 DEF JoinedOK
    <2>12. n = taken + 1 /\ \A f \in fired : f.message \in Nat /\ f.message > 0 /\ f.message < n
        BY <1>0, <1>2, <2>2 DEF PastOK, Fired, n
    <2>13. ASSUME NEW f \in fired
           PROVE  OftenEnough(f)' /\ NewEnough(f)'
        <3>1. OftenEnough(f) /\ NewEnough(f)
            BY <1>0, FiresOneByOne
        <3>2. \A s \in seen' : s[1] <= f.message => s \in seen
            <4>1. \A s \in seen' : s \in seen \/ s[1] = n
                BY <2>8
            <4>2. ~(n <= f.message)
                BY <1>2, <2>12
            <4> QED
                BY <4>1, <4>2
        <3>3. {s \in seen' : /\ posts[s[1]].from = posts[f.message].from
                             /\ posts[s[1]].chat = posts[f.message].chat
                             /\ s[1] <= f.message
                             /\ f.at - s[2] <= Window}
               = {s \in seen : /\ posts[s[1]].from = posts[f.message].from
                               /\ posts[s[1]].chat = posts[f.message].chat
                               /\ s[1] <= f.message
                               /\ f.at - s[2] <= Window}
            BY <2>8, <3>2
        <3>4. OftenEnough(f)'
            BY <1>1, <3>1, <3>3 DEF OftenEnough
        <3> QED
            BY <1>1, <3>1, <3>4 DEF NewEnough, KeyOf
    <2>14. /\ \A w \in welcomed' : w[2] <= now'
           /\ \A s \in seen' : s[1] > 0 /\ s[1] <= taken'
        <3>1. \A s \in seen : s[1] \in Nat /\ s[1] > 0 /\ s[1] <= taken
            BY <1>0, <2>2 DEF PastOK
        <3>2. \A s \in seen : s[1] > 0 /\ s[1] <= n
            BY <3>1, <1>2, <2>12
        <3>3. n > 0 /\ n <= n /\ <<n, now>>[1] = n
            BY <1>2, <2>12
        <3> QED
            BY <1>0, <1>1, <2>8, <3>2, <3>3 DEF PastOK
    <2>15. \A f \in fired : \A a \in f.rule.actions : Row(f.message, a) \in journal \union erased
        BY <1>0, <1>1 DEF AuditIsComplete
    <2>16. CASE hits = {} /\ UNCHANGED <<hand, fired>>
        <3>1. ModTables'
            BY <1>0, <1>1, <1>2, <2>2, <2>4, <2>8, <2>9, <2>16 DEF ModTables
        <3>2. PastOK'
            BY <1>1, <1>2, <2>12, <2>14, <2>16 DEF PastOK
        <3>3. FiresTruly'
            BY <2>13, <2>16, FiresAfter
        <3>4. HandOK' /\ AuditIsComplete'
            BY <1>0, <1>1, <2>16 DEF HandOK, AuditIsComplete, Row
        <3> QED
            BY <2>10, <2>11, <3>1, <3>2, <3>3, <3>4 DEF ModInv
    <2>17. ASSUME NEW r \in hits,
                  fired' = fired \union {[message |-> n, rule |-> r, at |-> now]},
                  hand' = IF r.actions = {} THEN Resting
                          ELSE [stage |-> "act", message |-> n, todo |-> r.actions]
           PROVE  ModInv'
        <3>0. PICK f : f = [message |-> n, rule |-> r, at |-> now]
            OBVIOUS
        <3>1. f.message = n /\ f.rule = r /\ f.at = now
            BY <3>0
        <3>2. /\ r \in own /\ r \in Rules /\ Matches(r, m, Cardinality(window))
              /\ r.actions \subseteq Actions /\ r.rate \in Nat /\ r.newWithin \in Nat
            BY <2>3, ModAssumption
        <3>3. f \in Fired
            BY <1>2, <3>0, <3>2 DEF Fired
        <3>4. /\ hand' \in {Resting} \union Hands
              /\ hand' # Resting => /\ hand'.todo # {} /\ hand'.todo = r.actions
                                    /\ hand'.message = n
              /\ r.actions # {} => hand' # Resting
            <4>1. CASE r.actions = {}
                BY <4>1, <2>17
            <4>2. CASE r.actions # {}
                <5>1. /\ hand' \in Hands /\ hand'.stage = "act" /\ hand'.todo = r.actions
                      /\ hand'.message = n
                    BY <4>2, <1>2, <2>17, <3>2 DEF Hands
                <5> QED
                    BY <4>2, <5>1 DEF Resting
            <4> QED
                BY <4>1, <4>2
        <3>5. fired' = fired \union {f}
            BY <2>17, <3>0
        <3>6. ModTables'
            BY <1>0, <1>1, <1>2, <2>2, <2>4, <2>8, <2>9, <3>3, <3>4, <3>5 DEF ModTables
        <3>7. PastOK'
            BY <1>1, <1>2, <2>12, <2>14, <3>1, <3>5 DEF PastOK
        <3>8. OftenEnough(f)'
            <4> SUFFICES ASSUME r.rate > 0
                         PROVE  Cardinality({s \in seen' : /\ posts[s[1]].from = posts[n].from
                                                           /\ posts[s[1]].chat = posts[n].chat
                                                           /\ s[1] <= n
                                                           /\ now - s[2] <= Window}) >= r.rate
                BY <1>1, <3>1 DEF OftenEnough
            <4> DEFINE T == {s \in seen' : /\ posts[s[1]].from = posts[n].from
                                           /\ posts[s[1]].chat = posts[n].chat
                                           /\ s[1] <= n
                                           /\ now - s[2] <= Window}
            <4>1. rated
                BY <3>2
            <4>2. Cardinality(window) >= r.rate
                BY <3>2 DEF Matches
            <4>3. window \subseteq T
                <5>1. \A s \in window : s \in seen' /\ KeyOf(s[1]) = KeyOf(n) /\ now - s[2] <= Window
                    BY <4>1, <2>5, <2>6, <2>8
                <5>2. \A s \in seen' : s[1] <= n
                    BY <1>1, <2>14
                <5> QED
                    BY <5>1, <5>2 DEF KeyOf
            <4>4. IsFiniteSet(T)
                BY <2>8, FS_Subset
            <4>5. Cardinality(window) <= Cardinality(T) /\ IsFiniteSet(window)
                BY <4>3, <4>4, FS_Subset
            <4>6. Cardinality(window) \in Nat /\ Cardinality(T) \in Nat
                BY <4>4, <4>5, FS_CardinalityType
            <4> QED
                BY <3>2, <4>2, <4>5, <4>6
        <3>9. NewEnough(f)'
            <4> SUFFICES ASSUME r.newWithin > 0
                         PROVE  \E w \in welcomed : /\ w[1] = KeyOf(n)
                                                    /\ w[2] <= now /\ now - w[2] <= r.newWithin
                BY <1>1, <3>1 DEF NewEnough, KeyOf
            <4> DEFINE at == Lookup(joined, key, -1)
            <4>1. at # -1 /\ now - at <= r.newWithin
                BY <3>2 DEF Matches, IsNew, key
            <4>2. \E e \in Entries(joined) : e.key = key /\ e.value = at
                BY <4>1, LookupFinds
            <4>3. <<key, at>> \in welcomed
                BY <4>2, <1>0 DEF JoinedOK
            <4> HIDE DEF at
            <4>4. at <= now
                BY <4>3, <1>0 DEF PastOK
            <4> QED
                BY <4>1, <4>3, <4>4, <2>5
        <3>10. FiresTruly'
            BY <2>13, <3>5, <3>8, <3>9, FiresAfter
        <3>11. HandOK'
            BY <3>1, <3>4, <3>5 DEF HandOK
        <3>12. AuditIsComplete'
            <4>1. ASSUME NEW g \in fired', NEW a \in g.rule.actions
                  PROVE  \/ Row(g.message, a) \in journal' \union erased'
                         \/ hand' # Resting /\ hand'.message = g.message /\ a \in hand'.todo
                <5>1. CASE g \in fired
                    BY <5>1, <1>1, <2>15
                <5>2. CASE g = f
                    BY <5>2, <3>1, <3>4
                <5> QED
                    BY <5>1, <5>2, <3>5
            <4>2. \A d \in done : \E g \in fired' : g.message = d.message /\ d.action \in g.rule.actions
                BY <1>0, <3>5 DEF AuditIsComplete
            <4> QED
                BY <1>1, <4>1, <4>2 DEF AuditIsComplete, Row
        <3> QED
            BY <2>10, <2>11, <3>6, <3>7, <3>10, <3>11, <3>12 DEF ModInv
    <2> QED
        BY <2>1, <2>16, <2>17
<1> QED
    BY <1>3, <1>4

LEMMA ModMoves == ModInv /\ [ModNext]_modVars => ModInv'
<1> SUFFICES ASSUME ModInv, [ModNext]_modVars PROVE ModInv'
    OBVIOUS
<1>0. ModTables
    BY DEF ModInv
<1>1. /\ now \in Nat /\ taken \in Nat /\ posts \in Seq(Posted) /\ taken <= Len(posts)
      /\ joins \in Seq(Keys) /\ rules \subseteq Rules /\ engine \in Engines
      /\ now <= now /\ taken <= taken /\ Len(posts) <= Len(posts) /\ Len(posts) \in Nat
    BY <1>0 DEF ModTables
<1>2. CASE Tick
    <2>1. now' = now + 1 /\ now' \in Nat /\ now <= now'
        BY <1>1, <1>2 DEF Tick
    <2> QED
        BY <1>1, <1>2, <2>1, OthersStay DEF Tick
<1>3. ASSUME NEW r \in Edited, AddRule(r) \/ RemoveRule(r) PROVE ModInv'
    <2>1. rules' \subseteq Rules
        BY <1>1, <1>3, ModAssumption DEF AddRule, RemoveRule
    <2>2. UNCHANGED <<now, engine, posts, taken, joins, joined, rates, hand, done, journal,
                      erased, fired, seen, welcomed>>
        BY <1>3 DEF AddRule, RemoveRule
    <2> QED
        BY <1>1, <2>1, <2>2, OthersStay
<1>4. ASSUME NEW c \in Chats, NEW u \in Users, NEW suspect \in BOOLEAN, Post(c, u, suspect)
      PROVE  ModInv'
    <2> DEFINE p == [chat |-> c, from |-> u, suspect |-> suspect]
    <2>1. posts' = Append(posts, p) /\ p \in Posted
        BY <1>4 DEF Post, Posted
    <2> HIDE DEF p
    <2>2. /\ posts' \in Seq(Posted) /\ Len(posts') = Len(posts) + 1
          /\ \A n \in 1..Len(posts) : posts'[n] = posts[n]
        BY <1>1, <2>1
    <2>3. /\ Len(posts) <= Len(posts') /\ taken <= Len(posts') /\ \A n \in 1..taken : posts'[n] = posts[n]
        BY <1>1, <2>2
    <2> QED
        BY <1>1, <1>4, <2>2, <2>3, OthersStay DEF Post
<1>5. ASSUME NEW c \in Chats, NEW u \in Users, Join(c, u)
      PROVE  ModInv'
    <2>1. joins' = Append(joins, <<c, u>>) /\ <<c, u>> \in Keys
        BY <1>5 DEF Join, Keys
    <2>2. joins' \in Seq(Keys)
        BY <1>1, <2>1
    <2> QED
        BY <1>1, <1>5, <2>2, OthersStay DEF Join
<1>6. CASE Start
    <2>1. engine' \in Engines
        BY <1>1, <1>6 DEF Start, Engines, Off
    <2> QED
        BY <1>1, <1>6, <2>1, OthersStay DEF Start
<1>7. CASE StopEngine
    <2>1. engine' \in Engines /\ taken' \in Nat /\ taken <= taken' /\ taken' <= Len(posts)
        BY <1>1, <1>7 DEF StopEngine, Engines, Off
    <2>2. joins' \in Seq(Keys)
        BY <1>7 DEF StopEngine
    <2>3. joined' = <<>> /\ rates' = <<>>
        BY <1>7 DEF StopEngine
    <2>4. /\ hand' = Resting
          /\ erased' = erased \union (IF hand = Resting THEN {}
                                      ELSE {Row(hand.message, a) : a \in hand.todo})
          /\ UNCHANGED <<now, rules, posts, done, journal, fired, seen, welcomed>>
        BY <1>7 DEF StopEngine
    <2> QED
        BY <1>1, <2>1, <2>2, <2>3, <2>4, OthersStay
<1>8. CASE ConsumeJoin
    BY <1>8, ConsumeJoinStays
<1>9. CASE TakeMessage
    BY <1>9, TakeMessageStays
<1>10. CASE LoadFails
    <2>1. taken' = taken + 1 /\ taken < Len(posts)
        BY <1>10 DEF LoadFails
    <2>2. taken' \in Nat /\ taken <= taken' /\ taken' <= Len(posts)
        BY <1>1, <2>1
    <2> QED
        BY <1>1, <1>10, <2>2, OthersStay DEF LoadFails
<1>11. CASE Act
    BY <1>11, ActStays
<1>12. CASE Journal
    BY <1>12, JournalStays
<1>13. CASE UNCHANGED modVars
    BY <1>1, <1>13, OthersStay DEF modVars
<1> QED
    BY <1>2, <1>3, <1>4, <1>5, <1>6, <1>7, <1>8, <1>9, <1>10, <1>11, <1>12, <1>13 DEF ModNext

-----------------------------------------------------------------------------
(* The theorems *)

\* A rate rule acts only on a sender seen often enough within the window, a newcomer
\* rule only on one who joined within its limit (_record_rate_window, _is_new_member),
\* whatever the caches' sizes, the edits of the rules and the restarts.
THEOREM NeverOverModerates == ModSpec => []FiresTruly
<1>1. ModInv => FiresTruly
    BY DEF ModInv
<1> QED
    BY <1>1, ModBegins, ModMoves, PTL DEF ModSpec

\* Every action of a rule that fired is journaled, done or failed, unless its entry could
\* not be written or is still to come, and nothing is done that no rule asked for (_do,
\* _journal).
THEOREM TrailIsComplete == ModSpec => []AuditIsComplete
<1>1. ModInv => AuditIsComplete
    BY DEF ModInv
<1> QED
    BY <1>1, ModBegins, ModMoves, PTL DEF ModSpec
=============================================================================
