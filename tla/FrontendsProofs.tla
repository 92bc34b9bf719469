--------------------------- MODULE FrontendsProofs ---------------------------
(***************************************************************************)
(* Proofs about the frontends and the client they call, for any dialogs,   *)
(* callers, tabs and bounds.                                               *)
(***************************************************************************)
EXTENDS Client, TuiSidebar, TuiComposer, ChatRepl, WebChat, TuiHistory, FiniteSetTheorems,
        WellFoundedInduction, TLAPS

-----------------------------------------------------------------------------
(* The client wrapper: the invariant *)

Idles == {NoCall}
Reads == [at : {"read"}, peer : Peers, since : Nat, must : Nat]
Writes == [at : {"attempt"}, kind : {"send", "forward", "edit"}, peer : Peers, from : Peers]
Deletes == [at : {"validate", "attempt"}, kind : {"delete"}, peer : Peers, id : Int, forMe : BOOLEAN]
Answers == [at : {"landed"}, kind : {"send", "forward", "edit", "delete"},
            peer : Peers, from : Peers, change : Nat]
ClientCalls == Idles \union Reads \union Writes \union Deletes \union Answers

ClientTypes ==
    /\ dialog \in [Peers -> SUBSET Int]
    /\ issued \in [Peers -> Int]
    /\ changes \in [Peers -> Nat]
    /\ invalidated \in [Peers -> Nat]
    /\ known \in [Peers -> Nat]
    /\ request \in [Requesters -> ClientCalls]
    /\ events \subseteq [peer : Peers, named : BOOLEAN, change : Nat]

\* What anyone was told of a dialog, its pages were invalidated for.
KnownIsInvalidated ==
    \A p \in Peers : known[p] <= invalidated[p] /\ invalidated[p] <= changes[p]

\* A read may be served from what was cached since its dialog was invalidated;
\* a change that is about to be told of has been made.
CallsInTime ==
    \A c \in Requesters :
        /\ request[c].at = "read" =>
              request[c].must <= request[c].since /\ request[c].since <= changes[request[c].peer]
        /\ request[c].at = "landed" => request[c].change <= changes[request[c].peer]

EventsInTime == \A e \in events : e.change <= changes[e.peer]

\* Dialogs numbered together have the same newest id and no message in common.
IdsOK ==
    /\ \A p \in Peers : \A i \in dialog[p] : i <= issued[p]
    /\ \A p, q \in Private : issued[p] = issued[q]

\* A deletion under way was validated: whoever bears the id, now or later, is
\* the dialog that was asked.
DeleteSafe(r) ==
    r.at \in {"validate", "attempt"} /\ r.kind = "delete" =>
        /\ r.peer \in Channels => ~ r.forMe
        /\ r.at = "attempt" =>
              /\ r.id <= issued[r.peer]
              /\ \A q \in Numbered(r.peer) : r.id \in dialog[q] => q = r.peer

DeletesOK == \A c \in Requesters : DeleteSafe(request[c])

-----------------------------------------------------------------------------
(* The client wrapper: how a step changes its tables *)

LEMMA CallKinds ==
    ASSUME NEW r \in ClientCalls
    PROVE  /\ r.at \in {"idle", "read", "attempt", "validate", "landed"}
           /\ r.at = "read" => r \in Reads
           /\ r.at = "validate" => r \in Deletes /\ r.kind = "delete"
           /\ r.at = "attempt" => r \in Writes \union Deletes
           /\ r.at = "attempt" /\ r.kind = "delete" => r \in Deletes
           /\ r.at = "attempt" /\ r.kind # "delete" => r \in Writes
           /\ r.at = "landed" => r \in Answers
BY DEF ClientCalls, Idles, NoCall, Reads, Writes, Deletes, Answers

LEMMA CallStep ==
    ASSUME request \in [Requesters -> ClientCalls],
           NEW c \in Requesters, NEW v \in ClientCalls,
           request' = [request EXCEPT ![c] = v]
    PROVE  /\ request' \in [Requesters -> ClientCalls]
           /\ request'[c] = v
           /\ \A d \in Requesters : d # c => request'[d] = request[d]
OBVIOUS

LEMMA ChangedGrows ==
    ASSUME changes \in [Peers -> Nat], NEW ps, changes' = Changed(ps)
    PROVE  /\ changes' \in [Peers -> Nat]
           /\ \A p \in Peers : changes[p] <= changes'[p]
           /\ \A p \in Peers \intersect ps : changes'[p] = changes[p] + 1
BY DEF Changed

LEMMA DroppedUpTo ==
    ASSUME changes \in [Peers -> Nat], invalidated \in [Peers -> Nat],
           \A p \in Peers : invalidated[p] <= changes[p],
           NEW ps, invalidated' = Dropped(ps)
    PROVE  /\ invalidated' \in [Peers -> Nat]
           /\ \A p \in Peers : invalidated[p] <= invalidated'[p] /\ invalidated'[p] <= changes[p]
           /\ \A p \in Peers \intersect ps : invalidated'[p] = changes[p]
BY DEF Dropped

\* Being told of a change of p raises what is known of p alone, and not past
\* an invalidation at the same moment.
LEMMA ToldOf ==
    ASSUME changes \in [Peers -> Nat], invalidated \in [Peers -> Nat], known \in [Peers -> Nat],
           KnownIsInvalidated, UNCHANGED changes,
           NEW ps, invalidated' = Dropped(ps),
           NEW p \in Peers \intersect ps, NEW n \in Nat, n <= changes[p],
           known' = [known EXCEPT ![p] = Latest(@, n)]
    PROVE  /\ invalidated' \in [Peers -> Nat]
           /\ known' \in [Peers -> Nat]
           /\ KnownIsInvalidated'
<1>1. /\ invalidated' \in [Peers -> Nat]
      /\ \A q \in Peers : invalidated[q] <= invalidated'[q] /\ invalidated'[q] <= changes[q]
      /\ invalidated'[p] = changes[p]
    BY DroppedUpTo DEF KnownIsInvalidated
<1>2. Latest(known[p], n) \in Nat /\ Latest(known[p], n) <= changes[p]
    BY DEF Latest, KnownIsInvalidated
<1>3. /\ known' \in [Peers -> Nat]
      /\ known'[p] <= changes[p]
      /\ \A q \in Peers : q # p => known'[q] = known[q]
    BY <1>2
<1>4. QED
    BY <1>1, <1>3 DEF KnownIsInvalidated

LEMMA GrowStep ==
    ASSUME ClientTypes, NEW p \in Peers, Grow(p)
    PROVE  /\ dialog' \in [Peers -> SUBSET Int]
           /\ issued' \in [Peers -> Int]
           /\ \A q \in Peers : issued'[q] = IF q \in Numbered(p) THEN issued[q] + 1 ELSE issued[q]
           /\ p \in Numbered(p)
           /\ dialog'[p] = dialog[p] \union {issued[p] + 1}
           /\ \A q \in Peers : q # p => dialog'[q] = dialog[q]
           /\ changes' = Changed({p})
           /\ events' = events \union {Event(p, FALSE)}
<1>1. p \in Numbered(p)
    BY DEF Numbered
<1>2. /\ issued' = [q \in Peers |-> IF q \in Numbered(p) THEN issued[q] + 1 ELSE issued[q]]
      /\ dialog' = [dialog EXCEPT ![p] = @ \union {issued'[p]}]
      /\ changes' = Changed({p})
      /\ events' = events \union {Event(p, FALSE)}
      /\ issued \in [Peers -> Int]
      /\ dialog \in [Peers -> SUBSET Int]
    BY DEF Grow, ClientTypes
<1>3. /\ issued' \in [Peers -> Int]
      /\ issued'[p] = issued[p] + 1
    BY <1>1, <1>2
<1>4. dialog' = [dialog EXCEPT ![p] = @ \union {issued[p] + 1}]
    BY <1>2, <1>3
<1>5. QED
    BY <1>1, <1>2, <1>3, <1>4

-----------------------------------------------------------------------------
(* The client wrapper: types *)

PagesInv == ClientTypes /\ KnownIsInvalidated /\ CallsInTime /\ EventsInTime /\ NothingGoesMissing
DeletesInv == ClientTypes /\ IdsOK /\ DeletesOK /\ DeletesAsAsked

LEMMA EventTypes ==
    ASSUME changes \in [Peers -> Nat], NEW p \in Peers, NEW d \in BOOLEAN
    PROVE  /\ Event(p, d) \in [peer : Peers, named : BOOLEAN, change : Nat]
           /\ Event(p, d).peer = p
           /\ Event(p, d).change = changes[p] + 1
BY DEF Event

\* What a call becomes when its request has landed.
LEMMA LandedStep ==
    ASSUME ClientTypes, NEW c \in Requesters, request[c].at = "attempt",
           changes' \in [Peers -> Nat], Landed(c)
    PROVE  \E v \in Answers :
              /\ request' = [request EXCEPT ![c] = v]
              /\ v.at = "landed" /\ v.peer = request[c].peer
              /\ v.change = changes'[v.peer] /\ v.peer \in Peers
<1> DEFINE v == [at |-> "landed", kind |-> request[c].kind, peer |-> request[c].peer,
                 from |-> IF request[c].kind = "forward" THEN request[c].from ELSE request[c].peer,
                 change |-> changes'[request[c].peer]]
<1>1. request[c] \in Writes \union Deletes
    BY CallKinds DEF ClientTypes
<1>2. /\ request[c].peer \in Peers
      /\ request[c].kind \in {"send", "forward", "edit", "delete"}
      /\ request[c].kind = "forward" => request[c].from \in Peers
    BY <1>1 DEF Writes, Deletes
<1>3. v \in Answers
    BY <1>2 DEF Answers
<1>4. request' = [request EXCEPT ![c] = v]
    BY DEF Landed
<1>5. QED
    BY <1>2, <1>3, <1>4

LEMMA ClientTypesInit == ClientInit => ClientTypes
BY DEF ClientInit, ClientTypes, ClientCalls, Idles

\* A call that ends, and a call that begins, leave the rest alone.
LEMMA EndsTyped ==
    ASSUME ClientTypes, NEW c \in Requesters, NEW v \in ClientCalls,
           request' = [request EXCEPT ![c] = v],
           UNCHANGED <<dialog, issued, changes, invalidated, known, events>>
    PROVE  ClientTypes'
<1>1. request' \in [Requesters -> ClientCalls]
    BY CallStep DEF ClientTypes
<1>2. QED
    BY <1>1 DEF ClientTypes

LEMMA NoCallIsCall == NoCall \in ClientCalls
BY DEF ClientCalls, Idles

LEMMA BeginReadStep ==
    ASSUME ClientTypes, NEW c \in Requesters, NEW p \in Peers, BeginRead(c, p) \/ BeginFresh(c, p)
    PROVE  \E v \in Reads :
              /\ request' = [request EXCEPT ![c] = v]
              /\ v.at = "read" /\ v.peer = p /\ v.must = known[p]
              /\ v.since \in {invalidated[p], changes[p]}
              /\ v \in ClientCalls
<1>1. /\ invalidated[p] \in Nat /\ known[p] \in Nat /\ changes[p] \in Nat
    BY DEF ClientTypes
<1>2. CASE BeginRead(c, p)
  <2> DEFINE v == [at |-> "read", peer |-> p, since |-> invalidated[p], must |-> known[p]]
  <2>1. v \in Reads /\ v \in ClientCalls
      BY <1>1 DEF Reads, ClientCalls
  <2>2. request' = [request EXCEPT ![c] = v]
      BY <1>2 DEF BeginRead
  <2>3. QED
      BY <2>1, <2>2
<1>3. CASE BeginFresh(c, p)
  <2> DEFINE v == [at |-> "read", peer |-> p, since |-> changes[p], must |-> known[p]]
  <2>1. v \in Reads /\ v \in ClientCalls
      BY <1>1 DEF Reads, ClientCalls
  <2>2. request' = [request EXCEPT ![c] = v]
      BY <1>3 DEF BeginFresh
  <2>3. QED
      BY <2>1, <2>2
<1>4. QED
    BY <1>2, <1>3

LEMMA BeginWriteStep ==
    ASSUME NEW c \in Requesters, BeginWrite(c)
    PROVE  \E v \in Writes : v \in ClientCalls /\ request' = [request EXCEPT ![c] = v]
<1>1. PICK p \in Peers, q \in Peers, k \in {"send", "forward", "edit"} :
         request' = [request EXCEPT ![c] = [at |-> "attempt", kind |-> k, peer |-> p, from |-> q]]
    BY DEF BeginWrite
<1> DEFINE v == [at |-> "attempt", kind |-> k, peer |-> p, from |-> q]
<1>2. v \in Writes /\ v \in ClientCalls
    BY DEF Writes, ClientCalls
<1>3. QED
    BY <1>1, <1>2

LEMMA BeginDeleteStep ==
    ASSUME NEW c \in Requesters, BeginDelete(c)
    PROVE  \E v \in Deletes :
              /\ v \in ClientCalls
              /\ request' = [request EXCEPT ![c] = v]
              /\ v.at = "validate"
              /\ v.peer \in Channels => ~ v.forMe
<1>1. PICK p \in Peers, id \in Ids, forMe \in BOOLEAN :
         /\ ~ ForMeRefused(p, forMe)
         /\ request' = [request EXCEPT ![c] =
               [at |-> "validate", kind |-> "delete", peer |-> p, id |-> id, forMe |-> forMe]]
    BY DEF BeginDelete
<1> DEFINE v == [at |-> "validate", kind |-> "delete", peer |-> p, id |-> id, forMe |-> forMe]
<1>2. id \in Int
    BY DEF Ids
<1>3. v \in Deletes /\ v \in ClientCalls
    BY <1>2 DEF Deletes, ClientCalls
<1>4. v.peer \in Channels => ~ v.forMe
    BY <1>1 DEF ForMeRefused
<1>5. QED
    BY <1>1, <1>3, <1>4

LEMMA ValidateStep ==
    ASSUME ClientTypes, NEW c \in Requesters, Validate(c)
    PROVE  \E v \in ClientCalls :
              /\ request' = [request EXCEPT ![c] = v]
              /\ \/ v = NoCall
                 \/ /\ Valid(request[c].peer, request[c].id)
                    /\ v \in Deletes /\ v.at = "attempt" /\ v.peer = request[c].peer
                    /\ v.id = request[c].id /\ v.forMe = request[c].forMe
              /\ request[c].kind = "delete" /\ request[c] \in Deletes
<1>1. request[c] \in Deletes /\ request[c].kind = "delete" /\ request[c].at = "validate"
    BY CallKinds DEF ClientTypes, Validate
<1>2. CASE Valid(request[c].peer, request[c].id)
  <2> DEFINE v == [request[c] EXCEPT !.at = "attempt"]
  <2>1. /\ v \in Deletes /\ v.at = "attempt" /\ v.peer = request[c].peer
        /\ v.id = request[c].id /\ v.forMe = request[c].forMe
      BY <1>1 DEF Deletes
  <2>2. request' = [request EXCEPT ![c] = v]
      BY <1>2 DEF Validate, ClientTypes
  <2>3. v \in ClientCalls
      BY <2>1 DEF ClientCalls
  <2>4. QED
      BY <1>1, <1>2, <2>1, <2>2, <2>3
<1>3. CASE ~ Valid(request[c].peer, request[c].id)
    BY <1>1, <1>3, NoCallIsCall DEF Validate
<1>4. QED
    BY <1>2, <1>3

-----------------------------------------------------------------------------
(* The client wrapper: pages *)

LEMMA PagesInitInv == ClientInit => PagesInv
<1> SUFFICES ASSUME ClientInit PROVE PagesInv
    OBVIOUS
<1>1. ClientTypes
    BY ClientTypesInit
<1>2. KnownIsInvalidated /\ CallsInTime /\ EventsInTime /\ NothingGoesMissing
    BY DEF ClientInit, NoCall, KnownIsInvalidated, CallsInTime, EventsInTime, NothingGoesMissing
<1>3. QED
    BY <1>1, <1>2 DEF PagesInv

\* The calls that are under way stay in time while changes are only added.
LEMMA CallsStayInTime ==
    ASSUME ClientTypes, CallsInTime,
           changes' \in [Peers -> Nat], \A p \in Peers : changes[p] <= changes'[p],
           NEW d \in Requesters, request'[d] = request[d]
    PROVE  /\ request'[d].at = "read" =>
                 request'[d].must <= request'[d].since /\ request'[d].since <= changes'[request'[d].peer]
           /\ request'[d].at = "landed" => request'[d].change <= changes'[request'[d].peer]
<1>1. changes \in [Peers -> Nat] /\ request[d] \in ClientCalls
    BY DEF ClientTypes
<1>2. CASE request[d].at = "read"
  <2>1. request[d].peer \in Peers /\ request[d].since \in Nat
      BY <1>1, <1>2, CallKinds DEF Reads
  <2>2. request[d].must <= request[d].since /\ request[d].since <= changes[request[d].peer]
      BY <1>2 DEF CallsInTime
  <2>3. request[d].since <= changes'[request[d].peer]
      BY <2>1, <2>2, <1>1
  <2>4. QED
      BY <1>2, <2>2, <2>3
<1>3. CASE request[d].at = "landed"
  <2>1. request[d].peer \in Peers /\ request[d].change \in Nat
      BY <1>1, <1>3, CallKinds DEF Answers
  <2>2. request[d].change <= changes[request[d].peer]
      BY <1>3 DEF CallsInTime
  <2>3. request[d].change <= changes'[request[d].peer]
      BY <2>1, <2>2, <1>1
  <2>4. QED
      BY <1>3, <2>3
<1>4. QED
    BY <1>2, <1>3

LEMMA CallInTime ==
    ASSUME ClientTypes, CallsInTime,
           changes' \in [Peers -> Nat], \A p \in Peers : changes[p] <= changes'[p],
           NEW c \in Requesters, NEW v \in ClientCalls, request' = [request EXCEPT ![c] = v],
           v.at = "read" => v.must <= v.since /\ v.since <= changes'[v.peer],
           v.at = "landed" => v.change <= changes'[v.peer]
    PROVE  CallsInTime'
<1>1. /\ request'[c] = v
      /\ \A d \in Requesters : d # c => request'[d] = request[d]
    BY CallStep DEF ClientTypes
<1>2. \A d \in Requesters :
         /\ request'[d].at = "read" =>
               request'[d].must <= request'[d].since /\ request'[d].since <= changes'[request'[d].peer]
         /\ request'[d].at = "landed" => request'[d].change <= changes'[request'[d].peer]
    BY <1>1, CallsStayInTime
<1>3. QED
    BY <1>2 DEF CallsInTime

LEMMA EventsStayInTime ==
    ASSUME ClientTypes, EventsInTime,
           changes' \in [Peers -> Nat], \A p \in Peers : changes[p] <= changes'[p],
           \A e \in events' \ events :
              e \in [peer : Peers, named : BOOLEAN, change : Nat] /\ e.change <= changes'[e.peer]
    PROVE  EventsInTime' /\ events' \subseteq [peer : Peers, named : BOOLEAN, change : Nat]
<1>1. /\ changes \in [Peers -> Nat]
      /\ events \subseteq [peer : Peers, named : BOOLEAN, change : Nat]
    BY DEF ClientTypes
<1>2. ASSUME NEW e \in events
      PROVE  e.change <= changes'[e.peer]
  <2>1. e.peer \in Peers /\ e.change \in Nat /\ e.change <= changes[e.peer]
      BY <1>1 DEF EventsInTime
  <2>2. QED
      BY <2>1, <1>1
<1>3. QED
    BY <1>1, <1>2 DEF EventsInTime

LEMMA KnownStays ==
    ASSUME ClientTypes, KnownIsInvalidated,
           changes' \in [Peers -> Nat], \A p \in Peers : changes[p] <= changes'[p],
           UNCHANGED <<invalidated, known>>
    PROVE  KnownIsInvalidated'
BY DEF ClientTypes, KnownIsInvalidated

\* A step in which Telegram changes dialogs, and at most one call goes on.
LEMMA TelegramStep ==
    ASSUME PagesInv, dialog' \in [Peers -> SUBSET Int], issued' \in [Peers -> Int],
           changes' \in [Peers -> Nat], \A p \in Peers : changes[p] <= changes'[p],
           \A e \in events' \ events :
              e \in [peer : Peers, named : BOOLEAN, change : Nat] /\ e.change <= changes'[e.peer],
           UNCHANGED <<invalidated, known, page>>,
           \/ UNCHANGED request
           \/ \E c \in Requesters, v \in ClientCalls :
                 /\ request' = [request EXCEPT ![c] = v]
                 /\ v.at = "read" => v.must <= v.since /\ v.since <= changes'[v.peer]
                 /\ v.at = "landed" => v.change <= changes'[v.peer]
    PROVE  PagesInv'
<1>0. ClientTypes /\ KnownIsInvalidated /\ CallsInTime /\ EventsInTime /\ NothingGoesMissing
    BY DEF PagesInv
<1>1. KnownIsInvalidated'
    BY <1>0, KnownStays
<1>2. EventsInTime' /\ events' \subseteq [peer : Peers, named : BOOLEAN, change : Nat]
    BY <1>0, EventsStayInTime
<1>3. NothingGoesMissing'
    BY <1>0 DEF NothingGoesMissing
<1>4. CallsInTime' /\ request' \in [Requesters -> ClientCalls]
  <2>1. CASE UNCHANGED request
    <3>1. \A d \in Requesters :
             /\ request'[d].at = "read" =>
                   request'[d].must <= request'[d].since /\ request'[d].since <= changes'[request'[d].peer]
             /\ request'[d].at = "landed" => request'[d].change <= changes'[request'[d].peer]
        BY <1>0, <2>1, CallsStayInTime
    <3>2. QED
        BY <1>0, <2>1, <3>1 DEF CallsInTime, ClientTypes
  <2>2. CASE ~ UNCHANGED request
    <3>1. PICK c \in Requesters, v \in ClientCalls :
             /\ request' = [request EXCEPT ![c] = v]
             /\ v.at = "read" => v.must <= v.since /\ v.since <= changes'[v.peer]
             /\ v.at = "landed" => v.change <= changes'[v.peer]
        BY <2>2
    <3>2. CallsInTime'
        BY <1>0, <3>1, CallInTime
    <3>3. request' \in [Requesters -> ClientCalls]
        BY <1>0, <3>1, CallStep DEF ClientTypes
    <3>4. QED
        BY <3>2, <3>3
  <2>3. QED
      BY <2>1, <2>2
<1>5. invalidated' \in [Peers -> Nat] /\ known' \in [Peers -> Nat]
    BY <1>0 DEF ClientTypes
<1>6. ClientTypes'
    BY <1>2, <1>4, <1>5 DEF ClientTypes
<1>7. QED
    BY <1>1, <1>2, <1>3, <1>4, <1>6 DEF PagesInv

\* A step of one call, or of a handler, that leaves Telegram alone.
LEMMA CallOnly ==
    ASSUME PagesInv, NEW c \in Requesters, NEW v \in ClientCalls,
           request' = [request EXCEPT ![c] = v],
           v.at = "read" => v.must <= v.since /\ v.since <= changes[v.peer],
           v.at # "landed",
           UNCHANGED <<dialog, issued, changes, invalidated, known, events, page>>
    PROVE  PagesInv'
<1>1. /\ dialog' \in [Peers -> SUBSET Int] /\ issued' \in [Peers -> Int]
      /\ changes' \in [Peers -> Nat] /\ changes' = changes
      /\ \A p \in Peers : changes[p] <= changes'[p]
    BY DEF PagesInv, ClientTypes
<1>2. QED
    BY <1>1, TelegramStep

LEMMA PagesStepInv == PagesInv /\ [ClientNext]_clientVars => PagesInv'
<1> SUFFICES ASSUME PagesInv, [ClientNext]_clientVars PROVE PagesInv'
    OBVIOUS
<1>0. ClientTypes /\ KnownIsInvalidated /\ CallsInTime /\ EventsInTime /\ NothingGoesMissing
    BY DEF PagesInv
<1>1. /\ changes \in [Peers -> Nat] /\ invalidated \in [Peers -> Nat] /\ known \in [Peers -> Nat]
      /\ dialog \in [Peers -> SUBSET Int] /\ issued \in [Peers -> Int]
      /\ \A c \in Requesters : request[c] \in ClientCalls
      /\ events \subseteq [peer : Peers, named : BOOLEAN, change : Nat]
      /\ request \in [Requesters -> ClientCalls]
    BY <1>0 DEF ClientTypes
<1>2. ASSUME NEW p \in Peers, Grow(p)
      PROVE  /\ dialog' \in [Peers -> SUBSET Int] /\ issued' \in [Peers -> Int]
             /\ changes' \in [Peers -> Nat] /\ \A q \in Peers : changes[q] <= changes'[q]
             /\ \A e \in events' \ events :
                  e \in [peer : Peers, named : BOOLEAN, change : Nat] /\ e.change <= changes'[e.peer]
  <2>1. /\ dialog' \in [Peers -> SUBSET Int] /\ issued' \in [Peers -> Int]
        /\ changes' = Changed({p})
        /\ events' = events \union {Event(p, FALSE)}
      BY <1>0, <1>2, GrowStep
  <2>2. /\ changes' \in [Peers -> Nat] /\ \A q \in Peers : changes[q] <= changes'[q]
        /\ changes'[p] = changes[p] + 1
      BY <1>1, <2>1, ChangedGrows
  <2>3. /\ Event(p, FALSE) \in [peer : Peers, named : BOOLEAN, change : Nat]
        /\ Event(p, FALSE).change <= changes'[Event(p, FALSE).peer]
    <3>1. /\ Event(p, FALSE) \in [peer : Peers, named : BOOLEAN, change : Nat]
          /\ Event(p, FALSE).peer = p
          /\ Event(p, FALSE).change = changes[p] + 1
        BY <1>1, EventTypes
    <3>2. changes[p] + 1 <= changes'[p]
        BY <1>1, <2>2
    <3>3. Event(p, FALSE).change <= changes'[Event(p, FALSE).peer]
        BY ONLY <3>1, <3>2
    <3>4. QED
        BY <3>1, <3>3
  <2>4. QED
      BY <2>1, <2>2, <2>3
<1>3. ASSUME NEW p \in Peers, NewMessage(p) PROVE PagesInv'
  <2>1. Grow(p) /\ UNCHANGED <<invalidated, known, request, page>>
      BY <1>3 DEF NewMessage
  <2>2. QED
      BY <1>2, <2>1, TelegramStep
<1>4. ASSUME NEW c \in Requesters, NEW p \in Peers, BeginRead(c, p) \/ BeginFresh(c, p)
      PROVE  PagesInv'
  <2>1. PICK v \in Reads :
           /\ request' = [request EXCEPT ![c] = v]
           /\ v.at = "read" /\ v.peer = p /\ v.must = known[p]
           /\ v.since \in {invalidated[p], changes[p]}
           /\ v \in ClientCalls
      BY <1>0, <1>4, BeginReadStep
  <2>2. v.must <= v.since /\ v.since <= changes[v.peer]
      BY <1>0, <1>1, <2>1 DEF KnownIsInvalidated
  <2>3. UNCHANGED <<dialog, issued, changes, invalidated, known, events, page>>
      BY <1>4 DEF BeginRead, BeginFresh
  <2>4. QED
      BY <2>1, <2>2, <2>3, CallOnly
<1>5. ASSUME NEW c \in Requesters, EndRead(c) PROVE PagesInv'
  <2>1. PICK n \in request[c].since..changes[request[c].peer] : page' = <<n, request[c].must>>
      BY <1>5 DEF EndRead
  <2>2. request[c] \in Reads /\ request[c].must <= request[c].since
      BY <1>0, <1>1, <1>5, CallKinds DEF EndRead, CallsInTime
  <2>3. request[c].since \in Nat /\ request[c].must \in Nat /\ changes[request[c].peer] \in Nat
      BY <1>1, <2>2 DEF Reads
  <2>4. page'[1] >= page'[2]
      BY <2>1, <2>2, <2>3
  <2>5. request' = [request EXCEPT ![c] = NoCall]
      BY <1>5 DEF EndRead
  <2>6. NoCall.at = "idle" /\ NoCall \in ClientCalls
      BY NoCallIsCall DEF NoCall
  <2>7. UNCHANGED <<dialog, issued, changes, invalidated, known, events>>
      BY <1>5 DEF EndRead
  <2>8. CallsInTime'
    <3>1. /\ changes' \in [Peers -> Nat] /\ \A p \in Peers : changes[p] <= changes'[p]
        BY <1>1, <2>7
    <3>2. NoCall.at # "read" /\ NoCall.at # "landed"
        BY <2>6
    <3>3. QED
        BY <1>0, <2>5, <2>6, <3>1, <3>2, CallInTime
  <2>9. ClientTypes'
      BY <1>0, <2>5, <2>6, <2>7, EndsTyped
  <2>10. KnownIsInvalidated' /\ EventsInTime'
      BY <1>0, <2>7 DEF KnownIsInvalidated, EventsInTime
  <2>11. QED
      BY <2>4, <2>8, <2>9, <2>10 DEF PagesInv, NothingGoesMissing
<1>6. ASSUME NEW c \in Requesters, BeginWrite(c) PROVE PagesInv'
  <2>1. PICK v \in Writes : v \in ClientCalls /\ request' = [request EXCEPT ![c] = v]
      BY <1>6, BeginWriteStep
  <2>2. v.at = "attempt"
      BY <2>1 DEF Writes
  <2>3. UNCHANGED <<dialog, issued, changes, invalidated, known, events, page>>
      BY <1>6 DEF BeginWrite
  <2>4. QED
      BY <2>1, <2>2, <2>3, CallOnly
<1>7. ASSUME NEW c \in Requesters, BeginDelete(c) PROVE PagesInv'
  <2>1. PICK v \in Deletes :
           v \in ClientCalls /\ request' = [request EXCEPT ![c] = v] /\ v.at = "validate"
      BY <1>7, BeginDeleteStep
  <2>2. UNCHANGED <<dialog, issued, changes, invalidated, known, events, page>>
      BY <1>7 DEF BeginDelete
  <2>3. QED
      BY <2>1, <2>2, CallOnly
<1>8. ASSUME NEW c \in Requesters, Validate(c) PROVE PagesInv'
  <2>1. PICK v \in ClientCalls :
           /\ request' = [request EXCEPT ![c] = v]
           /\ v = NoCall \/ v.at = "attempt"
      BY <1>0, <1>8, ValidateStep
  <2>2. v.at # "read" /\ v.at # "landed"
      BY <2>1 DEF NoCall
  <2>3. UNCHANGED <<dialog, issued, changes, invalidated, known, events, page>>
      BY <1>8 DEF Validate
  <2>4. QED
      BY <2>1, <2>2, <2>3, CallOnly
<1>9. ASSUME NEW c \in Requesters, Refused(c) \/ AnswerLost(c) PROVE PagesInv'
  <2>1. /\ request' = [request EXCEPT ![c] = NoCall]
        /\ UNCHANGED <<dialog, issued, changes, invalidated, known, events, page>>
      BY <1>9 DEF Refused, AnswerLost
  <2>2. NoCall.at = "idle" /\ NoCall \in ClientCalls
      BY NoCallIsCall DEF NoCall
  <2>3. QED
      BY <2>1, <2>2, CallOnly
<1>10. ASSUME NEW c \in Requesters, request[c].at = "attempt", Landed(c),
              changes' \in [Peers -> Nat], NEW p \in Peers
       PROVE  \E v \in ClientCalls :
                 /\ request' = [request EXCEPT ![c] = v]
                 /\ v.at = "read" => v.must <= v.since /\ v.since <= changes'[v.peer]
                 /\ v.at = "landed" => v.change <= changes'[v.peer]
  <2>1. PICK v \in Answers :
           /\ request' = [request EXCEPT ![c] = v]
           /\ v.at = "landed" /\ v.peer = request[c].peer
           /\ v.change = changes'[v.peer] /\ v.peer \in Peers
      BY <1>0, <1>10, LandedStep
  <2>2. v \in ClientCalls /\ v.change <= changes'[v.peer]
      BY <1>10, <2>1 DEF ClientCalls
  <2>3. QED
      BY <2>1, <2>2
<1>11. ASSUME NEW c \in Requesters, request[c].at = "attempt" PROVE request[c].peer \in Peers
    BY <1>1, <1>11, CallKinds DEF Writes, Deletes
<1>12. ASSUME NEW c \in Requesters, LandMessage(c) PROVE PagesInv'
  <2>1. /\ request[c].at = "attempt" /\ Grow(request[c].peer) /\ Landed(c)
        /\ UNCHANGED <<invalidated, known, page>>
      BY <1>12 DEF LandMessage
  <2>2. request[c].peer \in Peers
      BY <1>11, <2>1
  <2>3. QED
      BY <1>2, <1>10, <2>1, <2>2, TelegramStep
<1>13. ASSUME NEW c \in Requesters, LandEdit(c) PROVE PagesInv'
  <2>1. /\ request[c].at = "attempt" /\ Landed(c)
        /\ changes' = Changed({request[c].peer})
        /\ UNCHANGED <<dialog, issued, invalidated, known, events, page>>
      BY <1>13 DEF LandEdit
  <2>2. request[c].peer \in Peers
      BY <1>11, <2>1
  <2>3. changes' \in [Peers -> Nat] /\ \A q \in Peers : changes[q] <= changes'[q]
      BY <1>1, <2>1, ChangedGrows
  <2>4. dialog' \in [Peers -> SUBSET Int] /\ issued' \in [Peers -> Int] /\ events' \ events = {}
      BY <1>1, <2>1
  <2>5. QED
      BY <1>10, <2>1, <2>2, <2>3, <2>4, TelegramStep
<1>14. ASSUME NEW c \in Requesters, LandDelete(c) PROVE PagesInv'
  <2> DEFINE p == request[c].peer
             hit == {q \in Numbered(p) : request[c].id \in dialog[q]}
  <2>1. /\ request[c].at = "attempt" /\ Landed(c)
        /\ dialog' = [q \in Peers |-> IF q \in hit THEN dialog[q] \ {request[c].id} ELSE dialog[q]]
        /\ changes' = Changed(hit)
        /\ events' = events \union {Event(q, TRUE) : q \in hit}
        /\ UNCHANGED <<issued, invalidated, known, page>>
      BY <1>14 DEF LandDelete
  <2>2. p \in Peers
      BY <1>11, <2>1
  <2>3. hit \subseteq Peers
      BY <2>2 DEF Numbered, Peers
  <2> HIDE DEF hit
  <2>4. /\ changes' \in [Peers -> Nat] /\ \A q \in Peers : changes[q] <= changes'[q]
        /\ \A q \in hit : changes'[q] = changes[q] + 1
      BY <1>1, <2>1, <2>3, ChangedGrows
  <2>5. ASSUME NEW e \in events' \ events
        PROVE  e \in [peer : Peers, named : BOOLEAN, change : Nat] /\ e.change <= changes'[e.peer]
    <3>1. PICK q \in hit : e = Event(q, TRUE)
        BY <2>1, <2>5
    <3>2. /\ Event(q, TRUE) \in [peer : Peers, named : BOOLEAN, change : Nat]
          /\ Event(q, TRUE).peer = q /\ Event(q, TRUE).change = changes[q] + 1
        BY <1>1, <2>3, <3>1, EventTypes
    <3>3. changes'[q] = changes[q] + 1 /\ changes[q] \in Nat
        BY <1>1, <2>3, <2>4
    <3>4. changes[q] + 1 <= changes'[q]
        BY <3>3
    <3>5. e.peer = q /\ e.change = changes[q] + 1
        BY <3>1, <3>2
    <3>6. e.change <= changes'[e.peer]
        BY ONLY <3>4, <3>5
    <3>7. e \in [peer : Peers, named : BOOLEAN, change : Nat]
        BY <3>1, <3>2
    <3>8. QED
        BY <3>6, <3>7
  <2>6. dialog' \in [Peers -> SUBSET Int] /\ issued' \in [Peers -> Int]
      BY <1>1, <2>1
  <2>7. QED
      BY <1>10, <2>1, <2>2, <2>4, <2>5, <2>6, TelegramStep
<1>15. ASSUME NEW ps, NEW p \in Peers \intersect ps, NEW n \in Nat, n <= changes[p],
              invalidated' = Dropped(ps), known' = [known EXCEPT ![p] = Latest(@, n)],
              UNCHANGED <<dialog, issued, changes, page>>, events' \subseteq events,
              request' = request \/ \E c \in Requesters : request' = [request EXCEPT ![c] = NoCall]
       PROVE  PagesInv'
  <2>1. invalidated' \in [Peers -> Nat] /\ known' \in [Peers -> Nat] /\ KnownIsInvalidated'
      BY <1>0, <1>1, <1>15, ToldOf
  <2>2. EventsInTime' /\ NothingGoesMissing'
      BY <1>0, <1>15 DEF EventsInTime, NothingGoesMissing
  <2>3. CallsInTime' /\ request' \in [Requesters -> ClientCalls]
    <3>1. NoCall.at = "idle" /\ NoCall \in ClientCalls
        BY NoCallIsCall DEF NoCall
    <3>2. CASE request' = request
        BY <1>0, <1>1, <1>15, <3>2 DEF CallsInTime
    <3>3. ASSUME NEW c \in Requesters, request' = [request EXCEPT ![c] = NoCall]
          PROVE  CallsInTime' /\ request' \in [Requesters -> ClientCalls]
      <4>1. /\ changes' \in [Peers -> Nat] /\ \A q \in Peers : changes[q] <= changes'[q]
          BY <1>1, <1>15
      <4>2. CallsInTime'
          BY <1>0, <3>1, <3>3, <4>1, CallInTime
      <4>3. request' \in [Requesters -> ClientCalls]
          BY <1>1, <3>1, <3>3, CallStep
      <4>4. QED
          BY <4>2, <4>3
    <3>4. QED
        BY <1>15, <3>2, <3>3
  <2>4. ClientTypes'
      BY <1>1, <1>15, <2>1, <2>3 DEF ClientTypes
  <2>5. QED
      BY <2>1, <2>2, <2>3, <2>4 DEF PagesInv
<1>16. ASSUME NEW c \in Requesters, Returns(c) PROVE PagesInv'
  <2>1. /\ request[c] \in Answers /\ request[c].change <= changes[request[c].peer]
      BY <1>0, <1>1, <1>16, CallKinds DEF Returns, CallsInTime
  <2>2. /\ request[c].peer \in Peers /\ request[c].change \in Nat
        /\ request[c].peer \in Invalidates(c)
      BY <2>1 DEF Answers, Invalidates
  <2>3. /\ invalidated' = Dropped(Invalidates(c))
        /\ known' = [known EXCEPT ![request[c].peer] = Latest(@, request[c].change)]
        /\ request' = [request EXCEPT ![c] = NoCall]
        /\ UNCHANGED <<dialog, issued, changes, page>> /\ events' = events
      BY <1>16 DEF Returns
  <2>4. QED
      BY <1>15, <2>1, <2>2, <2>3
<1>17. ASSUME NEW e \in events, Hear(e) PROVE PagesInv'
  <2>1. e.peer \in Peers /\ e.change \in Nat /\ e.change <= changes[e.peer]
      BY <1>0, <1>1 DEF EventsInTime
  <2>2. e.peer \in Heard(e)
      BY <2>1 DEF Heard
  <2>3. /\ invalidated' = Dropped(Heard(e))
        /\ known' = [known EXCEPT ![e.peer] = Latest(@, e.change)]
        /\ UNCHANGED <<dialog, issued, changes, page>> /\ events' \subseteq events
        /\ request' = request
      BY <1>17 DEF Hear
  <2>4. QED
      BY <1>15, <2>1, <2>2, <2>3
<1>18. ASSUME NEW e \in events, Missed(e) PROVE PagesInv'
    BY <1>0, <1>18 DEF Missed, PagesInv, ClientTypes, KnownIsInvalidated, CallsInTime,
                       EventsInTime, NothingGoesMissing
<1>19. CASE UNCHANGED clientVars
    BY <1>0, <1>19 DEF clientVars, PagesInv, ClientTypes, KnownIsInvalidated, CallsInTime,
                       EventsInTime, NothingGoesMissing
<1>20. QED
    BY <1>3, <1>4, <1>5, <1>6, <1>7, <1>8, <1>9, <1>12, <1>13, <1>14, <1>16, <1>17, <1>18, <1>19
    DEF ClientNext

\* history() and the writes of the client: a page that a call reads is not older
\* than a write that had returned, or a change of which a subscriber had been
\* told, when the call began, however many calls and events are under way.
THEOREM NeverMissing == ClientSpec => []NothingGoesMissing
<1>1. PagesInv => NothingGoesMissing
    BY DEF PagesInv
<1>2. QED
    BY PagesInitInv, PagesStepInv, <1>1, PTL DEF ClientSpec

-----------------------------------------------------------------------------
(* The client wrapper: deletions *)

LEMMA DeletesInitInv == ClientInit => DeletesInv
<1> SUFFICES ASSUME ClientInit PROVE DeletesInv
    OBVIOUS
<1>1. ClientTypes
    BY ClientTypesInit
<1>2. IdsOK /\ DeletesOK /\ DeletesAsAsked
    BY DEF ClientInit, NoCall, IdsOK, DeletesOK, DeleteSafe, DeletesAsAsked, Peers
<1>3. QED
    BY <1>1, <1>2 DEF DeletesInv

LEMMA NumberedPeers ==
    ASSUME NEW p \in Peers
    PROVE  p \in Numbered(p) /\ Numbered(p) \subseteq Peers
BY DEF Numbered, Peers

\* A step of one call that leaves the messages alone.
LEMMA DeletesCall ==
    ASSUME ClientTypes, IdsOK, DeletesOK, DeletesAsAsked,
           NEW c \in Requesters, NEW v \in ClientCalls, request' = [request EXCEPT ![c] = v],
           DeleteSafe(v), UNCHANGED <<dialog, issued, erased>>
    PROVE  IdsOK' /\ DeletesOK' /\ DeletesAsAsked'
<1>1. IdsOK' /\ DeletesAsAsked'
    BY DEF IdsOK, DeletesAsAsked
<1>2. /\ request'[c] = v
      /\ \A d \in Requesters : d # c => request'[d] = request[d]
    BY CallStep DEF ClientTypes
<1>3. ASSUME NEW r, DeleteSafe(r) PROVE DeleteSafe(r)'
    BY <1>3 DEF DeleteSafe
<1>4. ASSUME NEW d \in Requesters PROVE DeleteSafe(request[d])'
    BY <1>2, <1>3 DEF DeletesOK
<1>5. QED
    BY <1>1, <1>4 DEF DeletesOK

\* A message that comes has an id no deletion under way can name.
LEMMA DeletesGrow ==
    ASSUME ClientTypes, IdsOK, NEW p \in Peers, Grow(p)
    PROVE  /\ IdsOK'
           /\ \A r \in ClientCalls : DeleteSafe(r) => DeleteSafe(r)'
<1>1. /\ dialog \in [Peers -> SUBSET Int] /\ issued \in [Peers -> Int]
      /\ dialog' \in [Peers -> SUBSET Int] /\ issued' \in [Peers -> Int]
      /\ \A q \in Peers : issued'[q] = IF q \in Numbered(p) THEN issued[q] + 1 ELSE issued[q]
      /\ p \in Numbered(p)
      /\ dialog'[p] = dialog[p] \union {issued[p] + 1}
      /\ \A q \in Peers : q # p => dialog'[q] = dialog[q]
    BY GrowStep DEF ClientTypes
<1>2. ASSUME NEW q \in Peers, NEW i \in dialog'[q] PROVE i <= issued'[q]
  <2>1. issued[q] \in Int /\ issued'[q] \in Int /\ i \in Int
      BY <1>1, <1>2
  <2>2. CASE i \in dialog[q]
    <3>1. i <= issued[q]
        BY <2>2 DEF IdsOK
    <3>2. issued[q] <= issued'[q]
        BY <1>1, <2>1
    <3>3. QED
        BY <2>1, <3>1, <3>2
  <2>3. CASE i \notin dialog[q]
    <3>1. q = p /\ i = issued[p] + 1
        BY <1>1, <1>2, <2>3
    <3>2. QED
        BY <1>1, <2>1, <3>1
  <2>4. QED
      BY <2>2, <2>3
<1>3. ASSUME NEW q1 \in Private, NEW q2 \in Private PROVE issued'[q1] = issued'[q2]
  <2>1. q1 \in Peers /\ q2 \in Peers /\ issued[q1] = issued[q2]
      BY DEF Peers, IdsOK
  <2>2. q1 \in Numbered(p) <=> q2 \in Numbered(p)
      BY DEF Numbered
  <2>3. QED
      BY <1>1, <2>1, <2>2
<1>4. IdsOK'
    BY <1>2, <1>3 DEF IdsOK
<1>5. ASSUME NEW r \in ClientCalls, DeleteSafe(r) PROVE DeleteSafe(r)'
  <2> SUFFICES ASSUME r.at \in {"validate", "attempt"}, r.kind = "delete"
               PROVE  /\ r.peer \in Channels => ~ r.forMe
                      /\ r.at = "attempt" =>
                            /\ r.id <= issued'[r.peer]
                            /\ \A q \in Numbered(r.peer) : r.id \in dialog'[q] => q = r.peer
      BY DEF DeleteSafe
  <2>1. r.peer \in Peers /\ r.id \in Int
      BY CallKinds DEF Deletes
  <2>2. r.peer \in Channels => ~ r.forMe
      BY <1>5 DEF DeleteSafe
  <2>3. ASSUME r.at = "attempt"
        PROVE  /\ r.id <= issued'[r.peer]
               /\ \A q \in Numbered(r.peer) : r.id \in dialog'[q] => q = r.peer
    <3>1. /\ r.id <= issued[r.peer]
          /\ \A q \in Numbered(r.peer) : r.id \in dialog[q] => q = r.peer
        BY <1>5, <2>3 DEF DeleteSafe
    <3>2. issued[r.peer] \in Int /\ issued'[r.peer] \in Int /\ issued[r.peer] <= issued'[r.peer]
        BY <1>1, <2>1
    <3>3. r.id <= issued'[r.peer]
        BY <2>1, <3>1, <3>2
    <3>4. ASSUME NEW q \in Numbered(r.peer), r.id \in dialog'[q], q # r.peer PROVE FALSE
      <4>1. q \in Peers
          BY <2>1, NumberedPeers
      <4>2. r.id \notin dialog[q]
          BY <3>1, <3>4
      <4>3. q = p /\ r.id = issued[p] + 1
          BY <1>1, <3>4, <4>1, <4>2
      <4>4. issued[q] = issued[r.peer]
          BY <3>4 DEF Numbered, IdsOK
      <4>5. issued[p] \in Int
          BY <1>1
      <4>6. QED
          BY <3>1, <3>2, <4>3, <4>4, <4>5
    <3>5. QED
        BY <3>3, <3>4
  <2>4. QED
      BY <2>2, <2>3
<1>6. QED
    BY <1>4, <1>5

LEMMA SafeUnlessDelete ==
    ASSUME NEW v, v.at \notin {"validate", "attempt"} \/ v.kind # "delete"
    PROVE  DeleteSafe(v)
BY DEF DeleteSafe

LEMMA DeletesStepInv ==
    ASSUME IdsOK, DeletesOK, DeletesAsAsked, ClientTypes, ClientTypes', ClientNext
    PROVE  IdsOK' /\ DeletesOK' /\ DeletesAsAsked'
<1>1. /\ changes \in [Peers -> Nat]
      /\ dialog \in [Peers -> SUBSET Int] /\ issued \in [Peers -> Int]
      /\ \A c \in Requesters : request[c] \in ClientCalls
      /\ request \in [Requesters -> ClientCalls]
    BY DEF ClientTypes
<1>2. NoCall \in ClientCalls /\ DeleteSafe(NoCall)
    BY NoCallIsCall, SafeUnlessDelete DEF NoCall
<1>3. ASSUME NEW p \in Peers, NewMessage(p) PROVE IdsOK' /\ DeletesOK' /\ DeletesAsAsked'
  <2>1. Grow(p) /\ UNCHANGED <<request, erased>>
      BY <1>3 DEF NewMessage
  <2>2. IdsOK' /\ \A r \in ClientCalls : DeleteSafe(r) => DeleteSafe(r)'
      BY <2>1, DeletesGrow
  <2>3. ASSUME NEW d \in Requesters PROVE DeleteSafe(request[d])'
      BY <1>1, <2>1, <2>2 DEF DeletesOK
  <2>4. QED
      BY <2>1, <2>2, <2>3 DEF DeletesOK, DeletesAsAsked
<1>4. ASSUME NEW c \in Requesters, NEW p \in Peers, BeginRead(c, p) \/ BeginFresh(c, p)
      PROVE  IdsOK' /\ DeletesOK' /\ DeletesAsAsked'
  <2>1. PICK v \in Reads : request' = [request EXCEPT ![c] = v] /\ v.at = "read" /\ v \in ClientCalls
      BY <1>4, BeginReadStep
  <2>2. UNCHANGED <<dialog, issued, erased>>
      BY <1>4 DEF BeginRead, BeginFresh
  <2>3. DeleteSafe(v)
      BY <2>1, SafeUnlessDelete
  <2>4. QED
      BY <2>1, <2>2, <2>3, DeletesCall
<1>5. ASSUME NEW c \in Requesters, EndRead(c) \/ Refused(c) \/ Returns(c) \/ AnswerLost(c)
      PROVE  IdsOK' /\ DeletesOK' /\ DeletesAsAsked'
  <2>1. request' = [request EXCEPT ![c] = NoCall] /\ UNCHANGED <<dialog, issued, erased>>
      BY <1>5 DEF EndRead, Refused, Returns, AnswerLost
  <2>2. QED
      BY <1>2, <2>1, DeletesCall
<1>6. ASSUME NEW c \in Requesters, BeginWrite(c) PROVE IdsOK' /\ DeletesOK' /\ DeletesAsAsked'
  <2>1. PICK v \in Writes : v \in ClientCalls /\ request' = [request EXCEPT ![c] = v]
      BY <1>6, BeginWriteStep
  <2>2. v.kind # "delete"
      BY <2>1 DEF Writes
  <2>3. UNCHANGED <<dialog, issued, erased>>
      BY <1>6 DEF BeginWrite
  <2>4. DeleteSafe(v)
      BY <2>2, SafeUnlessDelete
  <2>5. QED
      BY <2>1, <2>3, <2>4, DeletesCall
<1>7. ASSUME NEW c \in Requesters, BeginDelete(c) PROVE IdsOK' /\ DeletesOK' /\ DeletesAsAsked'
  <2>1. PICK v \in Deletes :
           /\ v \in ClientCalls /\ request' = [request EXCEPT ![c] = v]
           /\ v.at = "validate" /\ (v.peer \in Channels => ~ v.forMe)
      BY <1>7, BeginDeleteStep
  <2>2. UNCHANGED <<dialog, issued, erased>>
      BY <1>7 DEF BeginDelete
  <2>3. DeleteSafe(v)
      BY <2>1 DEF DeleteSafe
  <2>4. QED
      BY <2>1, <2>2, <2>3, DeletesCall
<1>8. ASSUME NEW c \in Requesters, Validate(c) PROVE IdsOK' /\ DeletesOK' /\ DeletesAsAsked'
  <2>1. PICK v \in ClientCalls :
           /\ request' = [request EXCEPT ![c] = v]
           /\ \/ v = NoCall
              \/ /\ Valid(request[c].peer, request[c].id)
                 /\ v \in Deletes /\ v.at = "attempt" /\ v.peer = request[c].peer
                 /\ v.id = request[c].id /\ v.forMe = request[c].forMe
           /\ request[c].kind = "delete" /\ request[c] \in Deletes
      BY <1>8, ValidateStep
  <2>2. UNCHANGED <<dialog, issued, erased>>
      BY <1>8 DEF Validate
  <2>3. DeleteSafe(v)
    <3>1. CASE v = NoCall
        BY <1>2, <3>1
    <3>2. CASE v # NoCall
      <4>1. /\ Valid(v.peer, v.id) /\ v \in Deletes
            /\ v.peer = request[c].peer /\ v.forMe = request[c].forMe
          BY <2>1, <3>2
      <4>2. v.peer \in Channels => ~ v.forMe
          BY <1>8, <2>1, <4>1 DEF DeletesOK, DeleteSafe, Validate
      <4>3. v.id \in dialog[v.peer] /\ \A q \in Numbered(v.peer) : v.id \in dialog[q] => q = v.peer
          BY <4>1 DEF Valid
      <4>4. v.peer \in Peers
          BY <4>1 DEF Deletes
      <4>5. v.id <= issued[v.peer]
          BY <4>3, <4>4 DEF IdsOK
      <4>6. QED
          BY <4>2, <4>3, <4>5 DEF DeleteSafe
    <3>3. QED
        BY <3>1, <3>2
  <2>4. QED
      BY <2>1, <2>2, <2>3, DeletesCall
<1>9. ASSUME NEW c \in Requesters, request[c].at = "attempt", Landed(c)
      PROVE  /\ DeleteSafe(request[c])'
             /\ \A d \in Requesters : d # c => request'[d] = request[d]
  <2>1. PICK v \in Answers : request' = [request EXCEPT ![c] = v] /\ v.at = "landed"
      BY <1>9, LandedStep DEF ClientTypes
  <2>2. v \in ClientCalls
      BY DEF ClientCalls
  <2>3. request'[c] = v /\ \A d \in Requesters : d # c => request'[d] = request[d]
      BY <1>1, <2>1, <2>2, CallStep
  <2>4. QED
      BY <2>1, <2>3 DEF DeleteSafe
<1>10. ASSUME NEW c \in Requesters, LandMessage(c) PROVE IdsOK' /\ DeletesOK' /\ DeletesAsAsked'
  <2>1. /\ request[c].at = "attempt" /\ request[c].kind \in {"send", "forward"}
        /\ Grow(request[c].peer) /\ Landed(c) /\ UNCHANGED erased
      BY <1>10 DEF LandMessage
  <2>2. request[c].peer \in Peers
      BY <1>1, <2>1, CallKinds DEF Writes, Deletes
  <2>3. IdsOK' /\ \A r \in ClientCalls : DeleteSafe(r) => DeleteSafe(r)'
      BY <2>1, <2>2, DeletesGrow
  <2>4. ASSUME NEW d \in Requesters PROVE DeleteSafe(request[d])'
      BY <1>1, <1>9, <2>1, <2>3 DEF DeletesOK
  <2>5. QED
      BY <2>1, <2>3, <2>4 DEF DeletesOK, DeletesAsAsked
<1>11. ASSUME NEW c \in Requesters, LandEdit(c) PROVE IdsOK' /\ DeletesOK' /\ DeletesAsAsked'
  <2>1. request[c].at = "attempt" /\ Landed(c) /\ UNCHANGED <<dialog, issued, erased>>
      BY <1>11 DEF LandEdit
  <2>2. ASSUME NEW r, DeleteSafe(r) PROVE DeleteSafe(r)'
      BY <2>1, <2>2 DEF DeleteSafe
  <2>3. ASSUME NEW d \in Requesters PROVE DeleteSafe(request[d])'
      BY <1>9, <2>1, <2>2 DEF DeletesOK
  <2>4. QED
      BY <2>1, <2>3 DEF DeletesOK, DeletesAsAsked, IdsOK
<1>12. ASSUME NEW c \in Requesters, LandDelete(c) PROVE IdsOK' /\ DeletesOK' /\ DeletesAsAsked'
  <2> DEFINE p == request[c].peer
             hit == {q \in Numbered(p) : request[c].id \in dialog[q]}
             forAll == p \in Channels \/ ~ request[c].forMe
  <2>1. /\ request[c].at = "attempt" /\ request[c].kind = "delete" /\ Landed(c)
        /\ dialog' = [q \in Peers |-> IF q \in hit THEN dialog[q] \ {request[c].id} ELSE dialog[q]]
        /\ erased' = IF forAll
                     THEN erased \union {[of |-> q, asked |-> p, forMe |-> request[c].forMe] : q \in hit}
                     ELSE erased
        /\ UNCHANGED issued
      BY <1>12 DEF LandDelete
  <2>2. /\ p \in Peers
        /\ p \in Channels => ~ request[c].forMe
        /\ \A q \in hit : q = p
    <3>1. DeleteSafe(request[c])
        BY DEF DeletesOK
    <3>2. request[c] \in Deletes
        BY <1>1, <2>1, CallKinds
    <3>3. QED
        BY <2>1, <3>1, <3>2 DEF DeleteSafe, Deletes
  <2>3. \A q \in Peers : dialog'[q] \subseteq dialog[q]
      BY <2>1
  <2>4. IdsOK'
      BY <2>1, <2>3 DEF IdsOK
  <2>5. ASSUME NEW r \in ClientCalls, DeleteSafe(r) PROVE DeleteSafe(r)'
    <3>1. ASSUME r.at \in {"validate", "attempt"}, r.kind = "delete" PROVE r.peer \in Peers
        BY <3>1, CallKinds DEF Deletes
    <3>2. ASSUME r.at \in {"validate", "attempt"}, r.kind = "delete"
          PROVE  \A q \in Numbered(r.peer) : dialog'[q] \subseteq dialog[q]
        BY <2>3, <3>1, <3>2, NumberedPeers
    <3>3. QED
        BY <2>1, <2>5, <3>2 DEF DeleteSafe
  <2>6. ASSUME NEW d \in Requesters PROVE DeleteSafe(request[d])'
      BY <1>1, <1>9, <2>1, <2>5 DEF DeletesOK
  <2>7. ASSUME NEW r \in erased' PROVE r.of = r.asked /\ ~ r.forMe
    <3>1. CASE r \in erased
        BY <3>1 DEF DeletesAsAsked
    <3>2. CASE r \notin erased
      <4>1. /\ forAll
            /\ \E q \in hit : r = [of |-> q, asked |-> p, forMe |-> request[c].forMe]
          BY <2>1, <3>2
      <4>2. PICK q \in hit : r = [of |-> q, asked |-> p, forMe |-> request[c].forMe]
          BY <4>1
      <4>3. q = p /\ ~ request[c].forMe
          BY <2>2, <4>1
      <4>4. QED
          BY <4>2, <4>3
    <3>3. QED
        BY <3>1, <3>2
  <2>8. QED
      BY <2>4, <2>6, <2>7 DEF DeletesOK, DeletesAsAsked
<1>13. ASSUME NEW e \in events, Hear(e) \/ Missed(e) PROVE IdsOK' /\ DeletesOK' /\ DeletesAsAsked'
    BY <1>13 DEF Hear, Missed, IdsOK, DeletesOK, DeleteSafe, DeletesAsAsked
<1>14. QED
    BY <1>3, <1>4, <1>5, <1>6, <1>7, <1>8, <1>10, <1>11, <1>12, <1>13 DEF ClientNext

\* delete_messages and _validate_delete_messages: what is removed for everybody
\* is of the dialog that was named and was not asked for oneself only, although
\* the check and the request are two steps and messages keep coming between them.
THEOREM OnlyWhatWasAsked == ClientSpec => []DeletesAsAsked
<1>1. PagesInv /\ DeletesInv /\ [ClientNext]_clientVars => PagesInv' /\ DeletesInv'
  <2> SUFFICES ASSUME PagesInv, DeletesInv, [ClientNext]_clientVars PROVE PagesInv' /\ DeletesInv'
      OBVIOUS
  <2>1. PagesInv'
      BY PagesStepInv
  <2>2. ClientTypes' /\ ClientTypes /\ IdsOK /\ DeletesOK /\ DeletesAsAsked
      BY <2>1 DEF PagesInv, DeletesInv
  <2>3. CASE ClientNext
      BY <2>1, <2>2, <2>3, DeletesStepInv DEF DeletesInv
  <2>4. CASE UNCHANGED clientVars
      BY <2>1, <2>2, <2>4 DEF DeletesInv, clientVars, IdsOK, DeletesOK, DeleteSafe, DeletesAsAsked
  <2>5. QED
      BY <2>3, <2>4
<1>2. DeletesInv => DeletesAsAsked
    BY DEF DeletesInv
<1>3. QED
    BY PagesInitInv, DeletesInitInv, <1>1, <1>2, PTL DEF ClientSpec

-----------------------------------------------------------------------------
(* The dialog list of the terminal UI *)

\* Once the gate is open, a list that is not of the active tab's source is about
\* to be reloaded, and a reload under way is of the active tab.
SidebarInv ==
    /\ started <=> phase \in {"rendering", "ready"}
    /\ reload \in {"idle", "scheduled", "loading"}
    /\ ~ started => reload = "idle"
    /\ reload = "loading" => scope = tab
    /\ started /\ reload = "idle" /\ ~ failed => Source(loaded) = Source(tab)

LEMMA SidebarInitInv == SidebarInit => SidebarInv
BY DEF SidebarInit, SidebarInv

LEMMA SidebarStepInv == SidebarInv /\ [SidebarNext]_sidebarVars => SidebarInv'
<1> SUFFICES ASSUME SidebarInv, [SidebarNext]_sidebarVars PROVE SidebarInv'
    OBVIOUS
<1>1. ASSUME NEW t \in Tabs, PickTab(t) PROVE SidebarInv'
    BY <1>1 DEF SidebarInv, PickTab
<1>2. CASE Connected
    BY <1>2 DEF SidebarInv, Connected
<1>3. CASE FirstLoad
    BY <1>3 DEF SidebarInv, FirstLoad
<1>4. CASE StoreConnects
    BY <1>4 DEF SidebarInv, StoreConnects
<1>5. CASE Reconcile
    BY <1>5 DEF SidebarInv, Reconcile, Gate
<1>6. CASE Ready
    BY <1>6 DEF SidebarInv, Ready
<1>7. CASE StartReload
    BY <1>7 DEF SidebarInv, StartReload
<1>8. CASE EndReload
    BY <1>8 DEF SidebarInv, EndReload, LoadedUnder
<1>9. CASE UNCHANGED sidebarVars
    BY <1>9 DEF SidebarInv, sidebarVars
<1>10. QED
    BY <1>1, <1>2, <1>3, <1>4, <1>5, <1>6, <1>7, <1>8, <1>9 DEF SidebarNext

\* _startup, _reconcile_after_startup and the reload worker: whenever the tab is
\* picked, before the gate, while it opens or during a reload, the list that is
\* left when nothing is loading is of the source of the active tab.
THEOREM ListFollowsTab == SidebarSpec => []ListIsOfTheTab
<1>1. SidebarInv => ListIsOfTheTab
    BY DEF SidebarInv, ListIsOfTheTab
<1>2. QED
    BY SidebarInitInv, SidebarStepInv, <1>1, PTL DEF SidebarSpec
-----------------------------------------------------------------------------
(* The chat REPL *)

\* What is owed is on the screen, is an echo, or waits in a living printer's
\* queue; once the printers have had their tick nothing owed waits.
OnItsWay == printed \union sentIds \union Queued("in") \union Queued("out")

ChatInv ==
    /\ queue \in [Printers -> Seq(Nat)]
    /\ newest \in Nat
    /\ alive \subseteq Printers
    /\ \A p \in Printers \ alive : queue[p] = <<>>
    /\ due \subseteq OnItsWay
    /\ at \in {"connecting", "cancelling", "closed"} => due \subseteq printed \union sentIds

LEMMA ChatInitInv == ChatInit => ChatInv
BY DEF ChatInit, ChatInv, OnItsWay

\* An event that is published is added to the queue of its printer, if it lives.
LEMMA PublishedStep ==
    ASSUME ChatInv, NEW p \in Printers, NEW id \in Nat,
           queue' = Published(p, id), due' = Owed(p, id), UNCHANGED <<alive, printed, sentIds>>
    PROVE  /\ queue' \in [Printers -> Seq(Nat)]
           /\ \A q \in Printers \ alive : queue'[q] = <<>>
           /\ due' \subseteq OnItsWay'
           /\ at \in {"leaving", "cancelling"} => due' = due
<1>1. queue \in [Printers -> Seq(Nat)] /\ \A q \in Printers \ alive : queue[q] = <<>>
    BY DEF ChatInv
<1>2. CASE p \in alive
  <2>1. queue' = [queue EXCEPT ![p] = Append(@, id)]
      BY <1>2 DEF Published
  <2>2. queue' \in [Printers -> Seq(Nat)]
      BY <1>1, <2>1
  <2>3. \A q \in Printers : q # p => queue'[q] = queue[q]
      BY <1>1, <2>1
  <2>4. queue'[p] = Append(queue[p], id) /\ queue[p] \in Seq(Nat)
      BY <1>1, <2>1
  <2>5. Queued(p)' = Queued(p) \union {id}
      BY <2>4 DEF Queued
  <2>6. \A q \in Printers : Queued(q) \subseteq Queued(q)'
      BY <2>3, <2>5 DEF Queued
  <2>7. Queued(p) \union {id} \subseteq Queued("in")' \union Queued("out")'
      BY <2>5 DEF Printers
  <2>8. OnItsWay \union {id} \subseteq OnItsWay'
      BY <2>6, <2>7 DEF OnItsWay, Printers
  <2>9. due \subseteq OnItsWay /\ due' \subseteq due \union {id}
      BY DEF ChatInv, Owed
  <2>10. at \in {"leaving", "cancelling"} => due' = due
      BY DEF Owed
  <2>11. QED
      BY <1>1, <1>2, <2>2, <2>3, <2>8, <2>9, <2>10
<1>3. CASE p \notin alive
    BY <1>1, <1>3 DEF Published, Owed, ChatInv, OnItsWay, Queued
<1>4. QED
    BY <1>2, <1>3

LEMMA ChatStepInv == ChatInv /\ [ChatNext]_chatVars => ChatInv'
<1> SUFFICES ASSUME ChatInv, [ChatNext]_chatVars PROVE ChatInv'
    OBVIOUS
<1>0. /\ queue \in [Printers -> Seq(Nat)] /\ newest \in Nat /\ alive \subseteq Printers
      /\ \A p \in Printers \ alive : queue[p] = <<>>
      /\ due \subseteq OnItsWay
      /\ at \in {"connecting", "cancelling", "closed"} => due \subseteq printed \union sentIds
    BY DEF ChatInv
<1>1. ASSUME NEW p \in Printers, Appears(p) PROVE ChatInv'
  <2>1. /\ newest + 1 \in Nat
        /\ queue' = Published(p, newest + 1) /\ due' = Owed(p, newest + 1)
        /\ UNCHANGED <<at, alive, printed, sentIds>> /\ newest' = newest + 1
        /\ at \notin {"connecting", "closed"}
      BY <1>0, <1>1 DEF Appears
  <2>2. /\ queue' \in [Printers -> Seq(Nat)]
        /\ \A q \in Printers \ alive : queue'[q] = <<>>
        /\ due' \subseteq OnItsWay'
        /\ at \in {"leaving", "cancelling"} => due' = due
      BY <2>1, PublishedStep
  <2>3. QED
      BY <1>0, <2>1, <2>2 DEF ChatInv
<1>2. CASE Land
  <2>1. /\ newest + 1 \in Nat
        /\ queue' = Published("out", newest + 1) /\ due' = Owed("out", newest + 1)
        /\ UNCHANGED <<at, alive, printed, sentIds>> /\ newest' = newest + 1
        /\ at = "sending"
      BY <1>0, <1>2 DEF Land
  <2>2. "out" \in Printers
      BY DEF Printers
  <2>3. /\ queue' \in [Printers -> Seq(Nat)]
        /\ \A q \in Printers \ alive : queue'[q] = <<>>
        /\ due' \subseteq OnItsWay'
      BY <2>1, <2>2, PublishedStep
  <2>4. QED
      BY <1>0, <2>1, <2>3 DEF ChatInv
<1>3. ASSUME NEW p \in Printers, PrintOne(p) PROVE ChatInv'
  <2>1. /\ p \in alive /\ printed' = printed \union Echoed(p)
        /\ queue' = [queue EXCEPT ![p] = <<>>]
        /\ UNCHANGED <<at, alive, newest, sentIds, due>>
      BY <1>3 DEF PrintOne
  <2>2. queue' \in [Printers -> Seq(Nat)] /\ \A q \in Printers : q # p => queue'[q] = queue[q]
      BY <1>0, <2>1
  <2>3. \A q \in Printers : q # p => Queued(q)' = Queued(q)
      BY <2>2 DEF Queued
  <2>4. Queued(p) \subseteq printed' \union sentIds
      BY <2>1 DEF Echoed
  <2>5. OnItsWay \subseteq OnItsWay'
      BY <2>1, <2>3, <2>4 DEF OnItsWay, Printers
  <2>6. QED
      BY <1>0, <2>1, <2>2, <2>5 DEF ChatInv
<1>4. ASSUME NEW p \in Printers, PrinterFails(p) PROVE ChatInv'
  <2>1. /\ p \in alive /\ alive' = alive \ {p} /\ at = "reading"
        /\ queue' = [queue EXCEPT ![p] = <<>>] /\ due' = due \ Queued(p)
        /\ UNCHANGED <<at, newest, sentIds, printed>>
      BY <1>4 DEF PrinterFails
  <2>2. /\ queue' \in [Printers -> Seq(Nat)] /\ queue'[p] = <<>>
        /\ \A q \in Printers : q # p => queue'[q] = queue[q]
      BY <1>0, <2>1
  <2>3. \A q \in Printers : q # p => Queued(q)' = Queued(q)
      BY <2>2 DEF Queued
  <2>4. OnItsWay \ Queued(p) \subseteq OnItsWay'
      BY <2>1, <2>3 DEF OnItsWay, Printers
  <2>5. QED
      BY <1>0, <2>1, <2>2, <2>4 DEF ChatInv
<1>5. CASE Tick
  <2>1. /\ printed' = printed \union UNION {Echoed(p) : p \in alive}
        /\ queue' = [p \in Printers |-> IF p \in alive THEN <<>> ELSE queue[p]]
        /\ UNCHANGED <<alive, newest, sentIds, due>>
      BY <1>5 DEF Tick, Ticked
  <2>2. \A p \in alive : Queued(p) \subseteq printed' \union sentIds
      BY <2>1 DEF Echoed
  <2>3. \A p \in Printers \ alive : Queued(p) = {}
      BY <1>0 DEF Queued
  <2>4. OnItsWay \subseteq printed' \union sentIds
      BY <2>1, <2>2, <2>3 DEF OnItsWay, Printers
  <2>5. queue' \in [Printers -> Seq(Nat)] /\ \A p \in Printers : queue'[p] = <<>>
      BY <1>0, <2>1
  <2>6. due' \subseteq printed' \union sentIds' /\ due' \subseteq OnItsWay'
      BY <1>0, <2>1, <2>4 DEF OnItsWay
  <2>7. QED
      BY <1>0, <2>1, <2>5, <2>6 DEF ChatInv
<1>6. CASE Close
  <2>1. /\ at = "cancelling" /\ alive' = {} /\ queue' = [p \in Printers |-> <<>>]
        /\ UNCHANGED <<newest, sentIds, printed, due>>
      BY <1>6 DEF Close
  <2>2. due' \subseteq printed' \union sentIds' /\ due' \subseteq OnItsWay'
      BY <1>0, <2>1 DEF OnItsWay
  <2>3. QED
      BY <1>0, <2>1, <2>2 DEF ChatInv
\* A step of the main task that leaves the printers alone.
<1>7. ASSUME UNCHANGED <<queue, newest, printed, due>>,
             alive \subseteq alive' /\ alive' \subseteq Printers, sentIds \subseteq sentIds',
             at' \in {"connecting", "cancelling", "closed"} => at \in {"connecting", "cancelling", "closed"}
      PROVE  ChatInv'
  <2>1. OnItsWay \subseteq OnItsWay'
      BY <1>7 DEF OnItsWay, Queued
  <2>2. QED
      BY <1>0, <1>7, <2>1 DEF ChatInv
<1>8. CASE LineReturns
    BY <1>0, <1>7, <1>8 DEF LineReturns
<1>9. CASE Subscribe
    BY <1>0, <1>7, <1>9 DEF Subscribe
<1>10. CASE \/ TranslationEnds \/ Connect \/ ReadDialogs \/ Answered \/ Prepared
            \/ Chosen \/ SendRefused \/ Leave \/ UNCHANGED chatVars
    BY <1>0, <1>7, <1>10
    DEF TranslationEnds, Connect, ReadDialogs, Answered, Prepared, Chosen, SendRefused, Leave,
        Goes, chatVars
<1>11. ASSUME NEW line \in LineKinds, ReadLine(line) PROVE ChatInv'
  <2>1. at' \notin {"connecting", "cancelling", "closed"}
      BY <1>11 DEF ReadLine, After, LineKinds
  <2>2. UNCHANGED <<queue, newest, printed, due, alive, sentIds>>
      BY <1>11 DEF ReadLine
  <2>3. QED
      BY <1>0, <1>7, <2>1, <2>2
<1>12. QED
    BY <1>1, <1>2, <1>3, <1>4, <1>5, <1>6, <1>8, <1>9, <1>10, <1>11 DEF ChatNext

\* `tg-messenger chat` and its printers: every event published from the printers'
\* first step until the loop is left is on the screen when the session has closed,
\* or is the echo of a line sent from here, at any moment the loop is left.
THEOREM NothingIsLost == ChatSpec => []PrintedBeforeExit
<1>1. ChatInv => PrintedBeforeExit
    BY DEF ChatInv, PrintedBeforeExit
<1>2. QED
    BY ChatInitInv, ChatStepInv, <1>1, PTL DEF ChatSpec
-----------------------------------------------------------------------------
(* The web chat *)

MessageKinds == {"in", "phone", "own"}

WebTypes ==
    /\ msgs \in [WebDialogs -> Seq(MessageKinds)]
    /\ open \in WebDialogs
    /\ loads \subseteq [dialog : WebDialogs, newest : Nat]
    /\ reads \subseteq [dialog : WebDialogs, max : Nat]
    /\ read \in [WebDialogs -> Nat]
    /\ posts \subseteq [dialog : WebDialogs, id : Nat, at : {"sending", "accepted", "answered"}]

\* Whoever is about to mark a message read has had it on screen.
ReadsAreShown == \A r \in reads : <<r.dialog, r.max>> \in shown

WebInv == WebTypes /\ ReadsAreShown /\ ReadIsShown /\ LinesMatch

LEMMA WebInitInv == WebInit => WebInv
BY DEF WebInit, WebInv, WebTypes, ReadsAreShown, ReadIsShown, LinesMatch

\* A message of d's is Telegram's; the marks are not touched.
LEMMA MessageTyped ==
    ASSUME NEW d \in WebDialogs, NEW k \in MessageKinds,
           msgs \in [WebDialogs -> Seq(MessageKinds)], Message(d, k)
    PROVE  msgs' \in [WebDialogs -> Seq(MessageKinds)]
<1>1. msgs' = [msgs EXCEPT ![d] = Append(msgs[d], k)]
    BY DEF Message
<1>2. Append(msgs[d], k) \in Seq(MessageKinds)
    OBVIOUS
<1>3. QED
    BY <1>1, <1>2

\* A step that shows more, or the same, and marks nothing.
LEMMA MarksNothing ==
    ASSUME WebInv, shown \subseteq shown', reads' \subseteq reads, UNCHANGED <<read>>, WebTypes',
           LinesMatch'
    PROVE  WebInv'
BY DEF WebInv, ReadsAreShown, ReadIsShown

LEMMA WebStepInv == WebInv /\ [WebNext]_webVars => WebInv'
<1> SUFFICES ASSUME WebInv, [WebNext]_webVars PROVE WebInv'
    OBVIOUS
<1>0. WebTypes /\ ReadsAreShown /\ ReadIsShown /\ LinesMatch
    BY DEF WebInv
<1>1. ASSUME NEW d \in WebDialogs, Arrives(d) PROVE WebInv'
  <2>1. PICK k \in {"in", "phone"} : Message(d, k)
      BY <1>1 DEF Arrives
  <2>2. UNCHANGED <<open, shown, lines, loads, posts, reads, read>>
      BY <1>1 DEF Arrives, pageVars
  <2>3. k \in MessageKinds
      BY DEF MessageKinds
  <2>4. WebTypes'
      BY <1>0, <2>1, <2>2, <2>3, MessageTyped DEF WebTypes
  <2>5. QED
      BY <1>0, <2>2, <2>4, MarksNothing DEF LinesMatch
<1>2. ASSUME NEW d \in WebDialogs, OpenDialog(d) PROVE WebInv'
  <2>1. /\ open' = d /\ loads' = loads \union {[dialog |-> d, newest |-> 0]}
        /\ UNCHANGED <<msgs, shown, lines, posts, reads, read>>
      BY <1>2 DEF OpenDialog
  <2>2. WebTypes'
      BY <1>0, <2>1 DEF WebTypes
  <2>3. QED
      BY <1>0, <2>1, <2>2, MarksNothing DEF LinesMatch
<1>3. ASSUME NEW l \in loads, Serve(l) PROVE WebInv'
  <2>1. /\ loads' = (loads \ {l}) \union {[l EXCEPT !.newest = Len(msgs[l.dialog])]}
        /\ UNCHANGED <<msgs, open, shown, lines, posts, reads, read>>
      BY <1>3 DEF Serve, pageVars
  <2>2. l \in [dialog : WebDialogs, newest : Nat] /\ Len(msgs[l.dialog]) \in Nat
      BY <1>0 DEF WebTypes
  <2>3. [l EXCEPT !.newest = Len(msgs[l.dialog])] \in [dialog : WebDialogs, newest : Nat]
      BY <2>2
  <2>4. WebTypes'
      BY <1>0, <2>1, <2>3 DEF WebTypes
  <2>5. QED
      BY <1>0, <2>1, <2>4, MarksNothing DEF LinesMatch
<1>4. ASSUME NEW l \in loads, Swap(l) PROVE WebInv'
  <2>1. /\ loads' = loads \ {l} /\ l.newest > 0
        /\ UNCHANGED <<msgs, open, posts, read>>
      BY <1>4 DEF Swap
  <2>2. l \in [dialog : WebDialogs, newest : Nat]
      BY <1>0 DEF WebTypes
  <2>3. CASE Stale(l.dialog)
    <3>1. UNCHANGED <<lines, shown, reads>>
        BY <1>4, <2>3 DEF Swap
    <3>2. WebTypes'
        BY <1>0, <2>1, <3>1 DEF WebTypes
    <3>3. QED
        BY <1>0, <3>1, <3>2, <2>1, MarksNothing DEF LinesMatch
  <2>4. CASE ~ Stale(l.dialog)
    <3>1. /\ Shows({[dialog |-> l.dialog, id |-> i] : i \in 1..l.newest})
          /\ lines' = {}
          /\ reads' = reads \union {[dialog |-> l.dialog, max |-> l.newest]}
          /\ l.dialog = open
        BY <1>4, <2>4 DEF Swap, Stale
    <3> DEFINE mounted == {[dialog |-> l.dialog, id |-> i] : i \in 1..l.newest}
    <3>2. [dialog |-> open, id |-> l.newest] \in mounted
        BY <2>1, <2>2, <3>1
    <3>3. shown' = shown \union {<<b.dialog, b.id>> : b \in {x \in mounted : x.dialog = open}}
        BY <3>1 DEF Shows
    <3> HIDE DEF mounted
    <3>4. <<open, l.newest>> \in shown'
        BY <3>2, <3>3
    <3>5. ReadsAreShown'
      <4>1. ASSUME NEW r \in reads' PROVE <<r.dialog, r.max>> \in shown'
        <5>1. CASE r \in reads
            BY <1>0, <3>3, <5>1 DEF ReadsAreShown
        <5>2. CASE r \notin reads
          <6>1. r = [dialog |-> open, max |-> l.newest]
              BY <3>1, <5>2
          <6>2. r.dialog = open /\ r.max = l.newest
              BY <6>1
          <6>3. QED
              BY <3>4, <6>2
        <5>3. QED
            BY <5>1, <5>2
      <4>2. QED
          BY <4>1 DEF ReadsAreShown
    <3>6. ReadIsShown'
        BY <1>0, <2>1, <3>3 DEF ReadIsShown
    <3>7. [dialog |-> l.dialog, max |-> l.newest] \in [dialog : WebDialogs, max : Nat]
        BY <2>2
    <3>8. WebTypes'
        BY <1>0, <2>1, <3>1, <3>7 DEF WebTypes
    <3>9. QED
        BY <3>1, <3>5, <3>6, <3>8 DEF WebInv, LinesMatch
  <2>5. QED
      BY <2>3, <2>4
<1>5. ASSUME NEW r \in reads, MarkRead(r) PROVE WebInv'
  <2>1. /\ reads' = reads \ {r}
        /\ read' \in {read, [read EXCEPT ![r.dialog] = IF r.max > @ THEN r.max ELSE @]}
        /\ UNCHANGED <<msgs, open, shown, lines, loads, posts>>
      BY <1>5 DEF MarkRead, pageVars
  <2>2. r \in [dialog : WebDialogs, max : Nat] /\ <<r.dialog, r.max>> \in shown
      BY <1>0 DEF WebTypes, ReadsAreShown
  <2>3. /\ read' \in [WebDialogs -> Nat]
        /\ \A d \in WebDialogs : read'[d] = read[d] \/ (d = r.dialog /\ read'[d] = r.max)
      BY <1>0, <2>1, <2>2 DEF WebTypes
  <2>4. ReadIsShown'
      BY <1>0, <2>1, <2>2, <2>3 DEF ReadIsShown
  <2>5. WebTypes'
      BY <1>0, <2>1, <2>3 DEF WebTypes
  <2>6. QED
      BY <1>0, <2>1, <2>4, <2>5 DEF WebInv, ReadsAreShown, LinesMatch
<1>6. CASE Submit
  <2>1. /\ posts' = posts \union {[dialog |-> open, id |-> 0, at |-> "sending"]}
        /\ UNCHANGED <<msgs, open, shown, lines, loads, reads, read>>
      BY <1>6 DEF Submit, pageVars
  <2>2. WebTypes'
      BY <1>0, <2>1 DEF WebTypes
  <2>3. QED
      BY <1>0, <2>1, <2>2, MarksNothing DEF LinesMatch
<1>7. ASSUME NEW p \in posts, NEW id \in Nat, NEW a \in {"accepted", "answered"}, MovesOn(p, id, a)
      PROVE  posts' \subseteq [dialog : WebDialogs, id : Nat, at : {"sending", "accepted", "answered"}]
    BY <1>0, <1>7 DEF WebTypes, MovesOn
<1>8. ASSUME NEW p \in posts, AcceptSend(p) PROVE WebInv'
  <2>1. /\ Message(p.dialog, "own") /\ MovesOn(p, Len(msgs[p.dialog]) + 1, "accepted")
        /\ UNCHANGED <<open, shown, lines, loads, reads, read>>
      BY <1>8 DEF AcceptSend, pageVars
  <2>2. p.dialog \in WebDialogs /\ msgs[p.dialog] \in Seq(MessageKinds)
      BY <1>0 DEF WebTypes
  <2>3. Len(msgs[p.dialog]) + 1 \in Nat
      BY <2>2
  <2>4. posts' \subseteq [dialog : WebDialogs, id : Nat, at : {"sending", "accepted", "answered"}]
      BY <1>7, <2>1, <2>3
  <2>5. "own" \in MessageKinds
      BY DEF MessageKinds
  <2>6. msgs' \in [WebDialogs -> Seq(MessageKinds)]
      BY <1>0, <2>1, <2>2, <2>5, MessageTyped DEF WebTypes
  <2>7. WebTypes'
      BY <1>0, <2>1, <2>4, <2>6 DEF WebTypes
  <2>8. QED
      BY <1>0, <2>1, <2>7, MarksNothing DEF LinesMatch
<1>9. ASSUME NEW p \in posts, Remember(p) PROVE WebInv'
  <2>1. /\ MovesOn(p, p.id, "answered")
        /\ UNCHANGED <<msgs, open, shown, lines, loads, reads, read>>
      BY <1>9 DEF Remember, pageVars
  <2>2. p.id \in Nat
      BY <1>0 DEF WebTypes
  <2>3. posts' \subseteq [dialog : WebDialogs, id : Nat, at : {"sending", "accepted", "answered"}]
      BY <1>7, <2>1, <2>2
  <2>4. WebTypes'
      BY <1>0, <2>1, <2>3 DEF WebTypes
  <2>5. QED
      BY <1>0, <2>1, <2>4, MarksNothing DEF LinesMatch
<1>10. ASSUME NEW p \in posts, Echo(p) PROVE WebInv'
  <2>1. /\ posts' = posts \ {p} /\ shown \subseteq shown'
        /\ UNCHANGED <<msgs, open, lines, loads, reads, read>>
      BY <1>10 DEF Echo, Shows
  <2>2. WebTypes'
      BY <1>0, <2>1 DEF WebTypes
  <2>3. QED
      BY <1>0, <2>1, <2>2, MarksNothing DEF LinesMatch
<1>11. CASE RequestFails
  <2>1. /\ posts' \subseteq posts /\ loads' \subseteq loads
        /\ UNCHANGED <<msgs, open, shown, lines, reads, read>>
      BY <1>11 DEF RequestFails, pageVars
  <2>2. WebTypes'
      BY <1>0, <2>1 DEF WebTypes
  <2>3. QED
      BY <1>0, <2>1, <2>2, MarksNothing DEF LinesMatch
<1>12. ASSUME NEW k \in Kinds, Frame(k) PROVE WebInv'
  <2>1. /\ shown \subseteq shown'
        /\ UNCHANGED <<msgs, open, lines, loads, posts, reads, read>>
      BY <1>12 DEF Frame, Shows
  <2>2. WebTypes'
      BY <1>0, <2>1 DEF WebTypes
  <2>3. QED
      BY <1>0, <2>1, <2>2, MarksNothing DEF LinesMatch
<1>13. ASSUME NEW id \in inflight, Translated(id) PROVE WebInv'
  <2>1. /\ \/ lines' = lines \union {[under |-> <<b.dialog, b.id>>, of |-> <<open, id>>] : b \in Under(open, id)}
           \/ lines' = lines
        /\ UNCHANGED <<msgs, open, shown, loads, posts, reads, read>>
      BY <1>13 DEF Translated
  <2>2. \A b \in Under(open, id) : b.dialog = open /\ b.id = id
      BY DEF Under
  <2>3. LinesMatch'
      BY <1>0, <2>1, <2>2 DEF LinesMatch
  <2>4. WebTypes'
      BY <1>0, <2>1 DEF WebTypes
  <2>5. QED
      BY <2>1, <2>3, <2>4, MarksNothing
<1>14. CASE Restart
  <2>1. /\ loads' = {} /\ posts' = {} /\ reads' = {}
        /\ UNCHANGED <<msgs, open, shown, lines, read>>
      BY <1>14 DEF Restart, pageVars
  <2>2. WebTypes'
      BY <1>0, <2>1 DEF WebTypes
  <2>3. QED
      BY <1>0, <2>1, <2>2, MarksNothing DEF LinesMatch
<1>15. CASE UNCHANGED webVars
    BY <1>0, <1>15 DEF webVars, pageVars, WebInv, WebTypes, ReadsAreShown, ReadIsShown, LinesMatch
<1>16. QED
    BY <1>1, <1>2, <1>3, <1>4, <1>5, <1>6, <1>8, <1>9, <1>10, <1>11, <1>12, <1>13, <1>14, <1>15
    DEF WebNext

\* chat.html's beforeSwap and afterSettle, and mark_read: a read mark that reaches
\* Telegram is of a message that was on screen while its dialog was open, whichever
\* dialog has been opened by the time the history or the POST arrives.
THEOREM MarksWhatWasShown == WebSpec => []ReadIsShown
<1>1. WebInv => ReadIsShown
    BY DEF WebInv
<1>2. QED
    BY WebInitInv, WebStepInv, <1>1, PTL DEF WebSpec

\* The translation frames of the stream: a line is under the bubble of the message
\* it translates, although ids repeat between dialogs and old bubbles stay.
THEOREM TranslationsInPlace == WebSpec => []LinesMatch
<1>1. WebInv => LinesMatch
    BY DEF WebInv
<1>2. QED
    BY WebInitInv, WebStepInv, <1>1, PTL DEF WebSpec
-----------------------------------------------------------------------------
(* The composer of the terminal UI: the invariant *)

Text == [n : Nat, form : {"plain", "variant"}]
Compose == [draft : Text, source : Text, confirm : Text]
Typed == DOMAIN texts
LastTyped == Cardinality(Typed)

\* Of room r, a text that is not empty was typed in r, or suggested for r.
TextOf(t, r) ==
    /\ t \in Text
    /\ t # Empty => t.n # 0 /\ t.n \in Typed /\ texts[t.n] = r

TextsOK ==
    /\ LastTyped \in Nat /\ Typed = 1..LastTyped
    /\ texts \in [Typed -> Rooms]
    /\ times \in [Typed -> Nat]
    /\ fails \in [Typed -> Nat]

ComposerTypes ==
    /\ room \in Rooms
    /\ states \in [Rooms -> Compose]
    /\ flow \in [room : Rooms \union {0}, text : Text, at : {"idle", "preparing", "picking", "sending"}]
    /\ sends \subseteq [to : Rooms, text : Text, byFlow : BOOLEAN]
    /\ TextsOK

\* Every text that may yet be sent is kept with its room.
TextsOfRooms ==
    /\ TextOf(box, room)
    /\ TextOf(suggested, room)
    /\ \A r \in Rooms : TextOf(states[r].draft, r)
    /\ flow.at # "idle" => flow.room \in Rooms /\ flow.text # Empty /\ TextOf(flow.text, flow.room)
    /\ \A s \in sends : s.text # Empty /\ TextOf(s.text, s.to)

\* The numbers of the texts that may yet be sent.  The draft of the room on
\* screen is none of them: it is overwritten by the composer when it is left.
InFlow == IF flow.at \in {"preparing", "picking"} THEN flow.text.n ELSE 0
Kept(r) == IF r = room THEN 0 ELSE states[r].draft.n

Apart(a, b) == a = 0 \/ a # b

\* There is one copy of each, and none of a text on its way.
OneCopy ==
    /\ Apart(box.n, suggested.n) /\ Apart(box.n, InFlow) /\ Apart(suggested.n, InFlow)
    /\ \A r \in Rooms :
          Apart(Kept(r), box.n) /\ Apart(Kept(r), suggested.n) /\ Apart(Kept(r), InFlow)
    /\ \A q, r \in Rooms : q # r => Apart(Kept(q), Kept(r))
    /\ \A s \in sends : s.text.n # box.n /\ s.text.n # suggested.n /\ s.text.n # InFlow
    /\ \A s \in sends : \A r \in Rooms : s.text.n # Kept(r)
    /\ \A s, t \in sends : s.text.n = t.text.n => s = t

\* A text that may yet be sent failed as often as it was sent.
Unsent(n) == n \in Typed => times[n] <= fails[n]
Sendable ==
    /\ Unsent(box.n) /\ Unsent(suggested.n) /\ Unsent(InFlow)
    /\ \A r \in Rooms : Unsent(Kept(r))
-----------------------------------------------------------------------------
(* The composer: where texts are *)

LEMMA EmptyIsText == Empty \in Text /\ Empty.n = 0
BY DEF Empty, Text

LEMMA BlankIsCompose ==
    ASSUME NEW r
    PROVE  /\ Blank \in Compose /\ TextOf(Blank.draft, r) /\ Blank.draft = Empty
           /\ \A t \in Text : [Blank EXCEPT !.draft = t] \in Compose /\ [Blank EXCEPT !.draft = t].draft = t
           /\ \A t \in Text : [Blank EXCEPT !.draft = t, !.confirm = t] \in Compose
                              /\ [Blank EXCEPT !.draft = t, !.confirm = t].draft = t
BY EmptyIsText DEF Blank, Compose, TextOf

LEMMA EmptyIsOf == ASSUME NEW r PROVE TextOf(Empty, r)
BY EmptyIsText DEF TextOf

\* A new text is numbered next, and the others stay what they were.
LEMMA NewTextStep ==
    ASSUME TextsOK, NEW r \in Rooms, NewText(r)
    PROVE  /\ TextsOK'
           /\ TheNewText \in Text /\ TheNewText # Empty
           /\ TheNewText.n \in Typed' /\ TheNewText.n \notin Typed /\ TheNewText.n # 0
           /\ texts'[TheNewText.n] = r /\ times'[TheNewText.n] = 0 /\ fails'[TheNewText.n] = 0
           /\ \A n \in Typed : /\ n \in Typed'
                               /\ texts'[n] = texts[n] /\ times'[n] = times[n] /\ fails'[n] = fails[n]
           /\ \A n \in Typed' : n \in Typed \/ n = TheNewText.n
<1> DEFINE k == LastTyped
<1>1. k \in Nat /\ Typed = 1..k
    BY DEF TextsOK
<1>2. /\ texts' = [n \in 1..(k + 1) |-> IF n \in Typed THEN texts[n] ELSE r]
      /\ times' = [n \in DOMAIN texts' |-> IF n \in DOMAIN times THEN times[n] ELSE 0]
      /\ fails' = [n \in DOMAIN texts' |-> IF n \in DOMAIN fails THEN fails[n] ELSE 0]
    BY DEF NewText, LastTyped, Typed
<1>3. DOMAIN times = Typed /\ DOMAIN fails = Typed
    BY DEF TextsOK
<1>4. TheNewText = [n |-> k + 1, form |-> "plain"]
    BY DEF TheNewText, Plain, LastTyped, Typed
<1> HIDE DEF k
<1>5. Typed' = 1..(k + 1)
    BY <1>1, <1>2 DEF Typed
<1>6. LastTyped' = k + 1
  <2>1. Cardinality(1..(k + 1)) = k + 1
      BY <1>1, FS_Interval
  <2>2. QED
      BY <1>5, <2>1 DEF LastTyped
<1>7. /\ \A n \in Typed : n \in Typed'
      /\ \A n \in Typed' : n \in Typed \/ n = k + 1
      /\ k + 1 \in Typed' /\ k + 1 \notin Typed /\ k + 1 # 0 /\ k + 1 \in Nat
    BY <1>1, <1>5
<1>8. /\ texts' = [n \in Typed' |-> IF n \in Typed THEN texts[n] ELSE r]
      /\ times' = [n \in Typed' |-> IF n \in Typed THEN times[n] ELSE 0]
      /\ fails' = [n \in Typed' |-> IF n \in Typed THEN fails[n] ELSE 0]
    BY <1>2, <1>3, <1>5 DEF Typed
<1>9. /\ texts \in [Typed -> Rooms] /\ times \in [Typed -> Nat] /\ fails \in [Typed -> Nat]
    BY DEF TextsOK
<1>10. texts' \in [Typed' -> Rooms] /\ times' \in [Typed' -> Nat] /\ fails' \in [Typed' -> Nat]
    BY <1>8, <1>9
<1>11. TextsOK'
    BY <1>5, <1>6, <1>7, <1>10 DEF TextsOK
<1>12. TheNewText \in Text /\ TheNewText.n = k + 1 /\ TheNewText # Empty
    BY <1>4, <1>7 DEF Text, Empty
<1>13. QED
    BY <1>7, <1>8, <1>11, <1>12

LEMMA OfStays ==
    ASSUME NEW t, NEW r, TextOf(t, r),
           \A n \in Typed : n \in Typed' /\ texts'[n] = texts[n]
    PROVE  TextOf(t, r)'
BY DEF TextOf

ComposerInv == ComposerTypes /\ TextsOfRooms

LEMMA ComposerInitInv == ComposerInit => ComposerInv
<1> SUFFICES ASSUME ComposerInit PROVE ComposerInv
    OBVIOUS
<1>1. Typed = {} /\ LastTyped = 0
    BY FS_EmptySet DEF ComposerInit, Typed, LastTyped
<1>2. TextsOK
    BY <1>1 DEF ComposerInit, TextsOK, Typed
<1>3. Blank \in Compose /\ Empty \in Text /\ \A r : TextOf(Empty, r) /\ Blank.draft = Empty
    BY BlankIsCompose, EmptyIsText, EmptyIsOf
<1>4. ComposerTypes
    BY <1>2, <1>3 DEF ComposerInit, ComposerTypes, NoFlow
<1>5. TextsOfRooms
    BY <1>3 DEF ComposerInit, TextsOfRooms, NoFlow
<1>6. QED
    BY <1>4, <1>5 DEF ComposerInv

\* What the steps of the composer do to the texts, each room's apart.
LEMMA ComposerFacts ==
    ASSUME ComposerInv
    PROVE  /\ room \in Rooms /\ states \in [Rooms -> Compose] /\ TextsOK
           /\ flow \in [room : Rooms \union {0}, text : Text, at : {"idle", "preparing", "picking", "sending"}]
           /\ sends \subseteq [to : Rooms, text : Text, byFlow : BOOLEAN]
           /\ TextOf(box, room) /\ TextOf(suggested, room) /\ box \in Text /\ suggested \in Text
           /\ \A r \in Rooms : TextOf(states[r].draft, r) /\ states[r].draft \in Text
           /\ flow.at # "idle" => flow.room \in Rooms /\ flow.text # Empty /\ TextOf(flow.text, flow.room)
           /\ \A s \in sends : s.text # Empty /\ TextOf(s.text, s.to) /\ s.to \in Rooms /\ s.text \in Text
BY DEF ComposerInv, ComposerTypes, TextsOfRooms, TextOf

\* The texts of a step that writes room q's state, and sends or takes back.
LEMMA ComposerStep ==
    ASSUME ComposerInv, room' \in Rooms,
           \/ states' = states
           \/ \E q \in Rooms, c \in Compose : states' = [states EXCEPT ![q] = c] /\ TextOf(c.draft, q)',
           TextOf(box, room)', TextOf(suggested, room)', TextsOK',
           \A n \in Typed : n \in Typed' /\ texts'[n] = texts[n],
           \/ flow' = flow
           \/ flow' = [flow EXCEPT !.at = "picking"] /\ flow.at # "idle"
           \/ flow' = [flow EXCEPT !.at = "sending"] /\ flow.at # "idle"
           \/ flow' = NoFlow
           \/ flow' = [room |-> room, text |-> box, at |-> "preparing"] /\ box # Empty,
           \A s \in sends' : s \in sends \/ /\ s \in [to : Rooms, text : Text, byFlow : BOOLEAN]
                                            /\ s.text # Empty /\ TextOf(s.text, s.to)
    PROVE  ComposerInv'
<1>0. /\ room \in Rooms /\ states \in [Rooms -> Compose]
      /\ flow \in [room : Rooms \union {0}, text : Text, at : {"idle", "preparing", "picking", "sending"}]
      /\ sends \subseteq [to : Rooms, text : Text, byFlow : BOOLEAN]
      /\ TextOf(box, room) /\ box \in Text
      /\ \A r \in Rooms : TextOf(states[r].draft, r)
      /\ flow.at # "idle" => flow.room \in Rooms /\ flow.text # Empty /\ TextOf(flow.text, flow.room)
      /\ \A s \in sends : s.text # Empty /\ TextOf(s.text, s.to)
    BY ComposerFacts
<1>1. \A t, r : TextOf(t, r) => TextOf(t, r)'
    BY OfStays
<1>2. states' \in [Rooms -> Compose] /\ \A r \in Rooms : TextOf(states[r].draft, r)'
  <2>1. CASE states' = states
      BY <1>0, <1>1, <2>1
  <2>2. ASSUME NEW q \in Rooms, NEW c \in Compose, states' = [states EXCEPT ![q] = c], TextOf(c.draft, q)'
        PROVE  states' \in [Rooms -> Compose] /\ \A r \in Rooms : TextOf(states[r].draft, r)'
    <3>1. \A r \in Rooms : states'[r] = states[r] \/ (r = q /\ states'[r] = c)
        BY <1>0, <2>2
    <3>2. ASSUME NEW r \in Rooms PROVE TextOf(states[r].draft, r)'
        BY <1>0, <1>1, <2>2, <3>1
    <3>3. QED
        BY <1>0, <2>2, <3>2
  <2>3. QED
      BY <2>1, <2>2
<1>3. /\ flow' \in [room : Rooms \union {0}, text : Text, at : {"idle", "preparing", "picking", "sending"}]
      /\ flow'.at # "idle" => flow'.room \in Rooms /\ flow'.text # Empty
      /\ flow'.at # "idle" => (flow'.room = flow.room /\ flow'.text = flow.text /\ flow.at # "idle")
                              \/ (flow'.room = room /\ flow'.text = box)
    BY <1>0, EmptyIsText DEF NoFlow
<1>4. flow'.at # "idle" => TextOf(flow.text, flow.room)'
    BY <1>0, <1>1, <1>3
<1>5. /\ sends' \subseteq [to : Rooms, text : Text, byFlow : BOOLEAN]
      /\ \A s \in sends' : s.text # Empty /\ TextOf(s.text, s.to)'
    BY <1>0, <1>1
<1>6. QED
    BY <1>2, <1>3, <1>4, <1>5 DEF ComposerInv, ComposerTypes, TextsOfRooms
LEMMA ComposerStepInv == ComposerInv /\ [ComposerNext]_composerVars => ComposerInv'
<1> SUFFICES ASSUME ComposerInv, [ComposerNext]_composerVars PROVE ComposerInv'
    OBVIOUS
<1>0. /\ room \in Rooms /\ states \in [Rooms -> Compose] /\ TextsOK
      /\ flow \in [room : Rooms \union {0}, text : Text, at : {"idle", "preparing", "picking", "sending"}]
      /\ TextOf(box, room) /\ TextOf(suggested, room) /\ box \in Text /\ suggested \in Text
      /\ \A r \in Rooms : TextOf(states[r].draft, r) /\ states[r].draft \in Text
      /\ flow.at # "idle" => flow.room \in Rooms /\ flow.text # Empty /\ TextOf(flow.text, flow.room)
      /\ \A s \in sends : s.text # Empty /\ TextOf(s.text, s.to) /\ s.to \in Rooms /\ s.text \in Text
    BY ComposerFacts
<1>1. \A r : TextOf(Empty, r) /\ TextOf(Empty, r)'
    BY EmptyIsText DEF TextOf
<1>2. /\ Blank \in Compose /\ Blank.draft = Empty
      /\ \A t \in Text : [Blank EXCEPT !.draft = t] \in Compose /\ [Blank EXCEPT !.draft = t].draft = t
      /\ \A t \in Text : [Blank EXCEPT !.draft = t, !.confirm = t] \in Compose
                         /\ [Blank EXCEPT !.draft = t, !.confirm = t].draft = t
    BY BlankIsCompose
<1>3. \A r \in Rooms : \A t \in Text :
         [states[r] EXCEPT !.draft = t] \in Compose /\ [states[r] EXCEPT !.draft = t].draft = t
    BY <1>0 DEF Compose
<1>4. ASSUME UNCHANGED texts, UNCHANGED times, fails' \in [Typed -> Nat]
      PROVE  /\ TextsOK' /\ \A n \in Typed : n \in Typed' /\ texts'[n] = texts[n]
             /\ \A t, r : TextOf(t, r) => TextOf(t, r)'
    BY <1>0, <1>4 DEF TextsOK, Typed, LastTyped, TextOf
<1>5. ASSUME NEW r \in Rooms, NewText(r)
      PROVE  /\ TextsOK' /\ \A n \in Typed : n \in Typed' /\ texts'[n] = texts[n]
             /\ TheNewText \in Text
             /\ \A t, q : TextOf(t, q) => TextOf(t, q)'
             /\ \A t : t = TheNewText => TextOf(t, r)'
  <2>1. /\ TextsOK' /\ \A n \in Typed : n \in Typed' /\ texts'[n] = texts[n]
        /\ TheNewText \in Text /\ TheNewText.n # 0
        /\ TheNewText.n \in Typed' /\ texts'[TheNewText.n] = r
      BY <1>0, <1>5, NewTextStep
  <2>2. QED
      BY <2>1 DEF TextOf
<1>6. CASE Type
  <2>1. /\ NewText(room) /\ box' = TheNewText /\ suggested' = Empty
        /\ states' = [states EXCEPT ![room] = [Blank EXCEPT !.draft = TheNewText]]
        /\ UNCHANGED <<room, flow, sends>>
      BY <1>6 DEF Type
  <2>2. /\ TextsOK' /\ \A n \in Typed : n \in Typed' /\ texts'[n] = texts[n]
        /\ TheNewText \in Text /\ \A t : t = TheNewText => TextOf(t, room)'
      BY <1>0, <1>5, <2>1
  <2>3. TextOf(box, room)' /\ TextOf(suggested, room)'
      BY <1>1, <2>1, <2>2
  <2>4. \E q \in Rooms, c \in Compose : states' = [states EXCEPT ![q] = c] /\ TextOf(c.draft, q)'
    <3>1. PICK c \in Compose : c = [Blank EXCEPT !.draft = TheNewText] /\ c.draft = TheNewText
        BY <1>2, <2>2
    <3>2. PICK q \in Rooms : q = room /\ q = room'
        BY <1>0, <2>1
    <3>3. TextOf(c.draft, q)'
        BY <2>1, <2>3, <3>1, <3>2
    <3>4. states' = [states EXCEPT ![q] = c]
        BY <2>1, <3>1, <3>2
    <3>5. QED
        BY <3>3, <3>4
  <2>5. QED
      BY <1>0, <2>1, <2>2, <2>3, <2>4, ComposerStep
\* A step that types nothing: a room gets a state whose draft is of that room.
<1>7. ASSUME UNCHANGED texts, UNCHANGED times, fails' \in [Typed -> Nat],
             room' \in Rooms, TextOf(box, room)', TextOf(suggested, room)',
             NEW q \in Rooms, NEW c \in Compose, TextOf(c.draft, q),
             states' = states \/ states' = [states EXCEPT ![q] = c],
             \/ flow' = flow
             \/ flow' = [flow EXCEPT !.at = "picking"] /\ flow.at # "idle"
             \/ flow' = NoFlow
             \/ flow' = [room |-> room, text |-> box, at |-> "preparing"] /\ box # Empty,
             sends' \subseteq sends
      PROVE  ComposerInv'
  <2>1. /\ TextsOK' /\ \A n \in Typed : n \in Typed' /\ texts'[n] = texts[n]
        /\ TextOf(c.draft, q)'
      BY <1>4, <1>7
  <2>2. \/ states' = states
        \/ \E r \in Rooms, d \in Compose : states' = [states EXCEPT ![r] = d] /\ TextOf(d.draft, r)'
      BY <1>7, <2>1
  <2>3. QED
      BY <1>7, <2>1, <2>2, ComposerStep
<1>8. fails \in [Typed -> Nat] /\ times \in [Typed -> Nat]
    BY <1>0 DEF TextsOK
<1>9. CASE Erase
  <2>1. /\ box' = Empty /\ suggested' = Empty /\ states' = [states EXCEPT ![room] = Blank]
        /\ UNCHANGED <<room, flow, sends, texts, times, fails>>
      BY <1>9 DEF Erase
  <2>2. TextOf(box, room)' /\ TextOf(suggested, room)'
      BY <1>1, <2>1
  <2>3. TextOf(Blank.draft, room)
      BY <1>1, <1>2
  <2>4. QED
      BY <1>0, <1>2, <1>7, <1>8, <2>1, <2>2, <2>3
<1>10. ASSUME NEW r \in Rooms, Enter(r) PROVE ComposerInv'
  <2>1. /\ room' = r /\ box' = states[r].draft /\ suggested' = Empty
        /\ states' = [states EXCEPT ![room].draft = box]
        /\ UNCHANGED <<flow, sends, texts, times, fails>>
      BY <1>10 DEF Enter
  <2>2. \A t, q : TextOf(t, q) => TextOf(t, q)'
      BY <1>4, <1>8, <2>1
  <2>3. TextOf(box, room)' /\ TextOf(suggested, room)'
      BY <1>0, <1>1, <2>1, <2>2
  <2>4. states' = [states EXCEPT ![room] = [states[room] EXCEPT !.draft = box]]
      BY <1>0, <2>1
  <2>5. [states[room] EXCEPT !.draft = box] \in Compose /\ [states[room] EXCEPT !.draft = box].draft = box
      BY <1>0, <1>3
  <2>6. PICK c \in Compose : c = [states[room] EXCEPT !.draft = box] /\ c.draft = box
      BY <2>5
  <2>7. states' = [states EXCEPT ![room] = c] /\ TextOf(c.draft, room) /\ room' \in Rooms
      BY <1>0, <2>1, <2>4, <2>6
  <2>8. QED
      BY <1>0, <1>7, <1>8, <2>1, <2>3, <2>7
<1>11. ASSUME NEW t \in Text, t # Empty, NEW r \in Rooms, TextOf(t, r),
              NEW s \in [to : Rooms, text : Text, byFlow : BOOLEAN], s.to = r, s.text = t,
              sends' = sends \union {s}, times' = [times EXCEPT ![t.n] = @ + 1],
              UNCHANGED <<texts, fails, room, suggested>>, states' = [states EXCEPT ![r] = Blank],
              TextOf(box, room)',
              flow' = flow \/ (flow' = [flow EXCEPT !.at = "sending"] /\ flow.at # "idle")
       PROVE  ComposerInv'
  <2>2. t.n \in Typed
      BY <1>11 DEF TextOf
  <2>3. times' \in [Typed -> Nat] /\ Typed' = Typed
      BY <1>8, <1>11, <2>2 DEF Typed
  <2>4. TextsOK'
      BY <1>0, <1>11, <2>3 DEF TextsOK, LastTyped
  <2>5. \A n \in Typed : n \in Typed' /\ texts'[n] = texts[n]
      BY <1>11, <2>3
  <2>6. \A u, q : TextOf(u, q) => TextOf(u, q)'
      BY <2>5, OfStays
  <2>7. TextOf(suggested, room)' /\ TextOf(Blank.draft, r)' /\ room' \in Rooms
      BY <1>0, <1>1, <1>2, <1>11, <2>6
  <2>8. \A u \in sends' : u \in sends \/ /\ u \in [to : Rooms, text : Text, byFlow : BOOLEAN]
                                         /\ u.text # Empty /\ TextOf(u.text, u.to)
      BY <1>11
  <2>9. \E q \in Rooms, c \in Compose : states' = [states EXCEPT ![q] = c] /\ TextOf(c.draft, q)'
    <3>1. PICK c \in Compose : c = Blank /\ c.draft = Empty
        BY <1>2
    <3>2. QED
        BY <1>1, <1>11, <3>1
  <2>10. QED
      BY <1>11, <2>4, <2>5, <2>7, <2>8, <2>9, ComposerStep
<1>12. CASE SubmitDirectly
  <2> DEFINE s == [to |-> room, text |-> box, byFlow |-> FALSE]
  <2>1. /\ box # Empty /\ box' = Empty
        /\ sends' = sends \union {s} /\ times' = [times EXCEPT ![box.n] = @ + 1]
        /\ states' = [states EXCEPT ![room] = Blank]
        /\ UNCHANGED <<room, flow, suggested, texts, fails>>
      BY <1>12 DEF SubmitDirectly, OptimisticClear, Sends
  <2>2. TextOf(box, room)'
      BY <1>1, <2>1
  <2>3. s \in [to : Rooms, text : Text, byFlow : BOOLEAN] /\ s.to = room /\ s.text = box
      BY <1>0
  <2> HIDE DEF s
  <2>4. QED
      BY <1>0, <1>11, <2>1, <2>2, <2>3
<1>13. CASE SubmitToFlow
  <2>1. /\ box # Empty /\ flow' = [room |-> room, text |-> box, at |-> "preparing"]
        /\ sends' \subseteq sends /\ states' = [states EXCEPT ![room].draft = box] /\ box' = Empty
        /\ UNCHANGED <<room, suggested, texts, times, fails>>
      BY <1>13 DEF SubmitToFlow
  <2>2. \A t, q : TextOf(t, q) => TextOf(t, q)'
      BY <1>4, <1>8, <2>1
  <2>3. TextOf(box, room)' /\ TextOf(suggested, room)'
      BY <1>0, <1>1, <2>1, <2>2
  <2>4. states' = [states EXCEPT ![room] = [states[room] EXCEPT !.draft = box]]
      BY <1>0, <2>1
  <2>5. PICK c \in Compose : c = [states[room] EXCEPT !.draft = box] /\ c.draft = box
      BY <1>0, <1>3
  <2>6. states' = [states EXCEPT ![room] = c] /\ TextOf(c.draft, room)
      BY <1>0, <2>4, <2>5
  <2>7. QED
      BY <1>0, <1>7, <1>8, <2>1, <2>3, <2>6
<1>14. CASE NotApplicable
  <2> DEFINE s == [to |-> flow.room, text |-> flow.text, byFlow |-> TRUE]
  <2>1. /\ flow.at = "preparing"
        /\ sends' = sends \union {s} /\ times' = [times EXCEPT ![flow.text.n] = @ + 1]
        /\ box' = IF flow.room = room /\ box = flow.text THEN Empty ELSE box
        /\ states' = [states EXCEPT ![flow.room] = Blank]
        /\ flow' = [flow EXCEPT !.at = "sending"]
        /\ UNCHANGED <<room, suggested, texts, fails>>
      BY <1>14 DEF NotApplicable, Sends
  <2>2. \A n \in Typed : n \in Typed' /\ texts'[n] = texts[n]
      BY <2>1 DEF Typed
  <2>3. TextOf(box, room)'
      BY <1>0, <1>1, <2>1, <2>2, OfStays
  <2>4. flow.text \in Text /\ flow.text # Empty /\ flow.room \in Rooms /\ TextOf(flow.text, flow.room)
      BY <1>0, <2>1
  <2>5. s \in [to : Rooms, text : Text, byFlow : BOOLEAN] /\ s.to = flow.room /\ s.text = flow.text
      BY <2>4
  <2> HIDE DEF s
  <2>6. QED
      BY <1>11, <2>1, <2>3, <2>4, <2>5
<1>15. CASE NotReady
  <2>1. /\ flow.at = "preparing" /\ IntoBox(flow.room, flow.text) /\ flow' = NoFlow
        /\ states' = [states EXCEPT ![flow.room] = [Blank EXCEPT !.draft = flow.text, !.confirm = flow.text]]
        /\ UNCHANGED <<room, sends, suggested, texts, times, fails>>
      BY <1>15 DEF NotReady
  <2>2. \A t, q : TextOf(t, q) => TextOf(t, q)'
      BY <1>4, <1>8, <2>1
  <2>3. flow.text \in Text /\ flow.room \in Rooms /\ TextOf(flow.text, flow.room)
      BY <1>0, <2>1
  <2>4. TextOf(box, room)' /\ TextOf(suggested, room)'
      BY <1>0, <2>1, <2>2, <2>3 DEF IntoBox
  <2>5. PICK c \in Compose :
           c = [Blank EXCEPT !.draft = flow.text, !.confirm = flow.text] /\ c.draft = flow.text
      BY <1>2, <2>3
  <2>6. states' = [states EXCEPT ![flow.room] = c] /\ TextOf(c.draft, flow.room)
      BY <2>1, <2>3, <2>5
  <2>7. QED
      BY <1>0, <1>7, <1>8, <2>1, <2>3, <2>4, <2>6
<1>16. CASE Offer
  <2>1. /\ flow.at = "preparing" /\ flow' = [flow EXCEPT !.at = "picking"]
        /\ UNCHANGED <<room, box, states, sends, suggested, texts, times, fails>>
      BY <1>16 DEF Offer
  <2>2. TextOf(box, room)' /\ TextOf(suggested, room)'
      BY <1>0, <1>4, <1>8, <2>1
  <2>3. QED
      BY <1>0, <1>1, <1>2, <1>7, <1>8, <2>1, <2>2
<1>17. CASE Pick
  <2>1. /\ flow.at = "picking" /\ flow' = NoFlow
        /\ UNCHANGED <<room, sends, suggested, texts, times, fails>>
      BY <1>17 DEF Pick
  <2>2. \A t, q : TextOf(t, q) => TextOf(t, q)'
      BY <1>4, <1>8, <2>1
  <2>3. flow.text \in Text /\ flow.room \in Rooms /\ TextOf(flow.text, flow.room) /\ flow.text # Empty
      BY <1>0, <2>1
  <2>4. Variant(flow.text) \in Text /\ Variant(flow.text).n = flow.text.n /\ Variant(flow.text) # Empty
      BY <2>3 DEF Variant, Text, Empty
  <2>5. TextOf(Variant(flow.text), flow.room)
      BY <2>3, <2>4 DEF TextOf
  <2>6. \E t \in {flow.text, Variant(flow.text)} : box' = IF flow.room = room THEN t ELSE box
      BY <1>17 DEF Pick, Picked, IntoBox
  <2>7. TextOf(box, room)' /\ TextOf(suggested, room)'
      BY <1>0, <2>1, <2>2, <2>3, <2>5, <2>6
  <2>8. \/ states' = [states EXCEPT ![flow.room] =
                         [draft |-> Variant(flow.text), source |-> flow.text, confirm |-> Empty]]
        \/ states' = [states EXCEPT ![flow.room] =
                         [draft |-> flow.text, source |-> Empty, confirm |-> flow.text]]
        \/ states' = states
      BY <1>17 DEF Pick
  <2>9. /\ [draft |-> Variant(flow.text), source |-> flow.text, confirm |-> Empty] \in Compose
        /\ [draft |-> flow.text, source |-> Empty, confirm |-> flow.text] \in Compose
      BY <2>3, <2>4, EmptyIsText DEF Compose
  <2>10. \E c \in Compose : /\ states' = states \/ states' = [states EXCEPT ![flow.room] = c]
                            /\ TextOf(c.draft, flow.room)
      BY <1>1, <1>2, <2>3, <2>5, <2>8, <2>9
  <2>11. PICK c \in Compose : /\ states' = states \/ states' = [states EXCEPT ![flow.room] = c]
                              /\ TextOf(c.draft, flow.room)
      BY <2>10
  <2>12. QED
      BY <1>0, <1>7, <1>8, <2>1, <2>3, <2>7, <2>11
<1>18. ASSUME NEW s \in sends, SendDone(s) PROVE ComposerInv'
  <2> DEFINE t == IF states[s.to].draft = s.text THEN Empty ELSE states[s.to].draft
  <2>1. /\ sends' \subseteq sends /\ states' = [states EXCEPT ![s.to] = [Blank EXCEPT !.draft = t]]
        /\ box' = IF s.to = room /\ box = s.text THEN Empty ELSE box
        /\ flow' = NoFlow \/ flow' = flow
        /\ UNCHANGED <<room, suggested, texts, times, fails>>
      BY <1>18 DEF SendDone, FlowAfter
  <2>2. s.to \in Rooms /\ t \in Text /\ TextOf(t, s.to)
      BY <1>0, <1>1, EmptyIsText
  <2> HIDE DEF t
  <2>3. \A u, q : TextOf(u, q) => TextOf(u, q)'
      BY <1>4, <1>8, <2>1
  <2>4. TextOf(box, room)' /\ TextOf(suggested, room)'
      BY <1>0, <1>1, <2>1, <2>3
  <2>5. PICK c \in Compose : c = [Blank EXCEPT !.draft = t] /\ c.draft = t
      BY <1>2, <2>2
  <2>6. states' = [states EXCEPT ![s.to] = c] /\ TextOf(c.draft, s.to)
      BY <2>1, <2>2, <2>5
  <2>7. QED
      BY <1>0, <1>7, <1>8, <2>1, <2>2, <2>4, <2>6
<1>19. ASSUME NEW s \in sends, SendFails(s) PROVE ComposerInv'
  <2>1. /\ sends' \subseteq sends /\ states' = [states EXCEPT ![s.to].draft = s.text]
        /\ fails' = [fails EXCEPT ![s.text.n] = @ + 1]
        /\ box' = IF s.to = room /\ box = Empty THEN s.text ELSE box
        /\ flow' = NoFlow \/ flow' = flow
        /\ UNCHANGED <<room, suggested, texts, times>>
      BY <1>19 DEF SendFails, FlowAfter
  <2>2. s.to \in Rooms /\ s.text \in Text /\ TextOf(s.text, s.to)
      BY <1>0
  <2>3. fails' \in [Typed -> Nat]
    <3>1. s.text.n \in Typed
        BY <1>0 DEF TextOf
    <3>2. QED
        BY <1>8, <2>1, <3>1
  <2>4. \A u, q : TextOf(u, q) => TextOf(u, q)'
      BY <1>4, <2>1, <2>3
  <2>5. TextOf(box, room)' /\ TextOf(suggested, room)'
      BY <1>0, <2>1, <2>2, <2>4
  <2>6. states' = [states EXCEPT ![s.to] = [states[s.to] EXCEPT !.draft = s.text]]
      BY <1>0, <2>1, <2>2
  <2>7. PICK c \in Compose : c = [states[s.to] EXCEPT !.draft = s.text] /\ c.draft = s.text
      BY <1>3, <2>2
  <2>8. states' = [states EXCEPT ![s.to] = c] /\ TextOf(c.draft, s.to)
      BY <2>2, <2>6, <2>7
  <2>9. QED
      BY <1>0, <1>7, <2>1, <2>2, <2>3, <2>5, <2>8
<1>20. CASE Think
  <2>1. UNCHANGED <<room, box, states, flow, sends, suggested, texts, times, fails>>
      BY <1>20 DEF Think
  <2>2. TextOf(box, room)' /\ TextOf(suggested, room)'
      BY <1>0, <1>4, <1>8, <2>1
  <2>3. QED
      BY <1>0, <1>1, <1>2, <1>7, <1>8, <2>1, <2>2
<1>21. ASSUME NEW r \in Rooms, Suggest(r) PROVE ComposerInv'
  <2>1. UNCHANGED <<room, box, states, flow, sends>>
      BY <1>21 DEF Suggest
  <2>2. CASE StillWanted(r)
    <3>1. NewText(r) /\ suggested' = TheNewText /\ r = room
        BY <1>21, <2>2 DEF Suggest, StillWanted
    <3>2. /\ TextsOK' /\ \A n \in Typed : n \in Typed' /\ texts'[n] = texts[n]
          /\ \A t, q : TextOf(t, q) => TextOf(t, q)'
          /\ \A t : t = TheNewText => TextOf(t, r)'
        BY <1>5, <3>1
    <3>3. TextOf(box, room)' /\ TextOf(suggested, room)'
        BY <1>0, <2>1, <3>1, <3>2
    <3>4. QED
        BY <1>0, <2>1, <3>2, <3>3, ComposerStep
  <2>3. CASE ~ StillWanted(r)
    <3>1. UNCHANGED <<suggested, texts, times, fails>>
        BY <1>21, <2>3 DEF Suggest
    <3>2. TextOf(box, room)' /\ TextOf(suggested, room)'
        BY <1>0, <1>4, <1>8, <2>1, <3>1
    <3>3. QED
        BY <1>0, <1>1, <1>2, <1>7, <1>8, <2>1, <3>1, <3>2
  <2>4. QED
      BY <2>2, <2>3
<1>22. CASE Accept
  <2>1. /\ box' = suggested /\ suggested' = Empty /\ states' = [states EXCEPT ![room].draft = suggested]
        /\ UNCHANGED <<room, flow, sends, texts, times, fails>>
      BY <1>22 DEF Accept
  <2>2. \A t, q : TextOf(t, q) => TextOf(t, q)'
      BY <1>4, <1>8, <2>1
  <2>3. TextOf(box, room)' /\ TextOf(suggested, room)'
      BY <1>0, <1>1, <2>1, <2>2
  <2>4. states' = [states EXCEPT ![room] = [states[room] EXCEPT !.draft = suggested]]
      BY <1>0, <2>1
  <2>5. PICK c \in Compose : c = [states[room] EXCEPT !.draft = suggested] /\ c.draft = suggested
      BY <1>0, <1>3
  <2>6. states' = [states EXCEPT ![room] = c] /\ TextOf(c.draft, room)
      BY <1>0, <2>4, <2>5
  <2>7. QED
      BY <1>0, <1>7, <1>8, <2>1, <2>3, <2>6
<1>23. CASE UNCHANGED composerVars
  <2>1. UNCHANGED <<room, box, states, flow, sends, suggested, texts, times, fails>>
      BY <1>23 DEF composerVars
  <2>2. TextOf(box, room)' /\ TextOf(suggested, room)'
      BY <1>0, <1>4, <1>8, <2>1
  <2>3. QED
      BY <1>0, <1>1, <1>2, <1>7, <1>8, <2>1, <2>2
<1>24. QED
    BY <1>6, <1>9, <1>10, <1>12, <1>13, <1>14, <1>15, <1>16, <1>17, <1>18, <1>19, <1>20, <1>21,
       <1>22, <1>23
    DEF ComposerNext

\* The composer, its drafts, the outbound flow, the sends and the suggester: a
\* text goes to the room it was typed in or suggested for, although rooms are
\* switched at every point between typing, translating, picking and sending.
THEOREM NeverToAnotherRoom == ComposerSpec => []RightRecipient
<1>1. ComposerInv => RightRecipient
  <2>1. ASSUME ComposerInv, NEW s \in sends PROVE texts[s.text.n] = s.to
      BY <2>1, ComposerFacts DEF TextOf
  <2>2. QED
      BY <2>1 DEF RightRecipient
<1>2. QED
    BY ComposerInitInv, ComposerStepInv, <1>1, PTL DEF ComposerSpec
-----------------------------------------------------------------------------
(* The composer: how often a text is sent *)

CopiesInv == OneCopy /\ Sendable /\ SentAsOftenAsTyped

LEMMA CopiesInitInv == ComposerInit => CopiesInv
<1> SUFFICES ASSUME ComposerInit PROVE CopiesInv
    OBVIOUS
<1>1. Typed = {} /\ DOMAIN texts = {}
    BY DEF ComposerInit, Typed
<1>2. InFlow = 0 /\ box.n = 0 /\ suggested.n = 0 /\ sends = {} /\ \A r \in Rooms : Kept(r) = 0
    BY EmptyIsText DEF ComposerInit, InFlow, NoFlow, Kept, Blank
<1>3. QED
    BY <1>1, <1>2 DEF CopiesInv, OneCopy, Apart, Sendable, Unsent, SentAsOftenAsTyped

\* The numbers of the texts there are.
LEMMA NumbersTyped ==
    ASSUME ComposerInv
    PROVE  /\ box.n = 0 <=> box = Empty
           /\ box.n # 0 => box.n \in Typed
           /\ suggested.n # 0 => suggested.n \in Typed
           /\ InFlow # 0 => InFlow \in Typed
           /\ \A r \in Rooms : Kept(r) # 0 => Kept(r) \in Typed
           /\ \A s \in sends : s.text.n # 0 /\ s.text.n \in Typed
           /\ times \in [Typed -> Nat] /\ fails \in [Typed -> Nat] /\ 0 \notin Typed
<1>1. box.n = 0 <=> box = Empty
    BY ComposerFacts, EmptyIsText DEF TextOf
<1>2. /\ box.n # 0 => box.n \in Typed
      /\ suggested.n # 0 => suggested.n \in Typed
    BY ComposerFacts, EmptyIsText DEF TextOf
<1>3. InFlow # 0 => InFlow \in Typed
    BY ComposerFacts, EmptyIsText DEF TextOf, InFlow
<1>4. \A r \in Rooms : Kept(r) # 0 => Kept(r) \in Typed
    BY ComposerFacts, EmptyIsText DEF TextOf, Kept
<1>5. \A s \in sends : s.text.n # 0 /\ s.text.n \in Typed
    BY ComposerFacts DEF TextOf
<1>6. times \in [Typed -> Nat] /\ fails \in [Typed -> Nat] /\ 0 \notin Typed
    BY ComposerFacts DEF TextsOK
<1>7. QED
    BY <1>1, <1>2, <1>3, <1>4, <1>5, <1>6

\* Copies may go, and one that is left may move, while nothing is sent.
LEMMA CopiesGo ==
    ASSUME ComposerInv, CopiesInv, UNCHANGED <<texts, times, fails>>, sends' \subseteq sends,
           box'.n \in {0, box.n}, suggested'.n \in {0, suggested.n}, InFlow' \in {0, InFlow},
           \A r \in Rooms : Kept(r)' \in {0, Kept(r)}
    PROVE  CopiesInv'
<1>1. OneCopy /\ Sendable /\ SentAsOftenAsTyped
    BY DEF CopiesInv
<1>2. /\ Apart(box.n, suggested.n)' /\ Apart(box.n, InFlow)' /\ Apart(suggested.n, InFlow)'
    BY <1>1 DEF OneCopy, Apart
<1>3. ASSUME NEW r \in Rooms
      PROVE  Apart(Kept(r), box.n)' /\ Apart(Kept(r), suggested.n)' /\ Apart(Kept(r), InFlow)'
    BY <1>1 DEF OneCopy, Apart
<1>4. ASSUME NEW q \in Rooms, NEW r \in Rooms, q # r PROVE Apart(Kept(q), Kept(r))'
    BY <1>1, <1>4 DEF OneCopy, Apart
<1>5. ASSUME NEW s \in sends'
      PROVE  /\ s.text.n # box'.n /\ s.text.n # suggested'.n /\ s.text.n # InFlow'
             /\ \A r \in Rooms : s.text.n # Kept(r)'
    BY <1>1, NumbersTyped DEF OneCopy
<1>6. OneCopy'
    BY <1>1, <1>2, <1>3, <1>4, <1>5 DEF OneCopy
<1>7. \A n : Unsent(n) => Unsent(n)'
    BY DEF Unsent, Typed
<1>8. \A n : n = 0 => Unsent(n)'
    BY NumbersTyped DEF Unsent, Typed
<1>9. Sendable'
    BY <1>1, <1>7, <1>8 DEF Sendable
<1>10. SentAsOftenAsTyped'
    BY <1>1 DEF SentAsOftenAsTyped
<1>11. QED
    BY <1>6, <1>9, <1>10 DEF CopiesInv
\* The text numbered n, a new one, one that moves or one whose send failed, is in
\* one place and not on its way; the others stay or go.
LEMMA CopyMoves ==
    ASSUME ComposerInv, CopiesInv, NEW n \in Nat \ {0}, sends' \subseteq sends,
           box'.n \in {0, box.n, n}, suggested'.n \in {0, suggested.n, n}, InFlow' \in {0, InFlow, n},
           \A r \in Rooms : Kept(r)' \in {0, Kept(r), n},
           box'.n = n => suggested'.n # n /\ InFlow' # n /\ \A r \in Rooms : Kept(r)' # n,
           suggested'.n = n => InFlow' # n /\ \A r \in Rooms : Kept(r)' # n,
           InFlow' = n => \A r \in Rooms : Kept(r)' # n,
           \A q, r \in Rooms : Kept(q)' = n /\ Kept(r)' = n => q = r,
           \A s \in sends' : s.text.n # n,
           n \in Typed' => times'[n] <= fails'[n] /\ times'[n] \in Nat /\ fails'[n] \in Nat,
           \A m \in Typed' : m # n => m \in Typed /\ times'[m] = times[m] /\ fails'[m] = fails[m],
           0 \notin Typed'
    PROVE  CopiesInv'
<1>1. OneCopy /\ Sendable /\ SentAsOftenAsTyped
    BY DEF CopiesInv
<1>2. /\ Apart(box.n, suggested.n)' /\ Apart(box.n, InFlow)' /\ Apart(suggested.n, InFlow)'
    BY <1>1 DEF OneCopy, Apart
<1>3. ASSUME NEW r \in Rooms
      PROVE  Apart(Kept(r), box.n)' /\ Apart(Kept(r), suggested.n)' /\ Apart(Kept(r), InFlow)'
    BY <1>1 DEF OneCopy, Apart
<1>4. ASSUME NEW q \in Rooms, NEW r \in Rooms, q # r PROVE Apart(Kept(q), Kept(r))'
    BY <1>1, <1>4 DEF OneCopy, Apart
<1>5. ASSUME NEW s \in sends'
      PROVE  /\ s.text.n # box'.n /\ s.text.n # suggested'.n /\ s.text.n # InFlow'
             /\ \A r \in Rooms : s.text.n # Kept(r)'
    BY <1>1, NumbersTyped DEF OneCopy
<1>6. OneCopy'
    BY <1>1, <1>2, <1>3, <1>4, <1>5 DEF OneCopy
<1>7. \A m : Unsent(m) => Unsent(m)'
    BY DEF Unsent
<1>8. \A m : m \in {0, n} => Unsent(m)'
    BY DEF Unsent
<1>9. Sendable'
    BY <1>1, <1>7, <1>8 DEF Sendable
<1>10. SentAsOftenAsTyped'
  <2>1. ASSUME NEW m \in Typed' PROVE times'[m] <= 1 + fails'[m]
    <3>1. CASE m = n
        BY <2>1, <3>1, NumbersTyped
    <3>2. CASE m # n
        BY <1>1, <2>1, <3>2 DEF SentAsOftenAsTyped, Typed
    <3>3. QED
        BY <3>1, <3>2
  <2>2. QED
      BY <2>1 DEF SentAsOftenAsTyped, Typed
<1>11. QED
    BY <1>6, <1>9, <1>10 DEF CopiesInv

\* The text numbered n, of which there was a copy, is handed to the client; the
\* copy is gone, the others stay or go.
LEMMA CopySent ==
    ASSUME ComposerInv, CopiesInv, NEW s, s.text.n \in Typed, times[s.text.n] <= fails[s.text.n],
           \A t \in sends : t.text.n # s.text.n,
           sends' = sends \union {s}, times' = [times EXCEPT ![s.text.n] = @ + 1],
           UNCHANGED <<texts, fails>>,
           box'.n \in {0, box.n} \ {s.text.n}, suggested'.n \in {0, suggested.n} \ {s.text.n},
           InFlow' \in {0, InFlow} \ {s.text.n},
           \A r \in Rooms : Kept(r)' \in {0, Kept(r)} \ {s.text.n}
    PROVE  CopiesInv'
<1>1. OneCopy /\ Sendable /\ SentAsOftenAsTyped
    BY DEF CopiesInv
<1>2. /\ Apart(box.n, suggested.n)' /\ Apart(box.n, InFlow)' /\ Apart(suggested.n, InFlow)'
    BY <1>1 DEF OneCopy, Apart
<1>3. ASSUME NEW r \in Rooms
      PROVE  Apart(Kept(r), box.n)' /\ Apart(Kept(r), suggested.n)' /\ Apart(Kept(r), InFlow)'
    BY <1>1 DEF OneCopy, Apart
<1>4. ASSUME NEW q \in Rooms, NEW r \in Rooms, q # r PROVE Apart(Kept(q), Kept(r))'
    BY <1>1, <1>4 DEF OneCopy, Apart
<1>5. ASSUME NEW t \in sends'
      PROVE  /\ t.text.n # box'.n /\ t.text.n # suggested'.n /\ t.text.n # InFlow'
             /\ \A r \in Rooms : t.text.n # Kept(r)'
    BY <1>1, NumbersTyped DEF OneCopy
<1>6. \A t, u \in sends' : t.text.n = u.text.n => t = u
    BY <1>1 DEF OneCopy
<1>7. OneCopy'
    BY <1>2, <1>3, <1>4, <1>5, <1>6 DEF OneCopy
<1>8. /\ times \in [Typed -> Nat] /\ fails \in [Typed -> Nat] /\ 0 \notin Typed /\ Typed' = Typed
    BY NumbersTyped DEF Typed
<1>9. /\ times'[s.text.n] = times[s.text.n] + 1
      /\ \A m \in Typed : m # s.text.n => times'[m] = times[m]
    BY <1>8
<1>10. \A m : m # s.text.n /\ Unsent(m) => Unsent(m)'
    BY <1>8, <1>9 DEF Unsent
<1>11. \A m : m = 0 => Unsent(m)'
    BY <1>8 DEF Unsent
<1>12. Sendable'
    BY <1>1, <1>10, <1>11 DEF Sendable
<1>13. SentAsOftenAsTyped'
  <2>1. ASSUME NEW m \in Typed PROVE times'[m] <= 1 + fails[m]
      BY <1>1, <1>8, <1>9 DEF SentAsOftenAsTyped, Typed
  <2>2. QED
      BY <1>8, <2>1 DEF SentAsOftenAsTyped, Typed
<1>14. QED
    BY <1>7, <1>12, <1>13 DEF CopiesInv
LEMMA CopiesStepInv == ASSUME ComposerInv, CopiesInv, ComposerNext PROVE CopiesInv'
<1>0. /\ room \in Rooms /\ states \in [Rooms -> Compose] /\ TextsOK
      /\ flow \in [room : Rooms \union {0}, text : Text, at : {"idle", "preparing", "picking", "sending"}]
      /\ box \in Text /\ suggested \in Text
      /\ \A r \in Rooms : TextOf(states[r].draft, r) /\ states[r].draft \in Text
      /\ flow.at # "idle" => flow.room \in Rooms /\ flow.text # Empty /\ TextOf(flow.text, flow.room)
      /\ \A s \in sends : s.text # Empty /\ TextOf(s.text, s.to) /\ s.to \in Rooms /\ s.text \in Text
    BY ComposerFacts
<1>1. /\ box.n = 0 <=> box = Empty
      /\ box.n # 0 => box.n \in Typed
      /\ suggested.n # 0 => suggested.n \in Typed
      /\ InFlow # 0 => InFlow \in Typed
      /\ \A r \in Rooms : Kept(r) # 0 => Kept(r) \in Typed
      /\ \A s \in sends : s.text.n # 0 /\ s.text.n \in Typed
      /\ times \in [Typed -> Nat] /\ fails \in [Typed -> Nat] /\ 0 \notin Typed
    BY NumbersTyped
<1>2. OneCopy /\ Sendable /\ SentAsOftenAsTyped
    BY DEF CopiesInv
<1>3. Typed \subseteq Nat /\ Empty.n = 0
    BY <1>0, EmptyIsText DEF TextsOK
<1>4. ASSUME NEW r \in Rooms, NewText(r)
      PROVE  /\ TheNewText.n \in Nat \ {0} /\ TheNewText.n \notin Typed
             /\ times'[TheNewText.n] = 0 /\ fails'[TheNewText.n] = 0
             /\ \A m \in Typed' : m # TheNewText.n => m \in Typed /\ times'[m] = times[m] /\ fails'[m] = fails[m]
             /\ 0 \notin Typed'
  <2>1. /\ TheNewText \in Text
        /\ TheNewText.n \notin Typed /\ TheNewText.n # 0
        /\ times'[TheNewText.n] = 0 /\ fails'[TheNewText.n] = 0
        /\ \A n \in Typed : n \in Typed' /\ times'[n] = times[n] /\ fails'[n] = fails[n]
        /\ \A n \in Typed' : n \in Typed \/ n = TheNewText.n
      BY <1>0, <1>4, NewTextStep
  <2>2. TheNewText.n \in Nat
      BY <2>1 DEF Text
  <2>3. QED
      BY <1>1, <2>1, <2>2
<1>5. CASE Type
  <2>1. /\ NewText(room) /\ box' = TheNewText /\ suggested' = Empty
        /\ states' = [states EXCEPT ![room] = [Blank EXCEPT !.draft = TheNewText]]
        /\ UNCHANGED <<room, flow, sends>>
      BY <1>5 DEF Type
  <2>2. PICK n \in Nat \ {0} : n = TheNewText.n
      BY <1>0, <1>4, <2>1
  <2>3. /\ n \notin Typed /\ times'[n] = 0 /\ fails'[n] = 0
        /\ \A m \in Typed' : m # n => m \in Typed /\ times'[m] = times[m] /\ fails'[m] = fails[m]
        /\ 0 \notin Typed'
      BY <1>0, <1>4, <2>1, <2>2
  <2>4. InFlow' = InFlow
      BY <2>1 DEF InFlow
  <2>5. \A r \in Rooms : Kept(r)' = Kept(r)
      BY <1>0, <2>1 DEF Kept
  <2>6. box'.n = n /\ suggested'.n = 0
      BY <1>3, <2>1, <2>2
  <2>7. /\ InFlow' # n /\ \A r \in Rooms : Kept(r)' # n
        /\ \A s \in sends' : s.text.n # n
      BY <1>1, <2>1, <2>3, <2>4, <2>5
  <2>8. QED
      BY <2>1, <2>3, <2>4, <2>5, <2>6, <2>7, CopyMoves
<1>6. ASSUME NEW q \in Rooms, NEW c \in Compose, room' = room, states' = [states EXCEPT ![q] = c]
      PROVE  \A r \in Rooms : Kept(r)' = IF r = q /\ r # room THEN c.draft.n ELSE Kept(r)
    BY <1>0, <1>6 DEF Kept
<1>7. /\ Blank \in Compose /\ Blank.draft.n = 0
      /\ \A t \in Text : [Blank EXCEPT !.draft = t] \in Compose /\ [Blank EXCEPT !.draft = t].draft = t
      /\ \A t \in Text : [Blank EXCEPT !.draft = t, !.confirm = t] \in Compose
                         /\ [Blank EXCEPT !.draft = t, !.confirm = t].draft = t
    BY <1>0, <1>3, BlankIsCompose DEF Compose
<1>8. ASSUME NEW t \in Text, NEW q \in Rooms, states' = [states EXCEPT ![q].draft = t]
      PROVE  \E c \in Compose : states' = [states EXCEPT ![q] = c] /\ c.draft = t
  <2>1. states[q] \in Compose
      BY <1>0
  <2>2. [states[q] EXCEPT !.draft = t] \in Compose /\ [states[q] EXCEPT !.draft = t].draft = t
      BY <2>1 DEF Compose
  <2>3. states' = [states EXCEPT ![q] = [states[q] EXCEPT !.draft = t]]
      BY <1>0, <1>8
  <2>4. QED
      BY <2>2, <2>3
<1>9. CASE Erase
  <2>1. /\ box' = Empty /\ suggested' = Empty /\ states' = [states EXCEPT ![room] = Blank]
        /\ UNCHANGED <<room, flow, sends, texts, times, fails>>
      BY <1>9 DEF Erase
  <2>2. \A r \in Rooms : Kept(r)' = Kept(r)
      BY <1>0, <1>6, <1>7, <2>1
  <2>3. InFlow' = InFlow
      BY <2>1 DEF InFlow
  <2>4. QED
      BY <1>3, <2>1, <2>2, <2>3, CopiesGo
<1>10. ASSUME NEW r \in Rooms, Enter(r) PROVE CopiesInv'
  <2>1. /\ room' = r /\ box' = states[r].draft /\ suggested' = Empty /\ r # room
        /\ states' = [states EXCEPT ![room].draft = box]
        /\ UNCHANGED <<flow, sends, texts, times, fails>>
      BY <1>10 DEF Enter
  <2>2. PICK c \in Compose : states' = [states EXCEPT ![room] = c] /\ c.draft = box
      BY <1>0, <1>8, <2>1
  <2>4. /\ box'.n = Kept(r) /\ suggested'.n = 0 /\ InFlow' = InFlow
        /\ \A q \in Rooms : Kept(q)' = IF q = r THEN 0 ELSE IF q = room THEN box.n ELSE Kept(q)
      BY <1>0, <1>3, <2>1, <2>2 DEF Kept, InFlow
  <2>5. /\ Apart(box.n, suggested.n)' /\ Apart(box.n, InFlow)' /\ Apart(suggested.n, InFlow)'
      BY <1>2, <2>4 DEF OneCopy, Apart
  <2>6. ASSUME NEW q \in Rooms
        PROVE  Apart(Kept(q), box.n)' /\ Apart(Kept(q), suggested.n)' /\ Apart(Kept(q), InFlow)'
      BY <1>0, <1>2, <2>4 DEF OneCopy, Apart
  <2>7. ASSUME NEW p \in Rooms, NEW q \in Rooms, p # q PROVE Apart(Kept(p), Kept(q))'
      BY <1>0, <1>2, <2>4, <2>7 DEF OneCopy, Apart
  <2>8. ASSUME NEW s \in sends'
        PROVE  /\ s.text.n # box'.n /\ s.text.n # suggested'.n /\ s.text.n # InFlow'
               /\ \A q \in Rooms : s.text.n # Kept(q)'
      BY <1>1, <1>2, <2>1, <2>4 DEF OneCopy
  <2>9. OneCopy'
      BY <1>2, <2>1, <2>5, <2>6, <2>7, <2>8 DEF OneCopy
  <2>10. \A n : Unsent(n) => Unsent(n)'
      BY <2>1 DEF Unsent, Typed
  <2>11. \A n : n = 0 => Unsent(n)'
      BY <1>1, <2>1 DEF Unsent, Typed
  <2>12. Sendable'
      BY <1>0, <1>2, <2>4, <2>10, <2>11 DEF Sendable
  <2>13. SentAsOftenAsTyped'
      BY <1>2, <2>1 DEF SentAsOftenAsTyped
  <2>14. QED
      BY <2>9, <2>12, <2>13 DEF CopiesInv
<1>11. CASE SubmitDirectly
  <2> DEFINE s == [to |-> room, text |-> box, byFlow |-> FALSE]
  <2>1. /\ box # Empty /\ box' = Empty
        /\ sends' = sends \union {s} /\ times' = [times EXCEPT ![box.n] = @ + 1]
        /\ states' = [states EXCEPT ![room] = Blank]
        /\ UNCHANGED <<room, flow, suggested, texts, fails>>
      BY <1>11 DEF SubmitDirectly, OptimisticClear, Sends
  <2>2. s.text = box
      OBVIOUS
  <2> HIDE DEF s
  <2>3. \A r \in Rooms : Kept(r)' = Kept(r)
      BY <1>0, <1>6, <1>7, <2>1
  <2>4. InFlow' = InFlow /\ box'.n = 0
      BY <1>3, <2>1 DEF InFlow
  <2>5. /\ box.n # 0 /\ box.n \in Typed /\ times[box.n] <= fails[box.n]
        /\ suggested.n # box.n /\ InFlow # box.n /\ \A r \in Rooms : Kept(r) # box.n
        /\ \A t \in sends : t.text.n # box.n
      BY <1>1, <1>2, <2>1 DEF OneCopy, Apart, Sendable, Unsent
  <2>6. QED
      BY <2>1, <2>2, <2>3, <2>4, <2>5, CopySent
<1>12. CASE SubmitToFlow
  <2>1. /\ box # Empty /\ flow' = [room |-> room, text |-> box, at |-> "preparing"]
        /\ sends' \subseteq sends /\ states' = [states EXCEPT ![room].draft = box] /\ box' = Empty
        /\ UNCHANGED <<room, suggested, texts, times, fails>>
      BY <1>12 DEF SubmitToFlow
  <2>2. PICK c \in Compose : states' = [states EXCEPT ![room] = c] /\ c.draft = box
      BY <1>0, <1>8, <2>1
  <2>4. \A r \in Rooms : Kept(r)' = Kept(r)
      BY <1>0, <1>6, <2>1, <2>2
  <2>5. InFlow' = box.n /\ box'.n = 0
      BY <1>3, <2>1 DEF InFlow
  <2>6. /\ box.n # 0 /\ box.n \in Typed /\ times[box.n] <= fails[box.n]
        /\ suggested.n # box.n /\ \A r \in Rooms : Kept(r) # box.n
        /\ \A t \in sends : t.text.n # box.n
      BY <1>1, <1>2, <2>1 DEF OneCopy, Apart, Sendable, Unsent
  <2>7. PICK n \in Nat \ {0} : n = box.n
      BY <1>3, <2>6
  <2>8. /\ n \in Typed' => times'[n] <= fails'[n] /\ times'[n] \in Nat /\ fails'[n] \in Nat
        /\ \A m \in Typed' : m # n => m \in Typed /\ times'[m] = times[m] /\ fails'[m] = fails[m]
        /\ 0 \notin Typed'
      BY <1>1, <2>1, <2>6, <2>7 DEF Typed
  <2>9. /\ box'.n # n /\ suggested'.n # n /\ suggested'.n = suggested.n
        /\ \A r \in Rooms : Kept(r)' # n
        /\ \A t \in sends' : t.text.n # n
      BY <2>1, <2>4, <2>5, <2>6, <2>7
  <2>10. QED
      BY <2>1, <2>4, <2>5, <2>7, <2>8, <2>9, CopyMoves
<1>13. CASE NotApplicable
  <2> DEFINE s == [to |-> flow.room, text |-> flow.text, byFlow |-> TRUE]
  <2>1. /\ flow.at = "preparing"
        /\ sends' = sends \union {s} /\ times' = [times EXCEPT ![flow.text.n] = @ + 1]
        /\ box' = IF flow.room = room /\ box = flow.text THEN Empty ELSE box
        /\ states' = [states EXCEPT ![flow.room] = Blank]
        /\ flow' = [flow EXCEPT !.at = "sending"]
        /\ UNCHANGED <<room, suggested, texts, fails>>
      BY <1>13 DEF NotApplicable, Sends
  <2>2. s.text = flow.text
      OBVIOUS
  <2> HIDE DEF s
  <2>3. InFlow = flow.text.n /\ InFlow # 0 /\ InFlow \in Typed
      BY <1>0, <1>1, <2>1, EmptyIsText DEF InFlow, TextOf
  <2>4. InFlow' = 0
      BY <1>0, <2>1 DEF InFlow
  <2>5. \A r \in Rooms : Kept(r)' \in {0, Kept(r)}
    <3>1. flow.room \in Rooms
        BY <1>0, <2>1
    <3>2. PICK c \in Compose : c = Blank /\ c.draft.n = 0
        BY <1>7
    <3>3. states' = [states EXCEPT ![flow.room] = c] /\ room' = room
        BY <2>1, <3>2
    <3>4. \A r \in Rooms : Kept(r)' = IF r = flow.room /\ r # room THEN c.draft.n ELSE Kept(r)
        BY <1>6, <3>1, <3>3
    <3>5. QED
        BY <3>2, <3>4
  <2>6. box'.n \in {0, box.n}
      BY <1>3, <2>1
  <2>7. /\ times[InFlow] <= fails[InFlow]
        /\ suggested.n # InFlow /\ box.n # InFlow /\ \A r \in Rooms : Kept(r) # InFlow
        /\ \A t \in sends : t.text.n # InFlow
      BY <1>1, <1>2, <2>3 DEF OneCopy, Apart, Sendable, Unsent
  <2>8. /\ box'.n \in {0, box.n} \ {s.text.n} /\ suggested'.n \in {0, suggested.n} \ {s.text.n}
        /\ InFlow' \in {0, InFlow} \ {s.text.n}
        /\ \A r \in Rooms : Kept(r)' \in {0, Kept(r)} \ {s.text.n}
      BY <2>1, <2>2, <2>3, <2>4, <2>5, <2>6, <2>7
  <2>9. QED
      BY <2>1, <2>2, <2>3, <2>7, <2>8, CopySent
\* What the flow held moves into the composer of its room, or into its draft.
<1>14. ASSUME flow.at \in {"preparing", "picking"}, flow' = NoFlow,
              UNCHANGED <<room, sends, suggested, texts, times, fails>>,
              NEW v \in Text, v.n = flow.text.n, IntoBox(flow.room, v),
              NEW c \in Compose, c.draft.n = flow.text.n,
              states' = states \/ states' = [states EXCEPT ![flow.room] = c]
       PROVE  CopiesInv'
  <2>1. InFlow = flow.text.n /\ InFlow # 0 /\ InFlow \in Typed /\ flow.room \in Rooms
      BY <1>0, <1>1, <1>14, EmptyIsText DEF InFlow, TextOf
  <2>2. InFlow' = 0
      BY <1>14 DEF InFlow, NoFlow
  <2>3. PICK n \in Nat \ {0} : n = InFlow
      BY <1>3, <2>1
  <2>4. /\ times[n] <= fails[n]
        /\ suggested.n # n /\ box.n # n /\ \A r \in Rooms : Kept(r) # n
        /\ \A t \in sends : t.text.n # n
      BY <1>1, <1>2, <2>1, <2>3 DEF OneCopy, Apart, Sendable, Unsent
  <2>5. /\ n \in Typed' => times'[n] <= fails'[n] /\ times'[n] \in Nat /\ fails'[n] \in Nat
        /\ \A m \in Typed' : m # n => m \in Typed /\ times'[m] = times[m] /\ fails'[m] = fails[m]
        /\ 0 \notin Typed'
      BY <1>1, <1>14, <2>1, <2>3, <2>4 DEF Typed
  <2>6. box'.n = IF flow.room = room THEN n ELSE box.n
      BY <1>14, <2>1, <2>3 DEF IntoBox
  <2>7. \A r \in Rooms : Kept(r)' = Kept(r) \/ (r = flow.room /\ r # room /\ Kept(r)' = n)
      BY <1>0, <1>6, <1>14, <2>1, <2>3 DEF Kept
  <2>8. /\ suggested'.n = suggested.n /\ suggested'.n # n
        /\ box'.n = n => \A r \in Rooms : Kept(r)' # n
        /\ \A q, r \in Rooms : Kept(q)' = n /\ Kept(r)' = n => q = r
        /\ \A t \in sends' : t.text.n # n
      BY <1>14, <2>4, <2>6, <2>7
  <2>9. QED
      BY <1>14, <2>2, <2>3, <2>5, <2>6, <2>7, <2>8, CopyMoves
<1>15. CASE NotReady
  <2>1. /\ flow.at = "preparing" /\ IntoBox(flow.room, flow.text) /\ flow' = NoFlow
        /\ states' = [states EXCEPT ![flow.room] = [Blank EXCEPT !.draft = flow.text, !.confirm = flow.text]]
        /\ UNCHANGED <<room, sends, suggested, texts, times, fails>>
      BY <1>15 DEF NotReady
  <2>2. flow.text \in Text
      BY <1>0
  <2>3. /\ [Blank EXCEPT !.draft = flow.text, !.confirm = flow.text] \in Compose
        /\ [Blank EXCEPT !.draft = flow.text, !.confirm = flow.text].draft = flow.text
      BY <1>7, <2>2
  <2>4. PICK c \in Compose : states' = [states EXCEPT ![flow.room] = c] /\ c.draft = flow.text
      BY <2>1, <2>3
  <2>5. QED
      BY <1>14, <2>1, <2>2, <2>4
<1>16. CASE Pick
  <2>1. /\ flow.at = "picking" /\ flow' = NoFlow
        /\ UNCHANGED <<room, sends, suggested, texts, times, fails>>
      BY <1>16 DEF Pick
  <2>2. flow.text \in Text /\ Empty \in Text
      BY <1>0, EmptyIsText
  <2>3. Variant(flow.text) \in Text /\ Variant(flow.text).n = flow.text.n
      BY <2>2 DEF Variant, Text
  <2>4. /\ [draft |-> Variant(flow.text), source |-> flow.text, confirm |-> Empty] \in Compose
        /\ [draft |-> flow.text, source |-> Empty, confirm |-> flow.text] \in Compose
      BY <2>2, <2>3 DEF Compose
  <2>5. CASE /\ IntoBox(flow.room, Variant(flow.text))
             /\ states' = [states EXCEPT ![flow.room] =
                   [draft |-> Variant(flow.text), source |-> flow.text, confirm |-> Empty]]
    <3>1. PICK c \in Compose : states' = [states EXCEPT ![flow.room] = c] /\ c.draft = Variant(flow.text)
        BY <2>4, <2>5
    <3>2. QED
        BY <1>14, <2>1, <2>3, <2>5, <3>1
  <2>6. CASE /\ IntoBox(flow.room, flow.text)
             /\ \/ states' = [states EXCEPT ![flow.room] =
                      [draft |-> flow.text, source |-> Empty, confirm |-> flow.text]]
                \/ states' = states
    <3>1. PICK c \in Compose :
             /\ c = [draft |-> flow.text, source |-> Empty, confirm |-> flow.text]
             /\ c.draft = flow.text
        BY <2>4
    <3>2. QED
        BY <1>14, <2>1, <2>2, <2>6, <3>1
  <2>7. QED
      BY <1>16, <2>5, <2>6 DEF Pick, Picked
<1>17. CASE Offer
  <2>1. /\ flow.at = "preparing" /\ flow' = [flow EXCEPT !.at = "picking"]
        /\ UNCHANGED <<room, box, states, sends, suggested, texts, times, fails>>
      BY <1>17 DEF Offer
  <2>2. InFlow' = InFlow
      BY <1>0, <2>1 DEF InFlow
  <2>3. \A r \in Rooms : Kept(r)' = Kept(r)
      BY <2>1 DEF Kept
  <2>4. QED
      BY <2>1, <2>2, <2>3, CopiesGo
<1>18. ASSUME NEW s \in sends, SendDone(s) PROVE CopiesInv'
  <2> DEFINE t == IF states[s.to].draft = s.text THEN Empty ELSE states[s.to].draft
  <2>1. /\ sends' \subseteq sends /\ states' = [states EXCEPT ![s.to] = [Blank EXCEPT !.draft = t]]
        /\ box' = IF s.to = room /\ box = s.text THEN Empty ELSE box
        /\ flow' = NoFlow \/ flow' = flow
        /\ UNCHANGED <<room, suggested, texts, times, fails>>
      BY <1>18 DEF SendDone, FlowAfter
  <2>2. s.to \in Rooms /\ t \in Text /\ t.n \in {0, states[s.to].draft.n}
      BY <1>0, <1>3, EmptyIsText
  <2> HIDE DEF t
  <2>3. PICK c \in Compose : states' = [states EXCEPT ![s.to] = c] /\ c.draft = t
      BY <1>7, <2>1, <2>2
  <2>4. \A r \in Rooms : Kept(r)' \in {0, Kept(r)}
      BY <1>6, <2>1, <2>2, <2>3 DEF Kept
  <2>5. InFlow' \in {0, InFlow} /\ box'.n \in {0, box.n}
      BY <1>3, <2>1 DEF InFlow, NoFlow
  <2>6. QED
      BY <2>1, <2>4, <2>5, CopiesGo
<1>19. ASSUME NEW s \in sends, SendFails(s) PROVE CopiesInv'
  <2>1. /\ sends' = sends \ {s} /\ states' = [states EXCEPT ![s.to].draft = s.text]
        /\ fails' = [fails EXCEPT ![s.text.n] = @ + 1]
        /\ box' = IF s.to = room /\ box = Empty THEN s.text ELSE box
        /\ flow' = NoFlow \/ flow' = flow
        /\ UNCHANGED <<room, suggested, texts, times>>
      BY <1>19 DEF SendFails, FlowAfter
  <2>2. s.to \in Rooms /\ s.text \in Text /\ s.text.n # 0 /\ s.text.n \in Typed
      BY <1>0, <1>1
  <2>3. PICK c \in Compose : states' = [states EXCEPT ![s.to] = c] /\ c.draft = s.text
      BY <1>8, <2>1, <2>2
  <2>4. PICK n \in Nat \ {0} : n = s.text.n
      BY <1>3, <2>2
  <2>5. \A r \in Rooms : Kept(r)' = IF r = s.to /\ r # room THEN n ELSE Kept(r)
    <3>1. c.draft.n = n /\ room' = room
        BY <2>1, <2>3, <2>4
    <3>2. \A r \in Rooms : Kept(r)' = IF r = s.to /\ r # room THEN c.draft.n ELSE Kept(r)
        BY <1>6, <2>2, <2>3, <3>1
    <3>3. QED
        BY <3>1, <3>2
  <2>6. InFlow' \in {0, InFlow}
      BY <2>1 DEF InFlow, NoFlow
  <2>7. /\ box.n # n /\ suggested.n # n /\ InFlow # n /\ \A r \in Rooms : Kept(r) # n
        /\ \A u \in sends' : u.text.n # n
      BY <1>2, <2>1, <2>4 DEF OneCopy
  <2>8. /\ times[n] <= 1 + fails[n] /\ times[n] \in Nat /\ fails[n] \in Nat
        /\ fails'[n] = fails[n] + 1 /\ times' = times
        /\ \A m \in Typed : m # n => fails'[m] = fails[m]
      BY <1>1, <1>2, <2>1, <2>2, <2>4 DEF SentAsOftenAsTyped, Typed
  <2>9. /\ n \in Typed' => times'[n] <= fails'[n] /\ times'[n] \in Nat /\ fails'[n] \in Nat
        /\ \A m \in Typed' : m # n => m \in Typed /\ times'[m] = times[m] /\ fails'[m] = fails[m]
        /\ 0 \notin Typed'
    <3>1. Typed' = Typed
        BY <2>1 DEF Typed
    <3>2. QED
        BY <1>1, <2>8, <3>1
  <2>10. box'.n = box.n \/ (s.to = room /\ box'.n = n)
      BY <2>1, <2>4
  <2>11. /\ box'.n = n => \A r \in Rooms : Kept(r)' # n
         /\ suggested'.n = suggested.n /\ suggested'.n # n /\ InFlow' # n
         /\ \A q, r \in Rooms : Kept(q)' = n /\ Kept(r)' = n => q = r
      BY <2>1, <2>5, <2>6, <2>7, <2>10
  <2>12. QED
      BY <2>1, <2>5, <2>6, <2>7, <2>9, <2>10, <2>11, CopyMoves
<1>20. CASE Think
  <2>1. UNCHANGED <<room, box, states, flow, sends, suggested, texts, times, fails>>
      BY <1>20 DEF Think
  <2>2. InFlow' = InFlow /\ \A r \in Rooms : Kept(r)' = Kept(r)
      BY <2>1 DEF InFlow, Kept
  <2>3. QED
      BY <2>1, <2>2, CopiesGo
<1>21. ASSUME NEW r \in Rooms, Suggest(r) PROVE CopiesInv'
  <2>1. UNCHANGED <<room, box, states, flow, sends>>
      BY <1>21 DEF Suggest
  <2>2. InFlow' = InFlow /\ \A q \in Rooms : Kept(q)' = Kept(q)
      BY <2>1 DEF InFlow, Kept
  <2>3. CASE StillWanted(r)
    <3>1. NewText(r) /\ suggested' = TheNewText
        BY <1>21, <2>3 DEF Suggest
    <3>2. PICK n \in Nat \ {0} : n = TheNewText.n
        BY <1>4, <3>1
    <3>3. /\ n \notin Typed /\ times'[n] = 0 /\ fails'[n] = 0
          /\ \A m \in Typed' : m # n => m \in Typed /\ times'[m] = times[m] /\ fails'[m] = fails[m]
          /\ 0 \notin Typed'
        BY <1>4, <3>1, <3>2
    <3>4. /\ suggested'.n = n /\ box'.n = box.n /\ box.n # n /\ InFlow' # n
          /\ \A q \in Rooms : Kept(q)' # n
          /\ \A s \in sends' : s.text.n # n
        BY <1>1, <2>1, <2>2, <3>1, <3>2, <3>3
    <3>5. QED
        BY <2>1, <2>2, <3>3, <3>4, CopyMoves
  <2>4. CASE ~ StillWanted(r)
    <3>1. UNCHANGED <<suggested, texts, times, fails>>
        BY <1>21, <2>4 DEF Suggest
    <3>2. QED
        BY <2>1, <2>2, <3>1, CopiesGo
  <2>5. QED
      BY <2>3, <2>4
<1>22. CASE Accept
  <2>1. /\ box' = suggested /\ suggested' = Empty /\ states' = [states EXCEPT ![room].draft = suggested]
        /\ UNCHANGED <<room, flow, sends, texts, times, fails>> /\ suggested # Empty
      BY <1>22 DEF Accept
  <2>2. PICK c \in Compose : states' = [states EXCEPT ![room] = c] /\ c.draft = suggested
      BY <1>0, <1>8, <2>1
  <2>3. InFlow' = InFlow /\ \A r \in Rooms : Kept(r)' = Kept(r)
      BY <1>0, <1>6, <2>1, <2>2 DEF InFlow
  <2>4. suggested.n # 0
      BY <2>1, ComposerFacts DEF TextOf
  <2>5. PICK n \in Nat \ {0} : n = suggested.n
      BY <1>1, <1>3, <2>4
  <2>6. /\ n \in Typed /\ times[n] <= fails[n]
        /\ InFlow # n /\ \A r \in Rooms : Kept(r) # n
        /\ \A t \in sends : t.text.n # n
      BY <1>1, <1>2, <2>5 DEF OneCopy, Apart, Sendable, Unsent
  <2>7. /\ n \in Typed' => times'[n] <= fails'[n] /\ times'[n] \in Nat /\ fails'[n] \in Nat
        /\ \A m \in Typed' : m # n => m \in Typed /\ times'[m] = times[m] /\ fails'[m] = fails[m]
        /\ 0 \notin Typed'
      BY <1>1, <2>1, <2>6 DEF Typed
  <2>8. box'.n = n /\ suggested'.n = 0
      BY <1>3, <2>1, <2>5
  <2>9. QED
      BY <2>1, <2>3, <2>6, <2>7, <2>8, CopyMoves
<1>23. QED
    BY <1>5, <1>9, <1>10, <1>11, <1>12, <1>13, <1>15, <1>16, <1>17, <1>18, <1>19, <1>20, <1>21, <1>22
    DEF ComposerNext

\* The composer, its drafts, the flow and _restore_draft: a text typed once is
\* handed to the client once, and once more for each time its send failed, for
\* wherever a copy is kept it is the only one, and there is none while it is sent.
THEOREM NeverTwice == ComposerSpec => []SentAsOftenAsTyped
<1>1. ComposerInv /\ CopiesInv /\ [ComposerNext]_composerVars => ComposerInv' /\ CopiesInv'
  <2> SUFFICES ASSUME ComposerInv, CopiesInv, [ComposerNext]_composerVars
               PROVE  ComposerInv' /\ CopiesInv'
      OBVIOUS
  <2>1. ComposerInv'
      BY ComposerStepInv
  <2>2. CASE ComposerNext
      BY <2>1, <2>2, CopiesStepInv
  <2>3. CASE UNCHANGED composerVars
    <3>1. UNCHANGED <<room, box, states, flow, sends, suggested, texts, times, fails>>
        BY <2>3 DEF composerVars
    <3>2. InFlow' = InFlow /\ \A r \in Rooms : Kept(r)' = Kept(r)
        BY <3>1 DEF InFlow, Kept
    <3>3. QED
        BY <2>1, <3>1, <3>2, CopiesGo
  <2>4. QED
      BY <2>2, <2>3
<1>2. CopiesInv => SentAsOftenAsTyped
    BY DEF CopiesInv
<1>3. QED
    BY ComposerInitInv, CopiesInitInv, <1>1, <1>2, PTL DEF ComposerSpec

-----------------------------------------------------------------------------
(* The message pane of the TUI: what is shown has no hole *)

Workers == [chat : Chats \union {Closed},
            at : {"idle", "scheduled", "fetching", "fetched", "translating"},
            page : SUBSET Nat]

TuiTypes ==
    /\ last \in [Chats -> Nat]
    /\ feed \in Seq(Chats \X Nat)
    /\ current \in Chats \union {Closed}
    /\ bubbles \in SUBSET (Chats \X Nat) /\ index \in SUBSET (Chats \X Nat)
    /\ oldest \in Nat /\ cursor \in Nat
    /\ history \in Workers /\ backfill \in Workers /\ pass \in Workers
    /\ pass.at # "idle" => pass.chat \in Chats
    /\ rebuilt \in BOOLEAN

\* The live messages under way are, of each chat, all from some message on, in order.
FeedOK ==
    \A j \in DOMAIN feed :
        /\ feed[j][2] <= last[feed[j][1]]
        /\ \A k \in Nat : feed[j][2] <= k /\ k <= last[feed[j][1]] =>
              \E m \in DOMAIN feed : j <= m /\ feed[m] = <<feed[j][1], k>>

\* In the pane of the open chat, or on its way there.
Held(i) == <<current, i>> \in bubbles \/ \E j \in DOMAIN feed : feed[j] = <<current, i>>

\* From what is held on, everything is; once the history worker has cleared the
\* pane, and until a whole-chat pass rebuilds it.
HeldFrom(i) == \A k \in Nat : i <= k /\ k <= last[current] => Held(k)
Cleared == current # Closed /\ ~ rebuilt /\ history.at # "scheduled"
HeldOK == Cleared => \A i \in Nat : Held(i) => i <= last[current] /\ HeldFrom(i)

\* While the history worker is at work there is nothing to page upward from.
HistoryOK ==
    history.at # "idle" =>
        history.chat = current /\ current # Closed /\ backfill = NoWorker /\ oldest = 0

\* Its page and what came since are all of the chat from some message on.
HistoryPageOK ==
    history.at = "fetched" /\ ~ rebuilt =>
        \A i \in history.page :
            /\ i <= last[current]
            /\ \A k \in Nat : i <= k /\ k <= last[current] => k \in history.page \/ Held(k)

\* The cursor is a message of the pane, and so is what the index holds.
CursorOK ==
    oldest # 0 /\ ~ rebuilt =>
        /\ current # Closed
        /\ Held(oldest)
        /\ \A b \in index : b \in bubbles /\ b[1] = current

\* The page above the cursor is for the open chat, and ends just above what is held.
BackfillOK ==
    backfill.at # "idle" =>
        /\ backfill.chat = current /\ current # Closed /\ oldest # 0
        /\ ~ rebuilt => cursor <= last[current] /\ HeldFrom(cursor)

BackfillPageOK ==
    backfill.at = "fetched" =>
        \A i \in backfill.page :
            i < cursor /\ \A k \in Nat : i <= k /\ k < cursor => k \in backfill.page

TuiInv ==
    /\ TuiTypes /\ FeedOK /\ HeldOK /\ HistoryOK /\ HistoryPageOK
    /\ CursorOK /\ BackfillOK /\ BackfillPageOK

LEMMA LeastOf ==
    ASSUME NEW S \in SUBSET Nat, S # {}
    PROVE  Min(S) \in S
<1> DEFINE T == {0..i : i \in S}
<1>1. T \subseteq FiniteSubsetsOf(Nat) /\ T # {}
  <2>1. \A i \in S : 0..i \subseteq Nat /\ IsFiniteSet(0..i)
    BY FS_Interval
  <2> QED  BY <2>1 DEF FiniteSubsetsOf
<1>2. PICK X \in T : \A Y \in T : ~ (<<Y, X>> \in StrictSubsetOrdering(Nat))
  BY <1>1, FS_StrictSubsetOrderingWellFounded, WFMin
<1>3. PICK x \in S : X = 0..x
  OBVIOUS
<1>4. \A y \in S : x <= y
  <2> SUFFICES ASSUME NEW y \in S, y < x PROVE FALSE
    OBVIOUS
  <2>1. 0..y \in T
    OBVIOUS
  <2>2. 0..y \subseteq 0..x /\ 0..y # 0..x /\ 0..x \subseteq Nat
    OBVIOUS
  <2>3. <<0..y, X>> \in StrictSubsetOrdering(Nat)
    BY <2>2, <1>3 DEF StrictSubsetOrdering
  <2> QED  BY <1>2, <2>1, <2>3
<1> QED  BY <1>4 DEF Min

LEMMA NoWorkerIsWorker == NoWorker \in Workers /\ NoWorker.at = "idle"
  BY DEF NoWorker, Workers

LEMMA TuiInitInv == TuiInit => TuiInv
<1> SUFFICES ASSUME TuiInit PROVE TuiInv
  OBVIOUS
<1> USE TuiAssumption DEF TuiInit, NoWorker
<1>1. TuiTypes
  <2>1. last \in [Chats -> Nat] /\ feed \in Seq(Chats \X Nat)
    OBVIOUS
  <2>2. bubbles \in SUBSET (Chats \X Nat) /\ index \in SUBSET (Chats \X Nat)
    OBVIOUS
  <2>3. history \in Workers /\ backfill \in Workers /\ pass \in Workers /\ pass.at = "idle"
    BY NoWorkerIsWorker
  <2> QED  BY <2>1, <2>2, <2>3 DEF TuiTypes
<1>2. FeedOK
  BY DEF FeedOK
<1>3. HeldOK /\ HistoryOK /\ HistoryPageOK
  BY DEF HeldOK, HistoryOK, HistoryPageOK, Cleared
<1>4. CursorOK /\ BackfillOK /\ BackfillPageOK
  BY DEF CursorOK, BackfillOK, BackfillPageOK
<1> QED  BY <1>1, <1>2, <1>3, <1>4 DEF TuiInv

\* A page of the newest messages up to one has all of them from its first on.
LEMMA NewestIsUpper ==
    ASSUME NEW n \in Nat, NEW upTo \in Int
    PROVE  /\ Newest(n, upTo) \in SUBSET Nat
           /\ \A i \in Newest(n, upTo) :
                 i <= upTo /\ \A k \in Nat : i <= k /\ k <= upTo => k \in Newest(n, upTo)
  BY DEF Newest

LEMMA MarksTyped ==
    ASSUME NEW c \in Chats, NEW ids \in SUBSET Nat
    PROVE  /\ Of(c, ids) \in SUBSET (Chats \X Nat)
           /\ \A i : <<c, i>> \in Of(c, ids) <=> i \in ids
           /\ \A b \in Of(c, ids) : b[1] = c /\ b[2] \in ids
<1>1. Of(c, ids) \in SUBSET (Chats \X Nat)
  BY DEF Of
<1>2. \A i : <<c, i>> \in Of(c, ids) <=> i \in ids
  BY DEF Of
<1>3. \A b \in Of(c, ids) : b[1] = c /\ b[2] \in ids
  BY DEF Of
<1> QED  BY <1>1, <1>2, <1>3

\* What a step keeps of the pane when it leaves the messages and the bubbles alone.
LEMMA HeldStays ==
    ASSUME UNCHANGED <<last, feed, current, bubbles>>
    PROVE  \A i : (Held(i) <=> Held(i)') /\ (HeldFrom(i) <=> HeldFrom(i)')
  BY DEF Held, HeldFrom

\* The parts of the invariant that a step keeps when it leaves the messages, the
\* pane and the worker in question alone.
LEMMA PaneStays ==
    ASSUME TuiInv, UNCHANGED <<last, feed, current, bubbles, rebuilt>>
    PROVE  /\ FeedOK'
           /\ UNCHANGED history => HeldOK' /\ HistoryPageOK'
           /\ UNCHANGED <<oldest, index>> => CursorOK'
           /\ UNCHANGED <<backfill, oldest, cursor>> => BackfillOK'
           /\ UNCHANGED <<backfill, cursor>> => BackfillPageOK'
           /\ UNCHANGED <<history, backfill, oldest>> => HistoryOK'
<1>1. \A i : (Held(i) <=> Held(i)') /\ (HeldFrom(i) <=> HeldFrom(i)')
  BY HeldStays
<1>2. FeedOK'
  BY DEF TuiInv, FeedOK
<1>3. UNCHANGED history => HeldOK'
  BY <1>1 DEF TuiInv, HeldOK, Cleared
<1>4. UNCHANGED history => HistoryPageOK'
  BY <1>1 DEF TuiInv, HistoryPageOK
<1>5. UNCHANGED <<oldest, index>> => CursorOK'
  BY <1>1 DEF TuiInv, CursorOK
<1>6. UNCHANGED <<backfill, oldest, cursor>> => BackfillOK'
  BY <1>1 DEF TuiInv, BackfillOK
<1>7. UNCHANGED <<backfill, cursor>> => BackfillPageOK'
  BY DEF TuiInv, BackfillPageOK
<1>8. UNCHANGED <<history, backfill, oldest>> => HistoryOK'
  BY DEF TuiInv, HistoryOK
<1> QED  BY <1>2, <1>3, <1>4, <1>5, <1>6, <1>7, <1>8

LEMMA LiveInv ==
    ASSUME TuiInv, NEW c \in Chats, Live(c)
    PROVE  TuiInv'
<1>1. /\ last \in [Chats -> Nat] /\ feed \in Seq(Chats \X Nat) /\ last[c] \in Nat
      /\ current \in Chats \union {Closed}
  BY DEF TuiInv, TuiTypes
<1>0. PICK t \in Nat : t = last[c] + 1
  BY <1>1
<1> DEFINE new == <<c, t>>
<1>2. /\ last' = [last EXCEPT ![c] = t]
      /\ feed' = Append(feed, new)
      /\ UNCHANGED <<current, bubbles, index, oldest, history, backfill, pass, cursor, rebuilt>>
  BY <1>0 DEF Live, workerVars
<1>3. new \in Chats \X Nat /\ new[1] = c /\ new[2] = t
  BY <1>0, <1>1
<1>4. last' \in [Chats -> Nat] /\ \A d \in Chats : last'[d] = IF d = c THEN t ELSE last[d]
  BY <1>1, <1>2
<1> HIDE DEF new
<1>5. /\ feed' \in Seq(Chats \X Nat)
      /\ DOMAIN feed' = 1..(Len(feed) + 1) /\ DOMAIN feed = 1..Len(feed)
      /\ feed'[Len(feed) + 1] = new
      /\ \A j \in DOMAIN feed : j \in DOMAIN feed' /\ feed'[j] = feed[j]
      /\ \A j \in DOMAIN feed : feed[j] \in Chats \X Nat
      /\ Len(feed) \in Nat
  BY <1>1, <1>2, <1>3
<1>6. TuiTypes'
  BY <1>2, <1>4, <1>5 DEF TuiInv, TuiTypes
<1>7. FeedOK'
  <2> SUFFICES ASSUME NEW j \in DOMAIN feed'
               PROVE  /\ feed'[j][2] <= last'[feed'[j][1]]
                      /\ \A k \in Nat : feed'[j][2] <= k /\ k <= last'[feed'[j][1]] =>
                            \E m \in DOMAIN feed' : j <= m /\ feed'[m] = <<feed'[j][1], k>>
    BY DEF FeedOK
  <2>1. CASE j = Len(feed) + 1
    <3>1. feed'[j] = new /\ last'[c] = t /\ j <= j
      BY <2>1, <1>4, <1>5
    <3>2. \A k \in Nat : t <= k /\ k <= t => k = t
      BY <1>1
    <3> QED  BY <3>1, <3>2, <1>3, <1>1 DEF new
  <2>2. CASE j \in DOMAIN feed
    <3> DEFINE d == feed[j][1]
    <3>1. feed'[j] = feed[j] /\ d \in Chats /\ feed[j][2] \in Nat /\ last[d] \in Nat
      BY <2>2, <1>1, <1>5
    <3>2. /\ feed[j][2] <= last[d]
          /\ \A k \in Nat : feed[j][2] <= k /\ k <= last[d] =>
                \E m \in DOMAIN feed : j <= m /\ feed[m] = <<d, k>>
      BY <2>2 DEF TuiInv, FeedOK
    <3>3. last'[d] = IF d = c THEN t ELSE last[d]
      BY <3>1, <1>4
    <3> HIDE DEF d
    <3>4. feed[j][2] <= last'[d]
      <4>1. CASE d = c
        BY <4>1, <3>1, <3>2, <3>3, <1>0
      <4>2. CASE d # c
        BY <4>2, <3>2, <3>3
      <4> QED  BY <4>1, <4>2
    <3>5. ASSUME NEW k \in Nat, feed[j][2] <= k, k <= last'[d]
          PROVE  \E m \in DOMAIN feed' : j <= m /\ feed'[m] = <<d, k>>
      <4>1. CASE k <= last[d]
        BY <4>1, <3>2, <3>5, <1>5
      <4>2. CASE ~ (k <= last[d])
        <5>1. d = c /\ k = t
          BY <4>2, <3>5, <3>3, <3>1, <1>0, <1>1
        <5>2. Len(feed) + 1 \in DOMAIN feed' /\ j <= Len(feed) + 1
          BY <2>2, <1>5
        <5> QED  BY <5>1, <5>2, <1>5 DEF new
      <4> QED  BY <4>1, <4>2
    <3> QED  BY <3>1, <3>4, <3>5 DEF d
  <2>3. j = Len(feed) + 1 \/ j \in DOMAIN feed
    BY <1>5
  <2> QED  BY <2>1, <2>2, <2>3
<1>8. /\ \A i : Held(i) => Held(i)'
      /\ \A i : Held(i)' => Held(i) \/ (current = c /\ i = t)
      /\ current = c => Held(t)'
  <2>1. \A i : Held(i) => Held(i)'
    BY <1>2, <1>5 DEF Held
  <2>2. \A i : Held(i)' => Held(i) \/ (current = c /\ i = t)
    <3> SUFFICES ASSUME NEW i, Held(i)', ~ Held(i)
                 PROVE  current = c /\ i = t
      OBVIOUS
    <3>1. PICK j \in DOMAIN feed' : feed'[j] = <<current, i>>
      BY <1>2 DEF Held
    <3>2. j = Len(feed) + 1
      BY <3>1, <1>5 DEF Held
    <3> QED  BY <3>1, <3>2, <1>5 DEF new
  <2>3. current = c => Held(t)'
    <3>1. Len(feed) + 1 \in DOMAIN feed'
      BY <1>5
    <3> QED  BY <3>1, <1>2, <1>5 DEF Held, new
  <2> QED  BY <2>1, <2>2, <2>3
<1>9. ASSUME current # Closed
      PROVE  /\ current \in Chats /\ last[current] \in Nat /\ last'[current] \in Nat
             /\ last[current] <= last'[current]
             /\ last'[current] = last[current] \/ (current = c /\ last'[current] = t)
  <2>1. current \in Chats
    BY <1>1, <1>9
  <2>2. last[current] \in Nat /\ last'[current] \in Nat
    BY <2>1, <1>1, <1>4
  <2>3. CASE current = c
    BY <2>1, <2>2, <2>3, <1>0, <1>4
  <2>4. CASE current # c
    <3>1. last'[current] = last[current]
      BY <2>1, <2>4, <1>4
    <3> QED  BY <2>1, <2>2, <3>1
  <2> QED  BY <2>3, <2>4
<1>10. ASSUME NEW k \in Nat, k <= last'[current], ~ (k <= last[current]), current # Closed
       PROVE  Held(k)'
  <2>1. /\ last[current] \in Nat /\ last'[current] \in Nat
        /\ last'[current] = last[current] \/ (current = c /\ last'[current] = t)
    BY <1>9, <1>10
  <2>2. current = c /\ last'[current] = t /\ t = last[current] + 1
    BY <2>1, <1>10, <1>0
  <2>3. k = t
    BY <2>1, <2>2, <1>10
  <2> QED  BY <2>2, <2>3, <1>8
<1>11. \A i \in Nat : HeldFrom(i) /\ current # Closed => HeldFrom(i)'
  BY <1>8, <1>10, <1>2 DEF HeldFrom
<1>12. HeldOK'
  <2> SUFFICES ASSUME Cleared', NEW i \in Nat, Held(i)'
               PROVE  i <= last'[current] /\ HeldFrom(i)'
    BY <1>2 DEF HeldOK
  <2>1. Cleared /\ current # Closed
    BY <1>2 DEF Cleared
  <2>2. CASE Held(i)
    <3>1. i <= last[current] /\ HeldFrom(i)
      BY <2>1, <2>2 DEF TuiInv, HeldOK
    <3> QED  BY <3>1, <2>1, <1>9, <1>11, <1>4
  <2>3. CASE current = c /\ i = t
    <3>1. last'[current] = i
      BY <2>3, <1>4
    <3>2. \A k \in Nat : i <= k /\ k <= last'[current] => k = i
      BY <3>1
    <3> QED  BY <3>1, <3>2, <1>2 DEF HeldFrom
  <2> QED  BY <2>2, <2>3, <1>8
<1>13. HistoryOK' /\ BackfillPageOK'
  BY <1>2 DEF TuiInv, HistoryOK, BackfillPageOK
<1>14. HistoryPageOK'
  <2> SUFFICES ASSUME history.at = "fetched", ~ rebuilt, NEW i \in history.page
               PROVE  /\ i <= last'[current]
                      /\ \A k \in Nat : i <= k /\ k <= last'[current] => k \in history.page \/ Held(k)'
    BY <1>2 DEF HistoryPageOK
  <2>1. /\ i <= last[current]
        /\ \A k \in Nat : i <= k /\ k <= last[current] => k \in history.page \/ Held(k)
    BY DEF TuiInv, HistoryPageOK
  <2>2. current # Closed /\ i \in Nat
    BY DEF TuiInv, HistoryOK, TuiTypes, Workers
  <2> QED  BY <2>1, <2>2, <1>4, <1>8, <1>9, <1>10
<1>15. CursorOK'
  BY <1>2, <1>8 DEF TuiInv, CursorOK
<1>16. BackfillOK'
  <2>1. cursor \in Nat
    BY DEF TuiInv, TuiTypes
  <2> QED  BY <2>1, <1>2, <1>4, <1>9, <1>11 DEF TuiInv, BackfillOK
<1> QED  BY <1>6, <1>7, <1>12, <1>13, <1>14, <1>15, <1>16 DEF TuiInv

LEMMA OpenChatInv ==
    ASSUME TuiInv, NEW c \in Chats, OpenChat(c)
    PROVE  TuiInv'
<1>1. /\ current' = c /\ index' = {} /\ oldest' = 0 /\ rebuilt' = FALSE
      /\ history' = [chat |-> c, at |-> "scheduled", page |-> {}]
      /\ backfill' = NoWorker
      /\ UNCHANGED <<last, feed, bubbles, pass, cursor>>
  BY DEF OpenChat, AfterSwitch
<1>2. c # Closed
  BY TuiAssumption
<1>3. history' \in Workers /\ history'.chat = c /\ history'.at = "scheduled"
  BY <1>1 DEF Workers
<1>4. TuiTypes'
  BY <1>1, <1>3, NoWorkerIsWorker DEF TuiInv, TuiTypes
<1>5. FeedOK'
  BY <1>1 DEF TuiInv, FeedOK
<1>6. HeldOK' /\ HistoryPageOK'
  BY <1>3 DEF HeldOK, Cleared, HistoryPageOK
<1>7. HistoryOK'
  BY <1>1, <1>2, <1>3 DEF HistoryOK, NoWorker
<1>8. CursorOK' /\ BackfillOK' /\ BackfillPageOK'
  BY <1>1, NoWorkerIsWorker DEF CursorOK, BackfillOK, BackfillPageOK
<1> QED  BY <1>4, <1>5, <1>6, <1>7, <1>8 DEF TuiInv

LEMMA DrainInv ==
    ASSUME TuiInv, Drain
    PROVE  TuiInv'
<1>1. /\ feed # <<>> /\ feed' = Tail(feed)
      /\ UNCHANGED <<last, current, oldest, history, backfill, pass, cursor, rebuilt>>
      /\ IF Head(feed)[1] = current
         THEN bubbles' = bubbles \union {Head(feed)} /\ index' = Indexed({Head(feed)})
         ELSE UNCHANGED <<bubbles, index>>
  BY DEF Drain, workerVars
<1>2. PICK e : e = Head(feed)
  OBVIOUS
<1>3. /\ feed \in Seq(Chats \X Nat) /\ last \in [Chats -> Nat]
      /\ bubbles \in SUBSET (Chats \X Nat) /\ index \in SUBSET (Chats \X Nat)
  BY DEF TuiInv, TuiTypes
<1>4. /\ Len(feed) \in Nat /\ DOMAIN feed = 1..Len(feed) /\ 1 \in DOMAIN feed
      /\ DOMAIN feed' = 1..(Len(feed) - 1)
      /\ feed' \in Seq(Chats \X Nat)
      /\ e = feed[1] /\ e \in Chats \X Nat
      /\ \A j \in DOMAIN feed' : j + 1 \in DOMAIN feed /\ feed'[j] = feed[j + 1]
      /\ \A j \in DOMAIN feed : j # 1 => j - 1 \in DOMAIN feed' /\ feed'[j - 1] = feed[j]
  <2>1. Len(feed) \in Nat /\ DOMAIN feed = 1..Len(feed) /\ Len(feed) # 0
    BY <1>1, <1>3
  <2>2. /\ feed' \in Seq(Chats \X Nat) /\ DOMAIN feed' = 1..(Len(feed) - 1)
        /\ \A j \in 1..(Len(feed) - 1) : feed'[j] = feed[j + 1]
    BY <1>1, <1>3, <2>1
  <2>3. 1 \in DOMAIN feed /\ e = feed[1] /\ e \in Chats \X Nat
    BY <2>1, <1>2, <1>3
  <2>4. \A j \in DOMAIN feed' : j + 1 \in DOMAIN feed /\ feed'[j] = feed[j + 1]
    BY <2>1, <2>2
  <2>5. ASSUME NEW j \in DOMAIN feed, j # 1
        PROVE  j - 1 \in DOMAIN feed' /\ feed'[j - 1] = feed[j]
    <3>1. j - 1 \in 1..(Len(feed) - 1) /\ (j - 1) + 1 = j
      BY <2>1, <2>5
    <3> QED  BY <3>1, <2>2
  <2> QED  BY <2>1, <2>2, <2>3, <2>4, <2>5
<1>5. \A b \in index' : b \in index \/ (b = e /\ e[1] = current)
  BY <1>1, <1>2 DEF Indexed
<1>6. \A b \in bubbles' : b \in bubbles \/ (b = e /\ e[1] = current)
  BY <1>1, <1>2
<1>7. /\ \A b \in bubbles : b \in bubbles'
      /\ e[1] = current => e \in bubbles'
  BY <1>1, <1>2
<1>8. TuiTypes'
  <2>1. bubbles' \in SUBSET (Chats \X Nat)
    BY <1>3, <1>4, <1>6
  <2>2. index' \in SUBSET (Chats \X Nat)
    BY <1>3, <1>4, <1>5
  <2> QED  BY <2>1, <2>2, <1>1, <1>4 DEF TuiInv, TuiTypes
<1>9. FeedOK'
  <2> SUFFICES ASSUME NEW j \in DOMAIN feed'
               PROVE  /\ feed'[j][2] <= last[feed'[j][1]]
                      /\ \A k \in Nat : feed'[j][2] <= k /\ k <= last[feed'[j][1]] =>
                            \E m \in DOMAIN feed' : j <= m /\ feed'[m] = <<feed'[j][1], k>>
    BY <1>1 DEF FeedOK
  <2>1. j + 1 \in DOMAIN feed /\ feed'[j] = feed[j + 1] /\ j \in Int
    BY <1>4
  <2>2. /\ feed'[j][2] <= last[feed'[j][1]]
        /\ \A k \in Nat : feed'[j][2] <= k /\ k <= last[feed'[j][1]] =>
              \E m \in DOMAIN feed : j + 1 <= m /\ feed[m] = <<feed'[j][1], k>>
    BY <2>1 DEF TuiInv, FeedOK
  <2>3. ASSUME NEW k \in Nat, NEW m \in DOMAIN feed, j + 1 <= m, feed[m] = <<feed'[j][1], k>>
        PROVE  \E n \in DOMAIN feed' : j <= n /\ feed'[n] = <<feed'[j][1], k>>
    <3>1. m # 1 /\ m - 1 >= j
      BY <2>1, <2>3, <1>4
    <3>2. m - 1 \in DOMAIN feed' /\ feed'[m - 1] = feed[m]
      BY <3>1, <1>4
    <3> QED  BY <3>1, <3>2, <2>3, <1>4
  <2> QED  BY <2>2, <2>3
<1>10. \A i : Held(i) <=> Held(i)'
  <2>1. ASSUME NEW i, Held(i) PROVE Held(i)'
    <3>1. CASE <<current, i>> \in bubbles
      BY <3>1, <1>1, <1>7 DEF Held
    <3>2. ASSUME NEW j \in DOMAIN feed, feed[j] = <<current, i>> PROVE Held(i)'
      <4>1. CASE j = 1
        <5>1. e = <<current, i>> /\ e[1] = current
          BY <4>1, <3>2, <1>4
        <5> QED  BY <5>1, <1>1, <1>7 DEF Held
      <4>2. CASE j # 1
        BY <4>2, <3>2, <1>1, <1>4 DEF Held
      <4> QED  BY <4>1, <4>2
    <3> QED  BY <2>1, <3>1, <3>2 DEF Held
  <2>2. ASSUME NEW i, Held(i)' PROVE Held(i)
    <3>1. CASE <<current, i>> \in bubbles'
      BY <3>1, <1>4, <1>6 DEF Held
    <3>2. ASSUME NEW j \in DOMAIN feed', feed'[j] = <<current, i>> PROVE Held(i)
      BY <3>2, <1>4 DEF Held
    <3> QED  BY <2>2, <3>1, <3>2, <1>1 DEF Held
  <2> QED  BY <2>1, <2>2
<1>11. \A i : HeldFrom(i) <=> HeldFrom(i)'
  BY <1>1, <1>10 DEF HeldFrom
<1>12. HeldOK'
  BY <1>1, <1>10, <1>11 DEF TuiInv, HeldOK, Cleared
<1>13. HistoryOK' /\ BackfillPageOK'
  BY <1>1 DEF TuiInv, HistoryOK, BackfillPageOK
<1>14. HistoryPageOK'
  BY <1>1, <1>10 DEF TuiInv, HistoryPageOK
<1>15. CursorOK'
  <2>1. ASSUME oldest # 0, ~ rebuilt
        PROVE  current # Closed /\ Held(oldest)' /\ \A b \in index : b \in bubbles /\ b[1] = current
    BY <2>1, <1>1, <1>10 DEF TuiInv, CursorOK
  <2> QED  BY <2>1, <1>1, <1>5, <1>7 DEF CursorOK
<1>16. BackfillOK'
  BY <1>1, <1>11 DEF TuiInv, BackfillOK
<1> QED  BY <1>8, <1>9, <1>12, <1>13, <1>14, <1>15, <1>16 DEF TuiInv

LEMMA ClearPaneInv ==
    ASSUME TuiInv, ClearPane
    PROVE  TuiInv'
<1>1. /\ history.at = "scheduled" /\ bubbles' = {}
      /\ history' = [history EXCEPT !.at = "fetching"]
      /\ UNCHANGED <<last, feed, current, index, oldest, backfill, pass, cursor, rebuilt>>
  BY DEF ClearPane
<1>2. history \in Workers /\ last \in [Chats -> Nat] /\ feed \in Seq(Chats \X Nat)
  BY DEF TuiInv, TuiTypes
<1>3. history' \in Workers /\ history'.at = "fetching" /\ history'.chat = history.chat
  BY <1>1, <1>2 DEF Workers
<1>4. history.chat = current /\ current # Closed /\ backfill = NoWorker /\ oldest = 0
  BY <1>1 DEF TuiInv, HistoryOK
<1>5. TuiTypes'
  BY <1>1, <1>3 DEF TuiInv, TuiTypes
<1>6. FeedOK'
  BY <1>1 DEF TuiInv, FeedOK
<1>7. HeldOK'
  <2> SUFFICES ASSUME NEW i \in Nat, Held(i)'
               PROVE  i <= last[current] /\ HeldFrom(i)'
    BY <1>1 DEF HeldOK
  <2>1. PICK j \in DOMAIN feed : feed[j] = <<current, i>>
    BY <1>1 DEF Held
  <2>2. feed[j][1] = current /\ feed[j][2] = i
    BY <2>1
  <2>3. /\ i <= last[current]
        /\ \A k \in Nat : i <= k /\ k <= last[current] =>
              \E m \in DOMAIN feed : feed[m] = <<current, k>>
    BY <2>2 DEF TuiInv, FeedOK
  <2> QED  BY <2>3, <1>1 DEF HeldFrom, Held
<1>8. HistoryOK' /\ HistoryPageOK' /\ CursorOK'
  BY <1>1, <1>3, <1>4 DEF HistoryOK, HistoryPageOK, CursorOK, NoWorker
<1>9. BackfillOK' /\ BackfillPageOK'
  BY <1>1, <1>4, NoWorkerIsWorker DEF BackfillOK, BackfillPageOK
<1> QED  BY <1>5, <1>6, <1>7, <1>8, <1>9 DEF TuiInv

LEMMA FetchHistoryInv ==
    ASSUME TuiInv, FetchHistory
    PROVE  TuiInv'
<1>1. /\ history.at = "fetching"
      /\ UNCHANGED <<last, feed, current, bubbles, index, oldest, backfill, pass, cursor, rebuilt>>
  BY DEF FetchHistory
<1>2. /\ history \in Workers /\ last \in [Chats -> Nat]
      /\ history.chat = current /\ current # Closed /\ backfill = NoWorker /\ oldest = 0
      /\ current \in Chats
  BY <1>1 DEF TuiInv, TuiTypes, HistoryOK
<1> DEFINE ids == Newest(PageSize, last[current])
<1>3. /\ ids \in SUBSET Nat
      /\ \A i \in ids :
            i <= last[current] /\ \A k \in Nat : i <= k /\ k <= last[current] => k \in ids
  BY <1>2, NewestIsUpper, TuiAssumption
<1>4. history' = NoWorker \/ history' = [history EXCEPT !.at = "fetched", !.page = ids]
  BY <1>2 DEF FetchHistory
<1> HIDE DEF ids
<1>5. /\ history' \in Workers
      /\ history' = NoWorker \/ (history'.chat = current /\ history'.at = "fetched" /\ history'.page = ids)
  BY <1>2, <1>3, <1>4, NoWorkerIsWorker DEF Workers
<1>6. TuiTypes'
  BY <1>1, <1>5 DEF TuiInv, TuiTypes
<1>7. FeedOK' /\ CursorOK' /\ BackfillOK' /\ BackfillPageOK'
  BY <1>1, PaneStays
<1>8. HeldOK'
  <2>1. Cleared' => Cleared
    BY <1>1 DEF Cleared
  <2> QED  BY <2>1, <1>1, HeldStays DEF TuiInv, HeldOK
<1>9. HistoryOK'
  BY <1>1, <1>2, <1>5, NoWorkerIsWorker DEF HistoryOK
<1>10. HistoryPageOK'
  BY <1>1, <1>3, <1>5, NoWorkerIsWorker DEF HistoryPageOK
<1> QED  BY <1>6, <1>7, <1>8, <1>9, <1>10 DEF TuiInv

LEMMA ShowHistoryInv ==
    ASSUME TuiInv, ShowHistory
    PROVE  TuiInv'
<1> DEFINE ids == history.page
           low == IF ids = {} THEN 0 ELSE Min(ids)
<1>1. /\ history.at = "fetched"
      /\ bubbles' = bubbles \union Of(history.chat, ids)
      /\ index' = Of(history.chat, ids)
      /\ oldest' = low
      /\ history' = NoWorker
      /\ UNCHANGED <<last, feed, current, backfill, pass, cursor, rebuilt>>
  BY DEF ShowHistory
<1>2. /\ history \in Workers /\ last \in [Chats -> Nat] /\ bubbles \in SUBSET (Chats \X Nat)
      /\ history.chat = current /\ current # Closed /\ backfill = NoWorker
      /\ current \in Chats
  BY <1>1 DEF TuiInv, TuiTypes, HistoryOK
<1>3. ids \in SUBSET Nat
  BY <1>2 DEF Workers
<1> HIDE DEF ids
<1>4. /\ Of(current, ids) \in SUBSET (Chats \X Nat)
      /\ \A i : <<current, i>> \in Of(current, ids) <=> i \in ids
      /\ \A b \in Of(current, ids) : b[1] = current /\ b[2] \in ids
  BY <1>2, <1>3, MarksTyped
<1>5. low \in Nat /\ (low # 0 => low \in ids)
  BY <1>3, LeastOf
<1> HIDE DEF low
<1>6. TuiTypes'
  BY <1>1, <1>2, <1>4, <1>5, NoWorkerIsWorker DEF TuiInv, TuiTypes
<1>7. FeedOK'
  BY <1>1 DEF TuiInv, FeedOK
<1>8. \A i : Held(i)' <=> Held(i) \/ i \in ids
  BY <1>1, <1>2, <1>4 DEF Held
<1>9. HeldOK'
  <2> SUFFICES ASSUME ~ rebuilt, NEW i \in Nat, Held(i)'
               PROVE  i <= last[current] /\ HeldFrom(i)'
    BY <1>1 DEF HeldOK, Cleared
  <2>1. CASE Held(i)
    <3>1. i <= last[current] /\ HeldFrom(i)
      BY <2>1, <1>1, <1>2 DEF TuiInv, HeldOK, Cleared
    <3> QED  BY <3>1, <1>1, <1>8 DEF HeldFrom
  <2>2. CASE i \in ids
    <3>1. i <= last[current] /\ \A k \in Nat : i <= k /\ k <= last[current] => k \in ids \/ Held(k)
      BY <2>2, <1>1 DEF TuiInv, HistoryPageOK, ids
    <3> QED  BY <3>1, <1>1, <1>8 DEF HeldFrom
  <2> QED  BY <2>1, <2>2, <1>8
<1>10. HistoryOK' /\ HistoryPageOK'
  BY <1>1, NoWorkerIsWorker DEF HistoryOK, HistoryPageOK
<1>11. CursorOK'
  BY <1>1, <1>2, <1>4, <1>5, <1>8 DEF CursorOK
<1>12. BackfillOK' /\ BackfillPageOK'
  BY <1>1, <1>2, NoWorkerIsWorker DEF BackfillOK, BackfillPageOK
<1> QED  BY <1>6, <1>7, <1>9, <1>10, <1>11, <1>12 DEF TuiInv

LEMMA ScrollToTopInv ==
    ASSUME TuiInv, ScrollToTop
    PROVE  TuiInv'
<1>1. /\ current # Closed /\ oldest # 0
      /\ backfill' = [chat |-> current, at |-> "scheduled", page |-> {}]
      /\ cursor' = oldest
      /\ UNCHANGED <<last, feed, current, bubbles, index, oldest, history, pass, rebuilt>>
  BY DEF ScrollToTop
<1>2. history.at = "idle"
  BY <1>1 DEF TuiInv, HistoryOK
<1>3. backfill' \in Workers /\ backfill'.chat = current /\ backfill'.at = "scheduled"
  BY <1>1 DEF TuiInv, TuiTypes, Workers
<1>4. TuiTypes'
  BY <1>1, <1>3 DEF TuiInv, TuiTypes
<1>5. FeedOK' /\ HeldOK' /\ HistoryPageOK' /\ CursorOK'
  BY <1>1, PaneStays
<1>6. HistoryOK'
  BY <1>1, <1>2 DEF HistoryOK
<1>7. BackfillOK'
  <2>1. ~ rebuilt => oldest <= last[current] /\ HeldFrom(oldest)
    <3>1. oldest \in Nat
      BY DEF TuiInv, TuiTypes
    <3> QED  BY <3>1, <1>1, <1>2 DEF TuiInv, CursorOK, HeldOK, Cleared
  <2>2. HeldFrom(cursor)' <=> HeldFrom(oldest)
    BY <1>1 DEF HeldFrom, Held
  <2> QED  BY <2>1, <2>2, <1>1, <1>3 DEF BackfillOK
<1>8. BackfillPageOK'
  BY <1>3 DEF BackfillPageOK
<1> QED  BY <1>4, <1>5, <1>6, <1>7, <1>8 DEF TuiInv

\* A backfill that goes on, or ends, without a page to mount.
LEMMA BackfillMoves ==
    ASSUME TuiInv, backfill.at # "idle",
           backfill' \in Workers,
           backfill' = NoWorker \/ backfill'.chat = backfill.chat,
           BackfillPageOK',
           UNCHANGED <<last, feed, current, bubbles, index, oldest, history, pass, cursor, rebuilt>>
    PROVE  TuiInv'
<1>1. TuiTypes'
  BY DEF TuiInv, TuiTypes
<1>2. FeedOK' /\ HeldOK' /\ HistoryPageOK' /\ CursorOK'
  BY PaneStays
<1>3. HistoryOK'
  BY NoWorkerIsWorker DEF TuiInv, HistoryOK
<1>4. BackfillOK'
  <2>1. HeldFrom(cursor) <=> HeldFrom(cursor)'
    BY HeldStays DEF HeldFrom, Held
  <2> QED  BY <2>1, NoWorkerIsWorker DEF TuiInv, BackfillOK
<1> QED  BY <1>1, <1>2, <1>3, <1>4 DEF TuiInv

LEMMA StartBackfillInv ==
    ASSUME TuiInv, StartBackfill
    PROVE  TuiInv'
<1>1. /\ backfill.at = "scheduled"
      /\ backfill' = NoWorker \/ backfill' = [backfill EXCEPT !.at = "fetching"]
      /\ UNCHANGED <<last, feed, current, bubbles, index, oldest, history, pass, cursor, rebuilt>>
  BY DEF StartBackfill, EndsBackfill
<1>2. backfill \in Workers
  BY DEF TuiInv, TuiTypes
<1>3. /\ backfill' \in Workers /\ backfill'.at # "fetched"
      /\ backfill' = NoWorker \/ backfill'.chat = backfill.chat
  BY <1>1, <1>2, NoWorkerIsWorker DEF Workers
<1>4. BackfillPageOK'
  BY <1>3 DEF BackfillPageOK
<1> QED  BY <1>1, <1>3, <1>4, BackfillMoves

LEMMA FetchOlderInv ==
    ASSUME TuiInv, FetchOlder
    PROVE  TuiInv'
<1> DEFINE ids == Newest(PageSize, cursor - 1)
<1>1. /\ backfill.at = "fetching"
      /\ backfill' = NoWorker \/ backfill' = [backfill EXCEPT !.at = "fetched", !.page = ids]
      /\ UNCHANGED <<last, feed, current, bubbles, index, oldest, history, pass, cursor, rebuilt>>
  BY DEF FetchOlder, EndsBackfill
<1>2. backfill \in Workers /\ cursor \in Nat
  BY DEF TuiInv, TuiTypes
<1>3. /\ ids \in SUBSET Nat
      /\ \A i \in ids :
            i <= cursor - 1 /\ \A k \in Nat : i <= k /\ k <= cursor - 1 => k \in ids
  BY <1>2, NewestIsUpper, TuiAssumption
<1> HIDE DEF ids
<1>4. /\ backfill' \in Workers
      /\ backfill' = NoWorker \/ (backfill'.chat = backfill.chat /\ backfill'.page = ids)
  BY <1>1, <1>2, <1>3, NoWorkerIsWorker DEF Workers
<1>5. BackfillPageOK'
  <2> SUFFICES ASSUME backfill'.at = "fetched", NEW i \in ids
               PROVE  i < cursor /\ \A k \in Nat : i <= k /\ k < cursor => k \in ids
    BY <1>1, <1>4, NoWorkerIsWorker DEF BackfillPageOK
  <2>1. i \in Nat /\ \A k \in Nat : k < cursor => k <= cursor - 1
    BY <1>2, <1>3
  <2> QED  BY <2>1, <1>2, <1>3
<1> QED  BY <1>1, <1>4, <1>5, BackfillMoves

LEMMA MountOlderInv ==
    ASSUME TuiInv, MountOlder
    PROVE  TuiInv'
<1> DEFINE fresh == {i \in backfill.page : ~ \E b \in index : b[2] = i}
<1>1. /\ backfill.at = "fetched" /\ backfill' = NoWorker
      /\ UNCHANGED <<last, feed, current, history, pass, cursor, rebuilt>>
  BY DEF MountOlder, EndsBackfill
<1>2. /\ backfill.chat = current /\ current # Closed /\ oldest # 0
      /\ ~ rebuilt => cursor <= last[current] /\ HeldFrom(cursor)
  BY <1>1 DEF TuiInv, BackfillOK
<1>3. history.at = "idle"
  BY <1>2 DEF TuiInv, HistoryOK
<1>4. BackfillPageOK'
  BY <1>1, NoWorkerIsWorker DEF BackfillPageOK
<1>5. CASE fresh = {}
  <2>1. UNCHANGED <<bubbles, index, oldest>>
    BY <1>5, <1>2 DEF MountOlder
  <2> QED  BY <2>1, <1>1, <1>4, NoWorkerIsWorker, BackfillMoves
<1>6. CASE fresh # {}
  <2>1. /\ bubbles' = bubbles \union Of(current, fresh)
        /\ index' = Indexed(Of(current, fresh))
        /\ oldest' = Min(fresh)
    BY <1>6, <1>2 DEF MountOlder
  <2>2. /\ last \in [Chats -> Nat] /\ current \in Chats /\ cursor \in Nat
        /\ bubbles \in SUBSET (Chats \X Nat) /\ index \in SUBSET (Chats \X Nat)
        /\ backfill.page \in SUBSET Nat
    BY <1>2 DEF TuiInv, TuiTypes, Workers
  <2>3. fresh \in SUBSET Nat
    BY <2>2
  <2>4. \A k \in backfill.page : k \in fresh \/ \E b \in index : b[2] = k
    OBVIOUS
  <2>5. \A i \in fresh : i < cursor /\ \A k \in Nat : i <= k /\ k < cursor => k \in backfill.page
    BY <1>1 DEF TuiInv, BackfillPageOK
  <2> HIDE DEF fresh
  <2>6. /\ Of(current, fresh) \in SUBSET (Chats \X Nat)
        /\ \A i : <<current, i>> \in Of(current, fresh) <=> i \in fresh
        /\ \A b \in Of(current, fresh) : b[1] = current /\ b[2] \in fresh
    BY <2>2, <2>3, MarksTyped
  <2>7. Min(fresh) \in fresh
    BY <2>3, <1>6, LeastOf
  <2>8. index' \in SUBSET (Chats \X Nat) /\ \A b \in index' : b \in index \/ b \in Of(current, fresh)
    BY <2>1, <2>2, <2>6 DEF Indexed
  <2>9. TuiTypes'
    BY <2>1, <2>2, <2>3, <2>6, <2>7, <2>8, <1>1, NoWorkerIsWorker DEF TuiInv, TuiTypes
  <2>10. FeedOK' /\ HistoryOK' /\ HistoryPageOK' /\ BackfillOK'
    BY <1>1, <1>3, NoWorkerIsWorker DEF TuiInv, FeedOK, HistoryOK, HistoryPageOK, BackfillOK
  <2>11. \A i : Held(i)' <=> Held(i) \/ i \in fresh
    BY <2>1, <2>6, <1>1 DEF Held
  <2>12. ASSUME ~ rebuilt, NEW b \in index
         PROVE  b[1] = current /\ b \in bubbles /\ Held(b[2])
    <3>1. b[1] = current /\ b \in bubbles
      BY <2>12, <1>2 DEF TuiInv, CursorOK
    <3>2. b = <<current, b[2]>>
      BY <3>1, <2>2
    <3> QED  BY <3>1, <3>2 DEF Held
  <2>13. HeldOK'
    <3> SUFFICES ASSUME ~ rebuilt, NEW i \in Nat, Held(i)'
                 PROVE  i <= last[current] /\ HeldFrom(i)'
      BY <1>1 DEF HeldOK, Cleared
    <3>1. CASE Held(i)
      <4>1. i <= last[current] /\ HeldFrom(i)
        BY <3>1, <1>2, <1>3 DEF TuiInv, HeldOK, Cleared
      <4> QED  BY <4>1, <1>1, <2>11 DEF HeldFrom
    <3>2. CASE i \in fresh
      <4>1. i < cursor /\ cursor <= last[current] /\ last[current] \in Nat
        BY <3>2, <2>2, <2>5, <1>2
      <4>2. ASSUME NEW k \in Nat, i <= k, k <= last[current] PROVE Held(k)'
        <5>1. CASE k < cursor
          <6>1. k \in fresh \/ \E b \in index : b[2] = k
            BY <5>1, <4>2, <3>2, <2>4, <2>5
          <6> QED  BY <6>1, <2>11, <2>12
        <5>2. CASE ~ (k < cursor)
          BY <5>2, <4>2, <2>2, <2>11, <1>2 DEF HeldFrom
        <5> QED  BY <5>1, <5>2
      <4>3. i <= last[current]
        BY <4>1, <2>2
      <4> QED  BY <4>2, <4>3, <1>1 DEF HeldFrom
    <3> QED  BY <3>1, <3>2, <2>11
  <2>14. CursorOK'
    <3>1. Held(oldest)'
      <4>1. PICK o : o = Min(fresh)
        OBVIOUS
      <4>2. Held(o)'
        BY <4>1, <2>7, <2>11
      <4> QED  BY <4>1, <4>2, <2>1 DEF Held
    <3>2. ASSUME ~ rebuilt, NEW b \in index' PROVE b \in bubbles' /\ b[1] = current
      BY <3>2, <2>1, <2>6, <2>8, <2>12
    <3> QED  BY <3>1, <3>2, <1>1, <1>2 DEF CursorOK
  <2> QED  BY <2>9, <2>10, <2>13, <2>14, <1>4 DEF TuiInv
<1> QED  BY <1>5, <1>6

\* Steps of a whole-chat pass, which leaves its mark on the pane.
LEMMA PassMoves ==
    ASSUME TuiInv, pass' \in Workers, pass'.at # "idle" => pass'.chat \in Chats,
           UNCHANGED <<bubbles, index, rebuilt>> \/ rebuilt' = TRUE,
           bubbles' \in SUBSET (Chats \X Nat), index' \in SUBSET (Chats \X Nat),
           UNCHANGED <<last, feed, current, oldest, history, backfill, cursor>>
    PROVE  TuiInv'
<1>1. TuiTypes'
  BY DEF TuiInv, TuiTypes
<1>2. FeedOK' /\ HistoryOK' /\ BackfillPageOK'
  BY DEF TuiInv, FeedOK, HistoryOK, BackfillPageOK
<1>3. CASE UNCHANGED <<bubbles, index, rebuilt>>
  <2>1. HeldOK' /\ HistoryPageOK' /\ CursorOK' /\ BackfillOK'
    BY <1>3, PaneStays
  <2> QED  BY <2>1, <1>1, <1>2 DEF TuiInv
<1>4. CASE rebuilt' = TRUE
  <2>1. HeldOK' /\ HistoryPageOK' /\ CursorOK'
    BY <1>4 DEF HeldOK, Cleared, HistoryPageOK, CursorOK
  <2>2. BackfillOK'
    BY <1>4 DEF TuiInv, BackfillOK
  <2> QED  BY <2>1, <2>2, <1>1, <1>2 DEF TuiInv
<1> QED  BY <1>3, <1>4

LEMMA PassInv ==
    ASSUME TuiInv, CtrlT \/ StartPass \/ FetchPass \/ ShowPass
    PROVE  TuiInv'
<1>1. /\ pass \in Workers /\ (pass.at # "idle" => pass.chat \in Chats)
      /\ current \in Chats \union {Closed} /\ last \in [Chats -> Nat]
      /\ bubbles \in SUBSET (Chats \X Nat) /\ index \in SUBSET (Chats \X Nat)
  BY DEF TuiInv, TuiTypes
<1>2. CASE CtrlT
  <2>1. current \in Chats
    BY <1>1, <1>2 DEF CtrlT
  <2>2. pass' \in Workers /\ pass'.chat \in Chats
    BY <2>1, <1>2 DEF CtrlT, Workers
  <2> QED  BY <2>2, <1>1, <1>2, PassMoves DEF CtrlT
<1>3. CASE StartPass
  <2>1. pass' = NoWorker \/ pass' = [pass EXCEPT !.at = "fetching"]
    BY <1>3 DEF StartPass
  <2>2. pass' \in Workers /\ (pass'.at # "idle" => pass'.chat \in Chats)
    BY <2>1, <1>1, <1>3, NoWorkerIsWorker DEF Workers, StartPass
  <2> QED  BY <2>2, <1>1, <1>3, PassMoves DEF StartPass
<1>4. CASE FetchPass
  <2>1. /\ UNCHANGED <<last, feed, current, bubbles, index, oldest, history, backfill, cursor, rebuilt>>
        /\ pass.at # "idle"
        /\ pass' = NoWorker
             \/ pass' = [pass EXCEPT !.at = "translating", !.page = Newest(PassCap, last[pass.chat])]
    BY <1>4 DEF FetchPass
  <2>2. Newest(PassCap, last[pass.chat]) \in SUBSET Nat
    BY DEF Newest
  <2>3. pass' \in Workers /\ (pass'.at # "idle" => pass'.chat \in Chats)
    BY <2>1, <2>2, <1>1, NoWorkerIsWorker DEF Workers
  <2> QED  BY <2>1, <2>3, <1>1, PassMoves
<1>5. CASE ShowPass
  <2>1. /\ UNCHANGED <<last, feed, current, oldest, history, backfill, cursor>>
        /\ pass' = NoWorker /\ pass.chat \in Chats
        /\ \/ UNCHANGED <<bubbles, index, rebuilt>>
           \/ /\ pass.chat = current /\ rebuilt' = TRUE
              /\ bubbles' = Of(pass.chat, pass.page) /\ index' = bubbles'
    BY <1>1, <1>5 DEF ShowPass
  <2>2. CASE UNCHANGED <<bubbles, index, rebuilt>>
    BY <2>1, <2>2, <1>1, NoWorkerIsWorker, PassMoves
  <2>3. CASE pass.chat \in Chats /\ rebuilt' = TRUE /\ bubbles' = Of(pass.chat, pass.page) /\ index' = bubbles'
    <3>1. pass.page \in SUBSET Nat
      BY <1>1 DEF Workers
    <3>2. Of(pass.chat, pass.page) \in SUBSET (Chats \X Nat)
      BY <3>1, <2>3 DEF Of
    <3> QED  BY <2>1, <2>3, <3>2, NoWorkerIsWorker, PassMoves
  <2> QED  BY <2>1, <2>2, <2>3
<1> QED  BY <1>2, <1>3, <1>4, <1>5

LEMMA TuiStepInv == TuiInv /\ [TuiNext]_tuiVars => TuiInv'
<1> SUFFICES ASSUME TuiInv, [TuiNext]_tuiVars PROVE TuiInv'
  OBVIOUS
<1>1. CASE \E c \in Chats : Live(c) \/ OpenChat(c)
  BY <1>1, LiveInv, OpenChatInv
<1>2. CASE Drain
  BY <1>2, DrainInv
<1>3. CASE ClearPane \/ FetchHistory \/ ShowHistory
  BY <1>3, ClearPaneInv, FetchHistoryInv, ShowHistoryInv
<1>4. CASE ScrollToTop \/ StartBackfill \/ FetchOlder \/ MountOlder
  BY <1>4, ScrollToTopInv, StartBackfillInv, FetchOlderInv, MountOlderInv
<1>5. CASE CtrlT \/ StartPass \/ FetchPass \/ ShowPass
  BY <1>5, PassInv
<1>6. CASE UNCHANGED tuiVars
  <2>1. UNCHANGED <<last, feed, current, bubbles, index, oldest, history, backfill, pass, cursor, rebuilt>>
    BY <1>6 DEF tuiVars, workerVars
  <2>2. TuiTypes'
    BY <2>1 DEF TuiInv, TuiTypes
  <2> QED  BY <2>1, <2>2, PaneStays DEF TuiInv
<1> QED  BY <1>1, <1>2, <1>3, <1>4, <1>5, <1>6 DEF TuiNext

\* Once the history worker of the open chat is done, what the pane shows with
\* what is about to be drained into it has no message missing in the middle
\* (_load_history, _backfill_worker, the live feeds), unless a pass rebuilt it.
THEOREM PaneHasNoHole == TuiSpec => []PagesMeet
<1>1. TuiInv => PagesMeet
  <2> SUFFICES ASSUME TuiInv, history.at = "idle", ~ rebuilt PROVE NoHole(Visible \union Awaited)
    BY DEF PagesMeet
  <2>1. /\ feed \in Seq(Chats \X Nat) /\ bubbles \in SUBSET (Chats \X Nat)
        /\ last \in [Chats -> Nat] /\ current \in Chats \union {Closed}
    BY DEF TuiInv, TuiTypes
  <2>2. \A i : i \in Visible => i \in Nat /\ Held(i) /\ current \in Chats
    <3> SUFFICES ASSUME NEW i \in Visible PROVE i \in Nat /\ Held(i) /\ current \in Chats
      OBVIOUS
    <3>1. PICK b \in bubbles : b[1] = current /\ i = b[2]
      BY DEF Visible
    <3>2. b \in Chats \X Nat /\ b = <<current, i>>
      BY <3>1, <2>1
    <3> QED  BY <3>1, <3>2 DEF Held
  <2>3. \A i : i \in Awaited => i \in Nat /\ Held(i) /\ current \in Chats
    <3> SUFFICES ASSUME NEW i \in Awaited PROVE i \in Nat /\ Held(i) /\ current \in Chats
      OBVIOUS
    <3>1. PICK j \in DOMAIN feed : feed[j][1] = current /\ i = feed[j][2]
      BY DEF Awaited
    <3>2. feed[j] \in Chats \X Nat
      BY <2>1
    <3>3. feed[j] = <<current, i>>
      BY <3>1, <3>2
    <3> QED  BY <3>1, <3>2, <3>3 DEF Held
  <2>4. \A k : Held(k) => k \in Visible \union Awaited
    <3> SUFFICES ASSUME NEW k, Held(k) PROVE k \in Visible \union Awaited
      OBVIOUS
    <3>1. CASE <<current, k>> \in bubbles
      <4>1. <<current, k>>[1] = current /\ <<current, k>>[2] = k
        OBVIOUS
      <4> QED  BY <4>1, <3>1 DEF Visible
    <3>2. ASSUME NEW j \in DOMAIN feed, feed[j] = <<current, k>> PROVE k \in Awaited
      <4>1. feed[j][1] = current /\ feed[j][2] = k
        BY <3>2
      <4> QED  BY <4>1 DEF Awaited
    <3> QED  BY <3>1, <3>2 DEF Held
  <2>5. ASSUME NEW i \in Visible \union Awaited, NEW k \in Visible \union Awaited, NEW m \in i..k
        PROVE  m \in Visible \union Awaited
    <3>1. i \in Nat /\ k \in Nat /\ Held(i) /\ Held(k) /\ current \in Chats
      BY <2>2, <2>3
    <3>2. current # Closed
      BY <3>1, TuiAssumption
    <3>3. m \in Nat /\ i <= m /\ m <= k /\ k <= last[current] /\ HeldFrom(i) /\ last[current] \in Nat
      BY <3>1, <3>2, <2>1, <2>5 DEF TuiInv, HeldOK, Cleared
    <3>4. m <= last[current]
      BY <3>1, <3>3
    <3> QED  BY <3>3, <3>4, <2>4 DEF HeldFrom
  <2> QED  BY <2>5 DEF NoHole
<1>2. TuiInit => TuiInv
  BY TuiInitInv
<1>3. TuiInv /\ [TuiNext]_tuiVars => TuiInv'
  BY TuiStepInv
<1> QED  BY <1>1, <1>2, <1>3, PTL DEF TuiSpec
=============================================================================
