--------------------------- MODULE OutboundTokens ---------------------------
(***************************************************************************)
(* OutboundSendCoordinator (agent/outbound_coordinator.py): the tokens     *)
(* that tie the variant a user picks to the draft it translates.  prepare  *)
(* puts a token in a bounded store; send_variant marks it, calls send_fn,  *)
(* and consumes it, or restores it when send_fn raised.                    *)
(*                                                                         *)
(* Every access to the store runs under one lock with no await inside, so  *)
(* marking, consuming and restoring are one step each; requests interleave *)
(* at send_fn.  The store is an OrderedDict that only ever appends, so a   *)
(* token is the number of its issue, the store a set of numbers, and       *)
(* "oldest" is "smallest".  All tokens live equally long: the clock is the *)
(* number of tokens whose time is up.                                      *)
(***************************************************************************)
EXTENDS Naturals, Sequences, FiniteSets

CONSTANTS
    Offers,      \* what prepare may offer: records [dialog, owner, variants]
    Callers,     \* requests that may be mid-send at one time
    TokenMax,    \* token_max
    MaxTokens    \* bound: tokens issued in a run

ASSUME BoundsAssumption == TokenMax \in Nat \ {0} /\ MaxTokens \in Nat

Dialogs == {o.dialog : o \in Offers}
Owners == {o.owner : o \in Offers}
Texts == UNION {o.variants : o \in Offers}

VARIABLES
    offers,      \* sequence of the entries ever remembered, by token
    lapsed,      \* tokens 1..lapsed are past expires_at
    store,       \* keys of _tokens
    sending,     \* tokens of the store whose entry has sending = True
    flights,     \* calls of send_fn in progress
    arrived,     \* callers whose send has reached Telegram
    delivered,   \* what reached Telegram: [token, dialog, owner, text]
    recorded     \* tokens whose send returned: consumed, source recorded

vars == <<offers, lapsed, store, sending, flights, arrived, delivered, recorded>>

Issued == DOMAIN offers

Flight == [by : Callers, token : 1..MaxTokens, dialog : Dialogs,
           owner : Owners, text : Texts]

Delivery(f) == [token |-> f.token, dialog |-> f.dialog,
                owner |-> f.owner, text |-> f.text]

Init ==
    /\ offers = <<>>
    /\ lapsed = 0
    /\ store = {} /\ sending = {}
    /\ flights = {} /\ arrived = {}
    /\ delivered = {} /\ recorded = {}

-----------------------------------------------------------------------------
(* prepare *)

\* A mutation of Surplus: eviction does not look at the sending flag.
FaultEvictsMidSend(S) ==
    {t \in S : Cardinality(S) - Cardinality({u \in S : u < t}) > TokenMax}

\* The idle tokens evicted, oldest first, until the store fits: t goes when
\* the store is still too large with every older idle token gone.
Surplus(S) ==
    {t \in S \ sending :
        Cardinality(S) - Cardinality({u \in S \ sending : u < t}) > TokenMax}

\* _prune: expired idle tokens, then the surplus.
Pruned(S) ==
    LET kept == {t \in S : t > lapsed \/ t \in sending}
    IN  kept \ Surplus(kept)

\* prepare that ends "ready"; the other outcomes leave the store alone.
Prepare ==
    /\ Len(offers) < MaxTokens
    /\ \E o \in Offers : offers' = Append(offers, o)
    /\ store' = Pruned(Pruned(store) \union {Len(offers) + 1})
    /\ sending' = sending \intersect store'
    /\ UNCHANGED <<lapsed, flights, arrived, delivered, recorded>>

\* The clock reaches the next expires_at.
Lapse ==
    /\ lapsed < Len(offers)
    /\ lapsed' = lapsed + 1
    /\ UNCHANGED <<offers, store, sending, flights, arrived, delivered, recorded>>

-----------------------------------------------------------------------------
(* send_variant *)

Idle(p) == \A f \in flights : f.by # p

\* _mark_sending lets the request through.
Accepts(f) ==
    /\ f.token \in store
    /\ f.token > lapsed
    /\ f.token \notin sending
    /\ f.dialog = offers[f.token].dialog
    /\ f.owner = offers[f.token].owner
    /\ f.text \in offers[f.token].variants

Mark(p) ==
    /\ Idle(p)
    /\ \E f \in Flight :
          /\ f.by = p
          /\ Accepts(f)
          /\ sending' = sending \union {f.token}
          /\ flights' = flights \union {f}
    /\ UNCHANGED <<offers, lapsed, store, arrived, delivered, recorded>>

\* _mark_sending meets an expired entry and pops it, mid-send or not.
RejectExpired ==
    /\ \E t \in store :
          /\ t <= lapsed
          /\ store' = store \ {t}
          /\ sending' = sending \ {t}
    /\ UNCHANGED <<offers, lapsed, flights, arrived, delivered, recorded>>

\* Telegram takes the message of a send in progress (external).
Arrive(f) ==
    /\ f.by \notin arrived
    /\ arrived' = arrived \union {f.by}
    /\ delivered' = delivered \union {Delivery(f)}
    /\ UNCHANGED <<offers, lapsed, store, sending, flights, recorded>>

\* A mutation of Consumed: the token survives the send that used it.
FaultKeepsToken(t) == store

\* _consume_token
Consumed(t) == store \ {t}

\* send_fn returns: the token is consumed, the source recorded.
SendReturns(f) ==
    /\ f.by \in arrived
    /\ flights' = flights \ {f}
    /\ arrived' = arrived \ {f.by}
    /\ store' = Consumed(f.token)
    /\ sending' = sending \ {f.token}
    /\ recorded' = recorded \union {f.token}
    /\ UNCHANGED <<offers, lapsed, delivered>>

\* _restore_token: the entry, if still there, is retryable again.
Restored(t) == sending \ {t}

\* send_fn raises or the request is cancelled, whether or not the message
\* has reached Telegram.
SendRaises(f) ==
    /\ flights' = flights \ {f}
    /\ arrived' = arrived \ {f.by}
    /\ sending' = Restored(f.token)
    /\ UNCHANGED <<offers, lapsed, store, delivered, recorded>>

Next ==
    \/ Prepare
    \/ Lapse
    \/ \E p \in Callers : Mark(p)
    \/ RejectExpired
    \/ \E f \in flights : Arrive(f) \/ SendReturns(f) \/ SendRaises(f)

Spec == Init /\ [][Next]_vars

-----------------------------------------------------------------------------
(* Properties *)

\* Type invariant of the token store, its entries and the sends in progress.
TypeOK ==
    /\ offers \in Seq(Offers)
    /\ Len(offers) <= MaxTokens
    /\ lapsed \in 0..Len(offers)
    /\ store \subseteq Issued
    /\ sending \subseteq store
    /\ flights \subseteq Flight
    /\ arrived \subseteq {f.by : f \in flights}
    /\ recorded \subseteq Issued

\* No token stays stuck in "sending": an entry is marked only while a call of
\* send_fn for it is in progress (send_variant's except BaseException).
MarkedIsInFlight ==
    \A t \in sending : \E f \in flights : f.token = t

\* _prune's bound: the store never holds more than token_max entries, however
\* many of them are mid-send.
TokensBounded == Cardinality(store) <= TokenMax

\* A token whose send is in progress leaves the store only because that send
\* has returned or because it is past its time: _prune never drops one
\* mid-send, whatever prepare adds.
MidSendIsKept ==
    [][\A t \in store \ store' :
          (\E f \in flights : f.token = t) => t \in recorded' \/ t <= lapsed]_vars

\* The coordinator keeps the promise of SelectionOnce: one send at a time per
\* token, only what was offered to whom it was offered, and nothing more under
\* a token whose send succeeded (prepare, send_variant).
Promise == INSTANCE SelectionOnce WITH
    trying <- {f.token : f \in flights},
    reached <- {f.token : f \in {g \in flights : g.by \in arrived}},
    settled <- recorded
SendsOnce == Promise!Spec
=============================================================================
