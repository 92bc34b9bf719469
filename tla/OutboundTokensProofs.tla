------------------------ MODULE OutboundTokensProofs ------------------------
(***************************************************************************)
(* Proofs about OutboundTokens, for any offers, callers and limits: no     *)
(* token is stuck in "sending", a token mid-send is never evicted, the     *)
(* store keeps its limit, and the coordinator implements SelectionOnce.    *)
(***************************************************************************)
EXTENDS OutboundTokens, FiniteSetTheorems, WellFoundedInduction, TLAPS

\* The token and the caller of a send in progress are its own, the token was
\* not consumed, it is marked if it is still in the store, and what is being
\* sent is what was offered.
FlightsOK ==
    /\ \A f, g \in flights : (f.by = g.by \/ f.token = g.token) => f = g
    /\ \A f \in flights :
          /\ f.token \in Issued
          /\ f.token \notin recorded
          /\ f.token \in store => f.token \in sending
          /\ f.dialog = offers[f.token].dialog
          /\ f.owner = offers[f.token].owner
          /\ f.text \in offers[f.token].variants

\* A consumed token is gone for good.
ConsumedOK == store \intersect recorded = {}

IInv == TypeOK /\ MarkedIsInFlight /\ FlightsOK /\ ConsumedOK

\* Pruning removes tokens only, never one that is marked, and never adds any.
LEMMA PruneKeepsMarked ==
    ASSUME NEW STATE S
    PROVE  Pruned(S) \subseteq S /\ S \intersect sending \subseteq Pruned(S)
BY DEF Pruned, Surplus

LEMMA InitEstablishes == Init => IInv
<1> SUFFICES ASSUME Init PROVE IInv
  OBVIOUS
<1>1. TypeOK
  BY BoundsAssumption DEF Init, TypeOK, Issued
<1> QED BY <1>1 DEF Init, IInv, MarkedIsInFlight, FlightsOK, ConsumedOK

\* What prepare leaves of the store: the old entries and the new one, none of
\* those that are marked missing.
LEMMA PrepareStore ==
    ASSUME IInv, Prepare
    PROVE  /\ store' \subseteq store \union {Len(offers) + 1}
           /\ sending' = sending
<1> DEFINE Grown == Pruned(store) \union {Len(offers) + 1}
<1>1. Pruned(store) \subseteq store /\ store \intersect sending \subseteq Pruned(store)
  BY PruneKeepsMarked
<1>2. Pruned(Grown) \subseteq Grown /\ Grown \intersect sending \subseteq Pruned(Grown)
  BY PruneKeepsMarked
<1>3. store' = Pruned(Grown) /\ sending' = sending \intersect store'
  BY DEF Prepare
<1>4. sending \subseteq store
  BY DEF IInv, TypeOK
<1> QED BY <1>1, <1>2, <1>3, <1>4

LEMMA PreparePreserves == IInv /\ Prepare => IInv'
<1> SUFFICES ASSUME IInv, Prepare PROVE IInv'
  OBVIOUS
<1> USE DEF IInv
<1> DEFINE n == Len(offers) + 1
<1>1. PICK o \in Offers : offers' = Append(offers, o)
  BY DEF Prepare
<1>2. /\ Len(offers) \in Nat
      /\ Len(offers') = n
      /\ Issued = 1..Len(offers)
      /\ Issued' = 1..n
      /\ \A t \in Issued : offers'[t] = offers[t]
  BY <1>1 DEF TypeOK, Issued
<1>3. store' \subseteq store \union {n} /\ sending' = sending
  BY PrepareStore
<1>4. UNCHANGED <<lapsed, flights, arrived, delivered, recorded>>
  BY DEF Prepare
<1>5. sending \subseteq store'
  BY <1>3 DEF Prepare
<1>6. TypeOK'
  <2>1. offers' \in Seq(Offers)
    BY <1>1 DEF TypeOK
  <2>2. Len(offers') <= MaxTokens /\ lapsed' \in 0..Len(offers')
    BY <1>2, <1>4, BoundsAssumption DEF TypeOK, Prepare
  <2>3. store' \subseteq Issued' /\ recorded' \subseteq Issued'
    BY <1>2, <1>3, <1>4 DEF TypeOK
  <2> QED BY <2>1, <2>2, <2>3, <1>3, <1>4, <1>5 DEF TypeOK, Flight
<1>7. MarkedIsInFlight'
  BY <1>3, <1>4 DEF MarkedIsInFlight
<1>8. FlightsOK'
  BY <1>2, <1>3, <1>4 DEF FlightsOK
<1>9. ConsumedOK'
  BY <1>2, <1>3, <1>4 DEF ConsumedOK, TypeOK
<1> QED BY <1>6, <1>7, <1>8, <1>9

LEMMA LapsePreserves == IInv /\ Lapse => IInv'
<1> SUFFICES ASSUME IInv, Lapse PROVE IInv'
  OBVIOUS
<1> USE DEF IInv, Lapse
<1>1. TypeOK'
  BY DEF TypeOK, Issued, Flight
<1> QED BY <1>1 DEF MarkedIsInFlight, FlightsOK, ConsumedOK, Issued

LEMMA MarkPreserves == ASSUME NEW p \in Callers, IInv, Mark(p) PROVE IInv'
<1> USE DEF IInv
<1>1. PICK f \in Flight :
          /\ f.by = p
          /\ Accepts(f)
          /\ sending' = sending \union {f.token}
          /\ flights' = flights \union {f}
  BY DEF Mark
<1>2. UNCHANGED <<offers, lapsed, store, arrived, delivered, recorded>> /\ Idle(p)
  BY DEF Mark
<1>3. Issued' = Issued
  BY <1>2 DEF Issued
<1>4. TypeOK'
  BY <1>1, <1>2, <1>3 DEF TypeOK, Accepts
<1>5. MarkedIsInFlight'
  BY <1>1 DEF MarkedIsInFlight
<1>6. f.token \in store /\ f.token \notin sending /\ f.token \notin recorded
  BY <1>1 DEF Accepts, ConsumedOK
<1>7. FlightsOK'
  <2>1. \A g \in flights : g.by # f.by /\ g.token # f.token
    BY <1>1, <1>2, <1>6 DEF FlightsOK, Idle
  <2>2. ASSUME NEW g \in flights', NEW h \in flights', g.by = h.by \/ g.token = h.token
        PROVE  g = h
    BY <1>1, <2>1, <2>2 DEF FlightsOK
  <2>3. f.token \in Issued
    BY <1>6 DEF TypeOK
  <2> QED BY <1>1, <1>2, <1>3, <1>6, <2>2, <2>3 DEF FlightsOK, Accepts
<1>8. ConsumedOK'
  BY <1>2 DEF ConsumedOK
<1> QED BY <1>4, <1>5, <1>7, <1>8

LEMMA RejectPreserves == IInv /\ RejectExpired => IInv'
<1> SUFFICES ASSUME IInv, RejectExpired PROVE IInv'
  OBVIOUS
<1> USE DEF IInv, RejectExpired
<1>1. Issued' = Issued
  BY DEF Issued
<1>2. TypeOK'
  BY <1>1 DEF TypeOK
<1> QED BY <1>1, <1>2 DEF MarkedIsInFlight, FlightsOK, ConsumedOK

LEMMA ArrivePreserves == ASSUME NEW f \in flights, IInv, Arrive(f) PROVE IInv'
<1> USE DEF IInv, Arrive
<1>1. Issued' = Issued
  BY DEF Issued
<1>2. TypeOK'
  BY <1>1 DEF TypeOK
<1> QED BY <1>1, <1>2 DEF MarkedIsInFlight, FlightsOK, ConsumedOK

\* A send that ends takes its flight along and leaves the others as they are.
LEMMA EndPreserves ==
    ASSUME NEW f \in flights, IInv, SendReturns(f) \/ SendRaises(f)
    PROVE  IInv'
<1> USE DEF IInv
<1>1. /\ UNCHANGED <<offers, lapsed>>
      /\ flights' = flights \ {f}
      /\ arrived' = arrived \ {f.by}
      /\ sending' = sending \ {f.token}
      /\ store' \subseteq store
      /\ sending' \subseteq store'
      /\ recorded' \subseteq recorded \union {f.token}
      /\ f.token \in recorded' => f.token \notin store'
  BY DEF SendReturns, SendRaises, Consumed, Restored, TypeOK, FlightsOK
<1>2. Issued' = Issued
  BY <1>1 DEF Issued
<1>3. f.token \in Issued
  BY DEF FlightsOK
<1>4. TypeOK'
  <2>1. arrived' \subseteq {g.by : g \in flights'}
    BY <1>1 DEF TypeOK
  <2> QED BY <1>1, <1>2, <1>3, <2>1 DEF TypeOK
<1>5. \A g \in flights' : g \in flights /\ g.token # f.token
  BY <1>1 DEF FlightsOK
<1>6. MarkedIsInFlight'
  <2> SUFFICES ASSUME NEW t \in sending' PROVE \E g \in flights' : g.token = t
    BY DEF MarkedIsInFlight
  <2>1. PICK g \in flights : g.token = t
    BY <1>1 DEF MarkedIsInFlight
  <2> QED BY <1>1, <2>1
<1>7. FlightsOK'
  BY <1>1, <1>2, <1>5 DEF FlightsOK
<1>8. ConsumedOK'
  BY <1>1 DEF ConsumedOK
<1> QED BY <1>4, <1>6, <1>7, <1>8

LEMMA StutterPreserves == IInv /\ UNCHANGED vars => IInv'
<1> SUFFICES ASSUME IInv, UNCHANGED vars PROVE IInv'
  OBVIOUS
<1> USE DEF IInv, vars
<1>1. Issued' = Issued
  BY DEF Issued
<1> QED BY <1>1 DEF TypeOK, MarkedIsInFlight, FlightsOK, ConsumedOK

-----------------------------------------------------------------------------

LEMMA StepPreserves == IInv /\ [Next]_vars => IInv'
<1> SUFFICES ASSUME IInv, [Next]_vars PROVE IInv'
  OBVIOUS
<1>1. CASE Prepare
  BY <1>1, PreparePreserves
<1>2. CASE Lapse
  BY <1>2, LapsePreserves
<1>3. ASSUME NEW p \in Callers, Mark(p) PROVE IInv'
  BY <1>3, MarkPreserves
<1>4. CASE RejectExpired
  BY <1>4, RejectPreserves
<1>5. ASSUME NEW f \in flights, Arrive(f) PROVE IInv'
  BY <1>5, ArrivePreserves
<1>6. ASSUME NEW f \in flights, SendReturns(f) \/ SendRaises(f) PROVE IInv'
  BY <1>6, EndPreserves
<1>7. CASE UNCHANGED vars
  BY <1>7, StutterPreserves
<1> QED BY <1>1, <1>2, <1>3, <1>4, <1>5, <1>6, <1>7 DEF Next

LEMMA Invariance == Spec => []IInv
<1>1. Init => IInv
  BY InitEstablishes
<1>2. IInv /\ [Next]_vars => IInv'
  BY StepPreserves
<1> QED BY <1>1, <1>2, PTL DEF Spec

\* The type invariant of the token store and the sends in progress holds for
\* every offer set, caller set and limit.
THEOREM TypeCorrect == Spec => []TypeOK
<1>1. IInv => TypeOK
  BY DEF IInv
<1> QED BY <1>1, Invariance, PTL

\* No token stays marked once nothing is being sent for it, whether its send
\* returned, raised or was cancelled (send_variant, _restore_token).
THEOREM NoTokenStuck == Spec => []MarkedIsInFlight
<1>1. IInv => MarkedIsInFlight
  BY DEF IInv
<1> QED BY <1>1, Invariance, PTL

-----------------------------------------------------------------------------
(* A token mid-send is not evicted. *)

KeptMidSend ==
    \A t \in store \ store' :
        (\E f \in flights : f.token = t) => t \in recorded' \/ t <= lapsed

LEMMA StepKeepsMidSend == IInv /\ [Next]_vars => KeptMidSend
<1> SUFFICES ASSUME IInv, [Next]_vars,
                    NEW t \in store \ store',
                    NEW f \in flights, f.token = t
             PROVE  t \in recorded' \/ t <= lapsed
  BY DEF KeptMidSend
<1>1. CASE Prepare
  <2>1. t \in sending
    BY DEF IInv, FlightsOK
  <2>2. sending' = sending /\ sending' \subseteq store'
    BY <1>1, PrepareStore DEF Prepare
  <2> QED BY <2>1, <2>2
<1>2. CASE Lapse
  BY <1>2 DEF Lapse
<1>3. ASSUME NEW p \in Callers, Mark(p) PROVE FALSE
  BY <1>3 DEF Mark
<1>4. CASE RejectExpired
  BY <1>4 DEF RejectExpired
<1>5. ASSUME NEW g \in flights, Arrive(g) PROVE FALSE
  BY <1>5 DEF Arrive
<1>6. ASSUME NEW g \in flights, SendReturns(g) PROVE t \in recorded'
  BY <1>6 DEF SendReturns, Consumed
<1>7. ASSUME NEW g \in flights, SendRaises(g) PROVE FALSE
  BY <1>7 DEF SendRaises
<1>8. CASE UNCHANGED vars
  BY <1>8 DEF vars
<1> QED BY <1>1, <1>2, <1>3, <1>4, <1>5, <1>6, <1>7, <1>8 DEF Next

\* However full the store, _prune never takes a token whose send is in
\* progress: only the send's success or its expiry removes it.
THEOREM MidSendNeverEvicted == Spec => MidSendIsKept
<1>1. IInv /\ [Next]_vars => [KeptMidSend]_vars
  BY StepKeepsMidSend
<1> QED BY <1>1, Invariance, PTL DEF Spec, MidSendIsKept, KeptMidSend

-----------------------------------------------------------------------------
(* The store stays within its limit. *)

LEMMA SomeIsOldest ==
    ASSUME NEW S \in SUBSET Nat, S # {}
    PROVE  \E t \in S : \A u \in S : t <= u
<1> DEFINE T == {0..i : i \in S}
<1>1. T \subseteq FiniteSubsetsOf(Nat) /\ T # {}
  <2>1. \A i \in S : 0..i \subseteq Nat /\ IsFiniteSet(0..i)
    BY FS_Interval
  <2> QED BY <2>1 DEF FiniteSubsetsOf
<1>2. PICK X \in T : \A Y \in T : ~ (<<Y, X>> \in StrictSubsetOrdering(Nat))
  BY <1>1, FS_StrictSubsetOrderingWellFounded, WFMin
<1>3. PICK t \in S : X = 0..t
  OBVIOUS
<1>4. ASSUME NEW u \in S, u < t PROVE FALSE
  <2>1. 0..u \in T
    OBVIOUS
  <2>2. 0..u \subseteq 0..t /\ 0..u # 0..t /\ 0..t \subseteq Nat
    BY <1>4
  <2>3. <<0..u, X>> \in StrictSubsetOrdering(Nat)
    BY <2>2, <1>3 DEF StrictSubsetOrdering
  <2> QED BY <1>2, <2>1, <2>3
<1> QED BY <1>4

\* Pruning leaves no more than the limit when no more than that are marked: the
\* oldest idle token it keeps, it keeps because the rest fits.
LEMMA SurplusIsDropped ==
    ASSUME NEW S \in SUBSET Nat, IsFiniteSet(S), Cardinality(S \intersect sending) <= TokenMax
    PROVE  Cardinality(S \ Surplus(S)) <= TokenMax
<1> DEFINE Kept == (S \ sending) \ Surplus(S)
<1>1. IsFiniteSet(S \ Surplus(S)) /\ Cardinality(S \ Surplus(S)) \in Nat
  BY FS_Subset, FS_CardinalityType
<1>2. CASE Kept = {}
  <2>1. S \ Surplus(S) \subseteq S \intersect sending
    BY <1>2
  <2>2. IsFiniteSet(S \intersect sending) /\ Cardinality(S \intersect sending) \in Nat
    BY FS_Subset, FS_CardinalityType
  <2>3. Cardinality(S \ Surplus(S)) <= Cardinality(S \intersect sending)
    BY <2>1, <2>2, FS_Subset
  <2> QED BY <2>2, <2>3, <1>1, BoundsAssumption
<1>3. CASE Kept # {}
  <2>1. PICK t \in Kept : \A u \in Kept : t <= u
    <3>1. Kept \in SUBSET Nat
      OBVIOUS
    <3> QED BY <3>1, <1>3, SomeIsOldest
  <2> DEFINE Older == {u \in S \ sending : u < t}
  <2>2. Cardinality(S) - Cardinality(Older) <= TokenMax
    <3>1. t \in S \ sending /\ t \notin Surplus(S)
      BY <2>1
    <3>2. ~ (Cardinality(S) - Cardinality(Older) > TokenMax)
      BY <3>1 DEF Surplus
    <3>3. Cardinality(S) \in Nat /\ Cardinality(Older) \in Nat
      BY FS_Subset, FS_CardinalityType
    <3> QED BY <3>2, <3>3, BoundsAssumption
  <2>3. Cardinality(S \ Older) = Cardinality(S) - Cardinality(Older)
    <3>1. S \intersect Older = Older
      OBVIOUS
    <3> QED BY <3>1, FS_Difference
  <2>4. S \ Surplus(S) \subseteq S \ Older
    <3> SUFFICES ASSUME NEW u \in S, u \notin Surplus(S), u \notin sending, u < t PROVE FALSE
      OBVIOUS
    <3>1. u \in Kept /\ u \in Nat /\ t \in Nat
      BY <2>1
    <3> QED BY <3>1, <2>1
  <2>5. Cardinality(S \ Surplus(S)) <= Cardinality(S \ Older)
    <3>1. IsFiniteSet(S \ Older)
      BY FS_Subset
    <3> QED BY <2>4, <3>1, FS_Subset
  <2>6. Cardinality(S \ Older) \in Nat
    BY FS_Subset, FS_CardinalityType
  <2> QED BY <2>2, <2>3, <2>5, <2>6, <1>1, BoundsAssumption
<1> QED BY <1>2, <1>3

LEMMA PruneBounds ==
    ASSUME NEW S \in SUBSET Nat, IsFiniteSet(S), Cardinality(S \intersect sending) <= TokenMax
    PROVE  Cardinality(Pruned(S)) <= TokenMax
<1> DEFINE kept == {t \in S : t > lapsed \/ t \in sending}
<1>1. kept \in SUBSET Nat /\ IsFiniteSet(kept)
  BY FS_Subset
<1>2. kept \intersect sending = S \intersect sending
  OBVIOUS
<1> HIDE DEF kept
<1>3. Cardinality(kept \ Surplus(kept)) <= TokenMax
  BY <1>1, <1>2, SurplusIsDropped
<1> QED BY <1>3 DEF Pruned, kept

LEMMA StoreIsFinite == TypeOK => IsFiniteSet(store) /\ Cardinality(store) \in Nat /\ store \in SUBSET Nat
<1> SUFFICES ASSUME TypeOK PROVE IsFiniteSet(store) /\ Cardinality(store) \in Nat /\ store \in SUBSET Nat
  OBVIOUS
<1>1. store \subseteq 1..Len(offers) /\ Len(offers) \in Nat
  BY DEF TypeOK, Issued
<1>2. IsFiniteSet(store)
  <2>1. 1 \in Int /\ Len(offers) \in Int
    BY <1>1
  <2>2. IsFiniteSet(1..Len(offers))
    BY <2>1, FS_Interval
  <2> QED BY <1>1, <2>2, FS_Subset
<1> QED BY <1>1, <1>2, FS_CardinalityType

LEMMA StepBounds == IInv /\ TokensBounded /\ [Next]_vars => TokensBounded'
<1> SUFFICES ASSUME IInv, TokensBounded, [Next]_vars PROVE TokensBounded'
  OBVIOUS
<1>1. IsFiniteSet(store) /\ Cardinality(store) \in Nat /\ store \in SUBSET Nat
  BY StoreIsFinite DEF IInv
<1>2. CASE Prepare
  <2> DEFINE Grown == Pruned(store) \union {Len(offers) + 1}
  <2>1. Pruned(store) \subseteq store /\ Len(offers) \in Nat /\ sending \subseteq store
    BY PruneKeepsMarked DEF IInv, TypeOK
  <2>2. Grown \in SUBSET Nat /\ IsFiniteSet(Grown)
    <3>1. IsFiniteSet(Pruned(store))
      BY <1>1, <2>1, FS_Subset
    <3>2. IsFiniteSet(Grown)
      BY <3>1, FS_AddElement
    <3>3. Pruned(store) \subseteq Nat
      <4>1. store \subseteq Nat /\ Pruned(store) \subseteq store
        BY <1>1, <2>1
      <4> QED BY ONLY <4>1
    <3>4. Len(offers) + 1 \in Nat
      BY ONLY <2>1
    <3>5. Grown \subseteq Nat
      BY <3>3, <3>4
    <3> QED BY <3>2, <3>5
  <2>3. Cardinality(Grown \intersect sending) <= TokenMax
    <3>1. Grown \intersect sending \subseteq store
      BY <2>1
    <3>2. /\ Cardinality(Grown \intersect sending) <= Cardinality(store)
          /\ Cardinality(Grown \intersect sending) \in Nat
      BY <3>1, <1>1, FS_Subset, FS_CardinalityType
    <3> QED BY <3>2, <1>1, BoundsAssumption DEF TokensBounded
  <2>4. store' = Pruned(Grown)
    BY <1>2 DEF Prepare
  <2> HIDE DEF Grown
  <2> QED BY <2>2, <2>3, <2>4, PruneBounds DEF TokensBounded
<1>3. CASE store' \subseteq store
  <2>1. Cardinality(store') <= Cardinality(store) /\ Cardinality(store') \in Nat
    BY <1>1, <1>3, FS_Subset, FS_CardinalityType
  <2> QED BY <2>1, <1>1, BoundsAssumption DEF TokensBounded
<1>4. CASE Lapse \/ (\E p \in Callers : Mark(p)) \/ UNCHANGED vars
  BY <1>3, <1>4 DEF Lapse, Mark, vars
<1>5. CASE RejectExpired
  BY <1>3, <1>5 DEF RejectExpired
<1>6. CASE \E f \in flights : Arrive(f) \/ SendReturns(f) \/ SendRaises(f)
  BY <1>3, <1>6 DEF Arrive, SendReturns, SendRaises, Consumed
<1> QED BY <1>2, <1>4, <1>5, <1>6 DEF Next

\* The store never holds more than token_max entries, although _prune may not
\* drop one mid-send: those that are marked were within the limit when marked.
THEOREM StoreKeepsItsLimit == Spec => []TokensBounded
<1>1. Init => TokensBounded
  BY FS_EmptySet, BoundsAssumption DEF Init, TokensBounded
<1> QED BY <1>1, StepBounds, Invariance, PTL DEF Spec

-----------------------------------------------------------------------------
(* The coordinator implements SelectionOnce. *)

tryingBar == {f.token : f \in flights}
reachedBar == {f.token : f \in {g \in flights : g.by \in arrived}}

LEMMA StepPromised == IInv /\ [Next]_vars => [Promise!Next]_(Promise!vars)
<1> SUFFICES ASSUME IInv, [Next]_vars
             PROVE  Promise!Next \/ UNCHANGED Promise!vars
  OBVIOUS
<1> USE DEF IInv
<1>1. CASE Prepare
  <2>1. Promise!Offer
    BY <1>1 DEF Prepare, Promise!Offer
  <2> QED BY <2>1 DEF Promise!Next
<1>2. CASE Lapse
  BY <1>2 DEF Lapse, Promise!vars
<1>3. ASSUME NEW p \in Callers, Mark(p) PROVE Promise!Next
  <2>1. PICK f \in Flight :
            /\ f.by = p
            /\ Accepts(f)
            /\ flights' = flights \union {f}
    BY <1>3 DEF Mark
  <2>2. UNCHANGED <<offers, arrived, delivered, recorded>> /\ Idle(p)
    BY <1>3 DEF Mark
  <2>3. f.token \notin tryingBar /\ f.token \notin recorded /\ f.token \in Issued
    BY <2>1 DEF Accepts, FlightsOK, ConsumedOK, TypeOK, tryingBar
  <2>4. f.by \notin arrived
    BY <2>1, <2>2 DEF Idle, TypeOK
  <2>5. tryingBar' = tryingBar \union {f.token} /\ reachedBar' = reachedBar
    BY <2>1, <2>2, <2>4 DEF tryingBar, reachedBar
  <2>6. Promise!Try(f.token)
    BY <2>2, <2>3, <2>5 DEF Promise!Try, tryingBar, reachedBar
  <2> QED BY <2>3, <2>6 DEF Promise!Next, Issued
<1>4. CASE RejectExpired
  BY <1>4 DEF RejectExpired, Promise!vars
<1>5. ASSUME NEW f \in flights, Arrive(f) PROVE Promise!Next
  <2>1. f.token \in tryingBar /\ f.token \notin reachedBar
    BY <1>5 DEF FlightsOK, Arrive, tryingBar, reachedBar
  <2>2. tryingBar' = tryingBar /\ reachedBar' = reachedBar \union {f.token}
    BY <1>5 DEF FlightsOK, Arrive, tryingBar, reachedBar
  <2>3. /\ f.text \in offers[f.token].variants
        /\ Delivery(f) = [token |-> f.token, dialog |-> offers[f.token].dialog,
                          owner |-> offers[f.token].owner, text |-> f.text]
    BY DEF FlightsOK, Delivery
  <2>4. UNCHANGED <<offers, recorded>> /\ delivered' = delivered \union {Delivery(f)}
    BY <1>5 DEF Arrive
  <2>5. Promise!Reach(f.token)
    BY <2>1, <2>2, <2>3, <2>4 DEF Promise!Reach, tryingBar, reachedBar
  <2> QED BY <2>5 DEF Promise!Next, FlightsOK, Issued
<1>6. ASSUME NEW f \in flights, SendReturns(f) PROVE Promise!Next
  <2>1. f.token \in reachedBar
    BY <1>6 DEF SendReturns, reachedBar
  <2>2. tryingBar' = tryingBar \ {f.token} /\ reachedBar' = reachedBar \ {f.token}
    BY <1>6 DEF SendReturns, FlightsOK, tryingBar, reachedBar
  <2>3. UNCHANGED <<offers, delivered>> /\ recorded' = recorded \union {f.token}
    BY <1>6 DEF SendReturns
  <2>4. Promise!Settle(f.token)
    BY <2>1, <2>2, <2>3 DEF Promise!Settle, tryingBar, reachedBar
  <2> QED BY <2>4 DEF Promise!Next, FlightsOK, Issued
<1>7. ASSUME NEW f \in flights, SendRaises(f) PROVE Promise!Next
  <2>1. f.token \in tryingBar
    BY DEF tryingBar
  <2>2. tryingBar' = tryingBar \ {f.token} /\ reachedBar' = reachedBar \ {f.token}
    BY <1>7 DEF SendRaises, FlightsOK, tryingBar, reachedBar
  <2>3. UNCHANGED <<offers, delivered, recorded>>
    BY <1>7 DEF SendRaises
  <2>4. Promise!Abandon(f.token)
    BY <2>1, <2>2, <2>3 DEF Promise!Abandon, tryingBar, reachedBar
  <2> QED BY <2>4 DEF Promise!Next, FlightsOK, Issued
<1>8. CASE UNCHANGED vars
  BY <1>8 DEF vars, Promise!vars
<1> QED BY <1>1, <1>2, <1>3, <1>4, <1>5, <1>6, <1>7, <1>8 DEF Next

\* The coordinator implements SelectionOnce: one send at a time per token,
\* only what was offered to whom it was offered, and nothing more under a
\* token whose send succeeded.
THEOREM SelectionsSentOnce == Spec => SendsOnce
<1>1. Init => Promise!Init
  BY DEF Init, Promise!Init
<1>2. IInv /\ [Next]_vars => [Promise!Next]_(Promise!vars)
  BY StepPromised
<1> QED BY <1>1, <1>2, Invariance, PTL DEF Spec, SendsOnce, Promise!Spec
=============================================================================
