--------------------------- MODULE TTLCacheProofs ---------------------------
(***************************************************************************)
(* What TTLCache.tla checks on a small instance, for any number of keys,   *)
(* tasks, versions and epochs and any maxsize.                             *)
(***************************************************************************)
EXTENDS TTLCache, SequenceTheorems, TLAPS

(* The inductive invariant.                                                *)

\* Nothing is known of Telegram's data before it exists there.
FromTruth ==
    \A k \in Keys :
        /\ floor[k] <= truth[k]
        /\ Stored(k) => store[k] <= truth[k]

\* A task inside get_or_fetch is counted in its key's entry, and the one that
\* fetches is the first there: the entry, and with it the epoch, outlives it.
Counted ==
    \A p \in Procs : call[p].pc # "idle" =>
        /\ call[p].key \in Keys
        /\ \E i \in DOMAIN line[call[p].key] : line[call[p].key][i] = p
        /\ call[p].floor <= floor[call[p].key]
        /\ call[p].pc = "waiting" => call[p].ans = None

FetcherHolds ==
    \A p \in Procs : call[p].pc = "fetching" => Head(line[call[p].key]) = p

\* What is known of p while it fetches k.
Guarded(p, k) ==
    /\ call[p].snap <= epoch[k]
    /\ call[p].ans # None =>
         /\ call[p].floor <= call[p].ans
         /\ call[p].ans <= truth[k]
         /\ call[p].snap = epoch[k] => floor[k] <= call[p].ans

\* While a fetch is in flight its key's epoch only grows, and an epoch that
\* has not moved means no invalidation has come since the fetch began.
EpochGuards ==
    \A p \in Procs : call[p].pc = "fetching" => Guarded(p, call[p].key)

IInv == TypeOK /\ FromTruth /\ Counted /\ FetcherHolds /\ EpochGuards
             /\ StoredNotSuperseded
-----------------------------------------------------------------------------
(* Leaving the line: the others keep their places in it.                   *)

LEMMA RemovedAt ==
    ASSUME NEW S, NEW s \in Seq(S), NEW i \in DOMAIN s, s[i] # Head(s)
    PROVE  /\ RemoveAt(s, i) \in Seq(S)
           /\ Head(RemoveAt(s, i)) = Head(s)
           /\ \A j \in DOMAIN s : s[j] # s[i] =>
                \E m \in DOMAIN RemoveAt(s, i) : RemoveAt(s, i)[m] = s[j]
<1> DEFINE a == SubSeq(s, 1, i - 1)
           b == SubSeq(s, i + 1, Len(s))
<1>1. i \in 2 .. Len(s)
  OBVIOUS
<1>2. /\ a \in Seq(S) /\ Len(a) = i - 1
      /\ \A m \in 1 .. i - 1 : a[m] = s[m]
  BY <1>1
<1>3. /\ b \in Seq(S) /\ Len(b) = Len(s) - i
      /\ \A m \in 1 .. Len(s) - i : b[m] = s[m + i]
  BY <1>1
<1>4. RemoveAt(s, i) = a \o b
  BY DEF RemoveAt
<1> HIDE DEF a, b
<1>5. /\ a \o b \in Seq(S) /\ Len(a \o b) = Len(s) - 1
      /\ \A m \in 1 .. i - 1 : (a \o b)[m] = s[m]
      /\ \A m \in i .. Len(s) - 1 : (a \o b)[m] = s[m + 1]
  <2>1. /\ a \o b \in Seq(S)
        /\ Len(a \o b) = Len(a) + Len(b)
        /\ \A m \in 1 .. Len(a) + Len(b) :
             (a \o b)[m] = IF m <= Len(a) THEN a[m] ELSE b[m - Len(a)]
    BY <1>2, <1>3, ConcatProperties
  <2>2. Len(a) + Len(b) = Len(s) - 1
    BY <1>1, <1>2, <1>3
  <2>3. ASSUME NEW m \in 1 .. i - 1
        PROVE  (a \o b)[m] = s[m]
    <3>1. m \in 1 .. Len(a) + Len(b) /\ m <= Len(a)
      BY <2>2, <1>1, <1>2
    <3>2. (a \o b)[m] = a[m]
      BY <2>1, <3>1
    <3> QED
      BY <3>2, <1>2
  <2>4. ASSUME NEW m \in i .. Len(s) - 1
        PROVE  (a \o b)[m] = s[m + 1]
    <3>0. m \in 1 .. Len(a) + Len(b) /\ ~(m <= Len(a))
      BY <2>2, <1>1, <1>2
    <3>1. (a \o b)[m] = b[m - (i - 1)]
      BY <2>1, <3>0, <1>2
    <3>2. m - (i - 1) \in 1 .. Len(s) - i /\ (m - (i - 1)) + i = m + 1
      BY <1>1
    <3> QED
      BY <3>1, <3>2, <1>3
  <2> QED
    BY <2>1, <2>2, <2>3, <2>4
<1> DEFINE c == a \o b
<1>6. /\ c \in Seq(S) /\ Len(c) = Len(s) - 1
      /\ \A m \in 1 .. i - 1 : c[m] = s[m]
      /\ \A m \in i .. Len(s) - 1 : c[m] = s[m + 1]
  BY <1>5
<1> HIDE DEF c
<1>7. Head(c) = Head(s)
  <2>1. c[1] = s[1]
    BY <1>1, <1>6
  <2>2. c # <<>> /\ s # <<>>
    BY <1>1, <1>6
  <2> QED
    BY <2>1, <2>2, <1>6, HeadTailProperties
<1>8. ASSUME NEW j \in DOMAIN s, s[j] # s[i]
      PROVE  \E m \in DOMAIN c : c[m] = s[j]
  <2>1. CASE j < i
    BY <2>1, <1>1, <1>6
  <2>2. CASE j > i
    <3>1. j - 1 \in i .. Len(s) - 1 /\ (j - 1) + 1 = j
      BY <2>2, <1>1
    <3>2. c[j - 1] = s[j]
      BY <3>1, <1>6
    <3> QED
      BY <3>1, <3>2, <1>1, <1>6
  <2> QED
    BY <1>8, <2>1, <2>2, <1>1
<1>9. RemoveAt(s, i) = c
  BY <1>4 DEF c
<1> QED
  BY <1>6, <1>7, <1>8, <1>9

LEMMA LeftKeepsOthers ==
    ASSUME line \in [Keys -> Seq(Procs)], NEW p \in Procs, NEW k \in Keys,
           \E i \in DOMAIN line[k] : line[k][i] = p
    PROVE  /\ Left(p, k) \in [Keys -> Seq(Procs)]
           /\ \A x \in Keys : x # k => Left(p, k)[x] = line[x]
           /\ \A q \in Procs : q # p =>
                /\ (\E i \in DOMAIN line[k] : line[k][i] = q) =>
                     \E i \in DOMAIN Left(p, k)[k] : Left(p, k)[k][i] = q
                /\ Head(line[k]) = q => Head(Left(p, k)[k]) = q
<1> DEFINE s == line[k]
           place == CHOOSE i \in DOMAIN s : s[i] = p
<1>1. s \in Seq(Procs) /\ s # <<>>
  OBVIOUS
<1>2. place \in DOMAIN s /\ s[place] = p
  OBVIOUS
<1>3. Left(p, k) = [line EXCEPT ![k] = IF Head(s) = p THEN Tail(s)
                                      ELSE RemoveAt(s, place)]
  BY DEF Left
<1> HIDE DEF place
<1>4. CASE Head(s) = p
  <2>1. Left(p, k) = [line EXCEPT ![k] = Tail(s)]
    BY <1>3, <1>4
  <2>2. ASSUME NEW q \in Procs, q # p, NEW i \in DOMAIN s, s[i] = q
        PROVE  i - 1 \in DOMAIN Tail(s) /\ Tail(s)[i - 1] = q
    BY <2>2, <1>1, <1>4
  <2>3. /\ Left(p, k) \in [Keys -> Seq(Procs)]
        /\ Left(p, k)[k] = Tail(s)
        /\ \A x \in Keys : x # k => Left(p, k)[x] = line[x]
    BY <2>1, <1>1
  <2> HIDE DEF s
  <2>4. \A q \in Procs : q # p =>
           ((\E i \in DOMAIN s : s[i] = q) => \E i \in DOMAIN Tail(s) : Tail(s)[i] = q)
    BY <2>2
  <2> QED
    BY <2>3, <2>4, <1>4 DEF s
<1>5. CASE Head(s) # p
  <2>1. Left(p, k) = [line EXCEPT ![k] = RemoveAt(s, place)]
    BY <1>3, <1>5
  <2>2. /\ RemoveAt(s, place) \in Seq(Procs)
        /\ Head(RemoveAt(s, place)) = Head(s)
        /\ \A j \in DOMAIN s : s[j] # s[place] =>
              \E m \in DOMAIN RemoveAt(s, place) : RemoveAt(s, place)[m] = s[j]
    BY <1>1, <1>2, <1>5, RemovedAt
  <2> QED
    BY <2>1, <2>2, <1>1, <1>2
<1> QED
  BY <1>4, <1>5
-----------------------------------------------------------------------------
(* The invariant holds initially and every action preserves it.            *)

LEMMA InitIInv == Init => IInv
  BY ConstantsAssumption
  DEF Init, IInv, TypeOK, FromTruth, Counted, FetcherHolds, EpochGuards,
      StoredNotSuperseded, Stored, Calls, Idle, Versions

LEMMA HitKeepsIInv ==
    ASSUME IInv, NEW p \in Procs, NEW k \in Keys, Hit(p, k)
    PROVE  IInv'
  BY ConstantsAssumption
  DEF Hit, Live, cacheVars, IInv, TypeOK, FromTruth, Counted, FetcherHolds,
      EpochGuards, Guarded, StoredNotSuperseded, Stored

LEMMA MissKeepsIInv ==
    ASSUME IInv, NEW p \in Procs, NEW k \in Keys, Miss(p, k)
    PROVE  IInv'
<1> USE ConstantsAssumption DEF Miss, DropExpired, IInv
<1>1. TypeOK'
  BY DEF TypeOK, Calls, LockFree, Inflight, Generation
<1>2. (FromTruth /\ StoredNotSuperseded)'
  BY DEF TypeOK, FromTruth, StoredNotSuperseded, Stored
<1>3. line[k] \in Seq(Procs)
  BY DEF TypeOK
<1>4. \A q \in Procs :
        /\ (\E i \in DOMAIN line[k] : line[k][i] = q) =>
             \E i \in DOMAIN Append(line[k], p) : Append(line[k], p)[i] = q
        /\ line[k] # <<>> => Head(Append(line[k], p)) = Head(line[k])
        /\ line[k] = <<>> => Head(Append(line[k], p)) = p
  BY <1>3
<1>5. \E i \in DOMAIN Append(line[k], p) : Append(line[k], p)[i] = p
  <2>1. Append(line[k], p)[Len(line[k]) + 1] = p
    BY <1>3
  <2>2. Len(line[k]) + 1 \in DOMAIN Append(line[k], p)
    BY <1>3
  <2> QED
    BY <2>1, <2>2
<1>6. /\ line'[k] = Append(line[k], p)
      /\ \A x \in Keys : x # k => line'[x] = line[x]
      /\ \A q \in Procs : q # p => call'[q] = call[q]
      /\ call'[p].key = k /\ call'[p].floor = floor[k]
      /\ call'[p].pc = "fetching" => line[k] = <<>>
      /\ floor[k] \in Nat
  BY DEF TypeOK, LockFree, Inflight, Versions
<1>7. Counted'
  BY <1>4, <1>5, <1>6 DEF Counted
<1>8. FetcherHolds'
  <2>1. ASSUME NEW q \in Procs, call'[q].pc = "fetching"
        PROVE  Head(line'[call'[q].key]) = q
    <3>1. CASE q = p
      BY <2>1, <3>1, <1>4, <1>6
    <3>2. CASE q # p /\ call[q].key = k
      <4>1. Head(line[k]) = q /\ line[k] # <<>>
        BY <2>1, <3>2, <1>3, <1>6 DEF Counted, FetcherHolds
      <4> QED
        BY <4>1, <3>2, <1>4, <1>6
    <3>3. CASE q # p /\ call[q].key # k
      BY <2>1, <3>3, <1>6 DEF Counted, FetcherHolds
    <3> QED
      BY <3>1, <3>2, <3>3
  <2> QED
    BY <2>1 DEF FetcherHolds
<1>9. EpochGuards'
  BY DEF TypeOK, EpochGuards, Guarded, LockFree, Inflight, Generation
<1> QED
  BY <1>1, <1>2, <1>7, <1>8, <1>9

\* What p's leaving its key's line does to the others' part of the invariant.
LEMMA LeavingKeepsLine ==
    ASSUME IInv, NEW p \in Procs, call[p].pc # "idle",
           line' = Left(p, call[p].key), call' = [call EXCEPT ![p] = Idle],
           UNCHANGED floor
    PROVE  /\ line' \in [Keys -> Seq(Procs)]
           /\ call' \in [Procs -> Calls]
           /\ Counted'
           /\ FetcherHolds'
           /\ \A q \in Procs : call'[q].pc # "idle" => line'[call[q].key] # <<>>
<1> DEFINE k == call[p].key
<1> USE DEF IInv
<1>1. k \in Keys /\ \E i \in DOMAIN line[k] : line[k][i] = p
  BY DEF Counted
<1>2. line \in [Keys -> Seq(Procs)] /\ call \in [Procs -> Calls]
  BY DEF TypeOK
<1>3. /\ line' \in [Keys -> Seq(Procs)]
      /\ \A x \in Keys : x # k => line'[x] = line[x]
      /\ \A q \in Procs : q # p =>
           /\ (\E i \in DOMAIN line[k] : line[k][i] = q) =>
                \E i \in DOMAIN line'[k] : line'[k][i] = q
           /\ Head(line[k]) = q => Head(line'[k]) = q
  <2>1. line' = Left(p, k) /\ p \in Procs
    OBVIOUS
  <2> HIDE DEF k, IInv
  <2>2. /\ Left(p, k) \in [Keys -> Seq(Procs)]
        /\ \A x \in Keys : x # k => Left(p, k)[x] = line[x]
        /\ \A q \in Procs : q # p =>
             /\ (\E i \in DOMAIN line[k] : line[k][i] = q) =>
                  \E i \in DOMAIN Left(p, k)[k] : Left(p, k)[k][i] = q
             /\ Head(line[k]) = q => Head(Left(p, k)[k]) = q
    BY <1>1, <1>2, <2>1, LeftKeepsOthers, Zenon
  <2> QED
    BY <2>1, <2>2
<1>4. /\ call' \in [Procs -> Calls]
      /\ call'[p].pc = "idle"
      /\ \A q \in Procs : q # p => call'[q] = call[q]
  BY <1>2, ConstantsAssumption DEF Calls, Idle, Versions
<1> HIDE DEF k
<1>5. Counted'
  BY <1>3, <1>4 DEF Counted
<1>6. FetcherHolds'
  <2>1. ASSUME NEW q \in Procs, call'[q].pc = "fetching"
        PROVE  Head(line'[call'[q].key]) = q
    <3>1. q # p /\ call'[q] = call[q] /\ call[q].key \in Keys
      BY <2>1, <1>4 DEF Counted
    <3>2. Head(line[call[q].key]) = q
      BY <2>1, <3>1 DEF FetcherHolds
    <3> QED
      BY <3>1, <3>2, <1>3
  <2> QED
    BY <2>1 DEF FetcherHolds
<1>7. \A q \in Procs : call'[q].pc # "idle" => line'[call[q].key] # <<>>
  BY <1>3, <1>4, <1>5 DEF Counted
<1> QED
  BY <1>3, <1>4, <1>5, <1>6, <1>7

LEMMA WaiterHitKeepsIInv ==
    ASSUME IInv, NEW p \in Procs, WaiterHit(p)
    PROVE  IInv'
<1> USE ConstantsAssumption DEF IInv, WaiterHit
<1>1. /\ line' \in [Keys -> Seq(Procs)]
      /\ call' \in [Procs -> Calls]
      /\ Counted'
      /\ FetcherHolds'
      /\ \A q \in Procs : call'[q].pc # "idle" => line'[call[q].key] # <<>>
  BY LeavingKeepsLine
<1>2. TypeOK'
  <2>1. epoch' \in [Keys -> 0 .. MaxEpoch]
    BY DEF TypeOK, Pruned
  <2>2. got' \in [Procs -> Versions \cup {None}]
    BY DEF TypeOK, Counted
  <2> QED
    BY <2>1, <2>2, <1>1 DEF TypeOK
<1>3. (FromTruth /\ StoredNotSuperseded)'
  BY DEF FromTruth, StoredNotSuperseded, Stored
<1>4. EpochGuards'
  <2>1. ASSUME NEW q \in Procs, call'[q].pc = "fetching"
        PROVE  /\ call'[q] = call[q] /\ call[q].key \in Keys
               /\ epoch'[call[q].key] = epoch[call[q].key]
    BY <2>1, <1>1 DEF TypeOK, Counted, Pruned, Idle
  <2>2. ASSUME NEW q \in Procs, call'[q].pc = "fetching"
        PROVE  Guarded(q, call[q].key)'
    <3>1. Guarded(q, call[q].key)
      BY <2>1, <2>2 DEF EpochGuards
    <3> QED
      BY <3>1, <2>1, <2>2 DEF Guarded
  <2> QED
    BY <2>2 DEF EpochGuards
<1> QED
  BY <1>1, <1>2, <1>3, <1>4

LEMMA WaiterMissKeepsIInv ==
    ASSUME IInv, NEW p \in Procs, WaiterMiss(p)
    PROVE  IInv'
<1> USE ConstantsAssumption DEF IInv, WaiterMiss, DropExpired
<1>0. /\ call[p].key \in Keys /\ epoch[call[p].key] \in 0 .. MaxEpoch
      /\ call \in [Procs -> Calls]
      /\ call' = [call EXCEPT ![p] = [call[p] EXCEPT !.pc = "fetching",
                                                    !.snap = epoch[call[p].key]]]
      /\ call[p].ans = None
  BY DEF TypeOK, Counted, Generation
<1>1. TypeOK'
  <2>1. call[p] \in Calls
    BY <1>0
  <2>2. [call[p] EXCEPT !.pc = "fetching", !.snap = epoch[call[p].key]] \in Calls
    BY <2>1, <1>0 DEF Calls
  <2>3. call' \in [Procs -> Calls]
    BY <2>2, <1>0
  <2> QED
    BY <2>3, <1>0 DEF TypeOK
<1>2. (FromTruth /\ StoredNotSuperseded)'
  BY DEF TypeOK, FromTruth, StoredNotSuperseded, Stored
<1>3. Counted'
  BY DEF TypeOK, Counted, Calls
<1>4. FetcherHolds'
  BY DEF TypeOK, FetcherHolds, Calls
<1>5. EpochGuards'
  <2>1. ASSUME NEW q \in Procs, call'[q].pc = "fetching"
        PROVE  Guarded(q, call[q].key)'
    <3>1. CASE q = p
      <4>0. call[p] \in Calls /\ call'[p] = [call[p] EXCEPT !.pc = "fetching",
                                                          !.snap = epoch[call[p].key]]
        BY <1>0
      <4>1. /\ call'[p].key = call[p].key /\ call'[p].ans = None
            /\ call'[p].snap = epoch[call[p].key]
        BY ONLY <1>0, <4>0 DEF Calls
      <4> QED
        BY <3>1, <4>1, <1>0 DEF Guarded
    <3>2. CASE q # p
      <4>1. call'[q] = call[q] /\ Guarded(q, call[q].key)
        BY <3>2, <2>1, <1>0 DEF EpochGuards
      <4> QED
        BY <4>1 DEF Guarded
    <3> QED
      BY <3>1, <3>2
  <2> QED
    BY <2>1 DEF EpochGuards
<1> QED
  BY <1>1, <1>2, <1>3, <1>4, <1>5

LEMMA AnswerKeepsIInv ==
    ASSUME IInv, NEW p \in Procs, Answer(p)
    PROVE  IInv'
<1> USE ConstantsAssumption DEF IInv, Answer, cacheVars
<1>1. /\ call \in [Procs -> Calls] /\ call[p].key \in Keys
      /\ truth[call[p].key] \in Versions /\ floor[call[p].key] \in Versions
      /\ call[p].floor \in Versions
      /\ call[p].floor <= floor[call[p].key]
      /\ floor[call[p].key] <= truth[call[p].key]
  BY DEF TypeOK, Counted, FromTruth, Calls
<1>2. /\ call' \in [Procs -> Calls]
      /\ \A q \in Procs : q # p => call'[q] = call[q]
      /\ call'[p].ans = truth[call[p].key]
      /\ call'[p].pc = "fetching" /\ call'[p].key = call[p].key
      /\ call'[p].snap = call[p].snap /\ call'[p].floor = call[p].floor
  <2>1. [call[p] EXCEPT !.ans = truth[call[p].key]] \in Calls
    <3>1. call[p] \in Calls
      BY <1>1
    <3> QED
      BY <3>1, <1>1 DEF Calls
  <2> QED
    BY <2>1, <1>1 DEF Calls
<1>3. TypeOK'
  BY <1>2 DEF TypeOK
<1>4. (FromTruth /\ StoredNotSuperseded)'
  BY DEF FromTruth, StoredNotSuperseded, Stored
<1>5. (Counted /\ FetcherHolds)'
  <2>1. UNCHANGED <<line, floor>>
    OBVIOUS
  <2>2. Counted'
    BY <1>1, <1>2, <2>1 DEF Counted
  <2>3. FetcherHolds'
    BY <1>2, <2>1 DEF FetcherHolds
  <2> QED
    BY <2>2, <2>3
<1>6. EpochGuards'
  <2>1. ASSUME NEW q \in Procs, call'[q].pc = "fetching"
        PROVE  Guarded(q, call[q].key)'
    <3>1. Guarded(q, call[q].key)
      BY <2>1, <1>2 DEF EpochGuards
    <3> QED
      BY <3>1, <1>1, <1>2 DEF Guarded, Versions
  <2> QED
    BY <2>1 DEF EpochGuards
<1> QED
  BY <1>3, <1>4, <1>5, <1>6

\* A key somebody still waits for or fetches keeps its epoch.
LEMMA EpochOutlivesLeaving ==
    ASSUME NEW S, NEW k \in Keys, line'[k] # <<>>,
           epoch' = Pruned(epoch, S, store', line')
    PROVE  epoch'[k] = epoch[k]
  BY DEF Pruned

LEMMA FetchReturnsKeepsIInv ==
    ASSUME IInv, NEW p \in Procs, FetchReturns(p)
    PROVE  IInv'
<1> DEFINE k == call[p].key
           a == call[p].ans
<1> USE ConstantsAssumption DEF IInv, FetchReturns
<1>1. /\ line' \in [Keys -> Seq(Procs)]
      /\ call' \in [Procs -> Calls]
      /\ Counted'
      /\ FetcherHolds'
      /\ \A q \in Procs : call'[q].pc # "idle" => line'[call[q].key] # <<>>
  BY LeavingKeepsLine
<1>2. /\ k \in Keys /\ a \in Versions
      /\ Guarded(p, k) /\ a <= truth[k]
  BY DEF TypeOK, Counted, EpochGuards, Guarded, Calls
<1>3. \A x \in Keys :
        \/ store'[x] = store[x]
        \/ store'[x] = None
        \/ x = k /\ store'[x] = a /\ call[p].snap = epoch[k]
  BY DEF TypeOK, Set, Generation
<1>4. TypeOK'
  <2>1. store' \in [Keys -> Versions \cup {None}] /\ fresh' \subseteq Keys
    BY <1>2 DEF TypeOK, Set
  <2>2. epoch' \in [Keys -> 0 .. MaxEpoch]
    BY DEF TypeOK, Pruned
  <2>3. got' \in [Procs -> Versions \cup {None}]
    BY <1>2 DEF TypeOK
  <2> QED
    BY <2>1, <2>2, <2>3, <1>1 DEF TypeOK
<1>5. FromTruth'
  BY <1>2, <1>3 DEF FromTruth, Stored
<1>6. StoredNotSuperseded'
  <2>1. call[p].snap = epoch[k] => a >= floor[k]
    BY <1>2 DEF Guarded, TypeOK, Versions
  <2> QED
    BY <1>3, <2>1 DEF StoredNotSuperseded, Stored
<1>7. EpochGuards'
  <2>1. ASSUME NEW q \in Procs, call'[q].pc = "fetching"
        PROVE  Guarded(q, call[q].key)'
    <3>1. call'[q] = call[q] /\ call[q].key \in Keys
      BY <2>1 DEF TypeOK, Counted, Idle
    <3>2. epoch'[call[q].key] = epoch[call[q].key]
      BY <3>1, <2>1, <1>1, EpochOutlivesLeaving
    <3>3. Guarded(q, call[q].key)
      BY <3>1, <2>1 DEF EpochGuards
    <3> QED
      BY <3>1, <3>2, <3>3 DEF Guarded
  <2> QED
    BY <2>1 DEF EpochGuards
<1> QED
  BY <1>1, <1>4, <1>5, <1>6, <1>7

LEMMA LeavesEmptyHandedKeepsIInv ==
    ASSUME IInv, NEW p \in Procs, LeavesEmptyHanded(p)
    PROVE  IInv'
<1> USE ConstantsAssumption DEF IInv, LeavesEmptyHanded
<1>1. /\ line' \in [Keys -> Seq(Procs)]
      /\ call' \in [Procs -> Calls]
      /\ Counted'
      /\ FetcherHolds'
      /\ \A q \in Procs : call'[q].pc # "idle" => line'[call[q].key] # <<>>
  BY LeavingKeepsLine
<1>2. TypeOK'
  <2>1. epoch' \in [Keys -> 0 .. MaxEpoch]
    BY DEF TypeOK, Pruned
  <2> QED
    BY <2>1, <1>1 DEF TypeOK
<1>3. (FromTruth /\ StoredNotSuperseded)'
  BY DEF FromTruth, StoredNotSuperseded, Stored
<1>4. EpochGuards'
  <2>1. ASSUME NEW q \in Procs, call'[q].pc = "fetching"
        PROVE  Guarded(q, call[q].key)'
    <3>1. call'[q] = call[q] /\ call[q].key \in Keys
      BY <2>1 DEF TypeOK, Counted, Idle
    <3>2. epoch'[call[q].key] = epoch[call[q].key]
      BY <3>1, <2>1, <1>1, EpochOutlivesLeaving
    <3>3. Guarded(q, call[q].key)
      BY <3>1, <2>1 DEF EpochGuards
    <3> QED
      BY <3>1, <3>2, <3>3 DEF Guarded
  <2> QED
    BY <2>1 DEF EpochGuards
<1> QED
  BY <1>1, <1>2, <1>3, <1>4

\* Every invalidation of a set of keys bumps the epoch of the ones in flight.
LEMMA DiscardKeepsIInv ==
    ASSUME IInv, NEW S \in SUBSET Keys, Discard(S),
           epoch' \in [Keys -> 0 .. MaxEpoch],
           \A k \in Keys : line[k] # <<>> =>
               epoch'[k] = IF k \in S THEN epoch[k] + 1 ELSE epoch[k],
           UNCHANGED <<truth, line, call, got>>
    PROVE  IInv'
<1> USE ConstantsAssumption DEF IInv, Discard
<1>1. TypeOK'
  BY DEF TypeOK
<1>2. (FromTruth /\ StoredNotSuperseded)'
  BY DEF TypeOK, FromTruth, StoredNotSuperseded, Stored, Versions
<1>3. (Counted /\ FetcherHolds)'
  <2>1. \A k \in Keys : floor[k] <= floor'[k] /\ floor[k] \in Int /\ floor'[k] \in Int
    BY DEF TypeOK, FromTruth, Versions
  <2>2. \A q \in Procs : call[q].floor \in Int
    BY DEF TypeOK, Calls, Versions
  <2> QED
    BY <2>1, <2>2 DEF Counted, FetcherHolds
<1>4. EpochGuards'
  <2>1. ASSUME NEW q \in Procs, call'[q].pc = "fetching"
        PROVE  Guarded(q, call[q].key)'
    <3>1. Guarded(q, call[q].key)
      BY <2>1 DEF EpochGuards
    <3>2. /\ call[q].key \in Keys
          /\ line[call[q].key] # <<>>
          /\ epoch[call[q].key] \in Nat /\ call[q].snap \in Nat
      BY <2>1 DEF TypeOK, Counted, Calls
    <3> QED
      BY <3>1, <3>2 DEF Guarded
  <2> QED
    BY <2>1 DEF EpochGuards
<1> QED
  BY <1>1, <1>2, <1>3, <1>4

LEMMA InvalidateKeepsIInv ==
    ASSUME IInv, NEW S \in SUBSET Keys, Invalidate(S)
    PROVE  IInv'
<1>1. epoch' \in [Keys -> 0 .. MaxEpoch]
  BY ConstantsAssumption DEF IInv, TypeOK, Invalidate, CanBump, Bumped, Pruned
<1>2. \A k \in Keys : line[k] # <<>> =>
        epoch'[k] = IF k \in S THEN epoch[k] + 1 ELSE epoch[k]
  BY DEF Invalidate, Bumped, Pruned
<1> QED
  BY <1>1, <1>2, DiscardKeepsIInv DEF Invalidate

LEMMA InvalidateAllKeepsIInv ==
    ASSUME IInv, InvalidateAll
    PROVE  IInv'
<1>1. epoch' \in [Keys -> 0 .. MaxEpoch]
  BY ConstantsAssumption DEF IInv, TypeOK, InvalidateAll, CanBump, Bumped
<1>2. \A k \in Keys : line[k] # <<>> => epoch'[k] = epoch[k] + 1
  BY DEF InvalidateAll, Inflight, Bumped
<1> QED
  BY <1>1, <1>2, DiscardKeepsIInv DEF InvalidateAll

LEMMA ExpireKeepsIInv ==
    ASSUME IInv, Expire
    PROVE  IInv'
<1>1. fresh' \subseteq fresh
  BY DEF Expire
<1> QED
  BY <1>1 DEF Expire, IInv, TypeOK, FromTruth, Counted, FetcherHolds, EpochGuards,
              Guarded, StoredNotSuperseded, Stored

LEMMA ChangeKeepsIInv ==
    ASSUME IInv, NEW k \in Keys, Change(k)
    PROVE  IInv'
<1> USE ConstantsAssumption DEF IInv, Change, cacheVars
<1>1. TypeOK'
  BY DEF TypeOK, Versions
<1>2. \A x \in Keys : truth[x] <= truth'[x] /\ truth[x] \in Int /\ truth'[x] \in Int
  BY DEF TypeOK, Versions
<1>3. (FromTruth /\ StoredNotSuperseded /\ Counted /\ FetcherHolds)'
  BY <1>2 DEF TypeOK, FromTruth, StoredNotSuperseded, Stored, Counted, FetcherHolds,
              Versions
<1>4. EpochGuards'
  <2>1. ASSUME NEW q \in Procs, call'[q].pc = "fetching"
        PROVE  Guarded(q, call[q].key)'
    <3>1. /\ Guarded(q, call[q].key)
          /\ call[q].key \in Keys
          /\ call[q].ans # None => call[q].ans \in Int
      BY <2>1 DEF TypeOK, Counted, EpochGuards, Calls, Versions
    <3> QED
      BY <3>1, <1>2 DEF Guarded
  <2> QED
    BY <2>1 DEF EpochGuards
<1> QED
  BY <1>1, <1>3, <1>4

LEMMA NextKeepsIInv == IInv /\ [Next]_vars => IInv'
<1> SUFFICES ASSUME IInv, [Next]_vars
             PROVE  IInv'
  OBVIOUS
<1>1. CASE \E p \in Procs, k \in Keys : Hit(p, k) \/ Miss(p, k)
  BY <1>1, HitKeepsIInv, MissKeepsIInv
<1>2. CASE \E p \in Procs : WaiterHit(p) \/ WaiterMiss(p)
  BY <1>2, WaiterHitKeepsIInv, WaiterMissKeepsIInv
<1>3. CASE \E p \in Procs : Answer(p) \/ FetchReturns(p) \/ LeavesEmptyHanded(p)
  BY <1>3, AnswerKeepsIInv, FetchReturnsKeepsIInv, LeavesEmptyHandedKeepsIInv
<1>4. CASE \E S \in SUBSET Keys : Invalidate(S)
  BY <1>4, InvalidateKeepsIInv
<1>5. CASE \E k \in Keys : Change(k)
  BY <1>5, ChangeKeepsIInv
<1>6. CASE InvalidateAll
  BY <1>6, InvalidateAllKeepsIInv
<1>7. CASE Expire
  BY <1>7, ExpireKeepsIInv
<1>8. CASE UNCHANGED vars
  BY <1>8 DEF vars, IInv, TypeOK, FromTruth, Counted, FetcherHolds, EpochGuards,
              Guarded, StoredNotSuperseded, Stored
<1> QED
  BY <1>1, <1>2, <1>3, <1>4, <1>5, <1>6, <1>7, <1>8 DEF Next

\* The invariant: who waits is counted in the lock's entry, who fetches holds the
\* lock, and epochs guard the answers under way (get_or_fetch).
THEOREM Invariance == Spec => []IInv
  BY InitIInv, NextKeepsIInv, PTL DEF Spec
-----------------------------------------------------------------------------
(* The results.                                                            *)

\* Every variable keeps its type: epochs are never negative, lines hold tasks.
THEOREM TypeCorrect == Spec => []TypeOK
<1>1. IInv => TypeOK
  BY DEF IInv
<1> QED
  BY <1>1, Invariance, PTL

\* No cached value predates the last invalidation of its key, for any number
\* of fetches and invalidations racing one another (#125-A4).
THEOREM NeverServesSuperseded == Spec => []StoredNotSuperseded
<1>1. IInv => StoredNotSuperseded
  BY DEF IInv
<1> QED
  BY <1>1, Invariance, PTL

\* At most one fetch of a key is in flight, whoever joins, leaves or fails.
THEOREM FetchesCoalesce == Spec => []SingleFlight
<1>1. IInv => SingleFlight
  BY DEF IInv, FetcherHolds, SingleFlight
<1> QED
  BY <1>1, Invariance, PTL

LEMMA InitPromised == Init => Promise!Init
<1> SUFFICES ASSUME Init PROVE Promise!Init
  OBVIOUS
<1>1. {q \in Procs : call[q].pc # "idle"} = {}
  BY DEF Init, Idle
<1>2. askedBar = <<>>
  BY <1>1 DEF askedBar
<1> QED
  BY <1>2 DEF Init, Promise!Init

\* A task that leaves the line asks no more.
LEMMA LeavingIsDone ==
    ASSUME NEW p \in Procs, call \in [Procs -> Calls],
           call' = [call EXCEPT ![p] = Idle], call[p].pc # "idle"
    PROVE  /\ p \in DOMAIN askedBar
           /\ askedBar[p] = [key |-> call[p].key, floor |-> call[p].floor]
           /\ askedBar' = [q \in DOMAIN askedBar \ {p} |-> askedBar[q]]
  BY DEF askedBar, Idle

LEMMA StepPromised == IInv /\ IInv' /\ [Next]_vars => [Promise!Next]_(Promise!vars)
<1> SUFFICES ASSUME IInv, IInv', [Next]_vars
             PROVE  [Promise!Next]_(Promise!vars)
  OBVIOUS
<1> USE ConstantsAssumption
<1>0. call \in [Procs -> Calls]
  BY DEF IInv, TypeOK
<1>1. ASSUME NEW p \in Procs, NEW k \in Keys, Hit(p, k)
      PROVE  Promise!AskAndReturn(p, k)
  <2>1. store[k] \in floor[k] .. truth[k] /\ got' = [got EXCEPT ![p] = store[k]]
    BY <1>1 DEF Hit, Live, Stored, IInv, TypeOK, FromTruth, StoredNotSuperseded,
                Versions
  <2>2. p \notin DOMAIN askedBar /\ askedBar' = askedBar
    BY <1>1 DEF Hit, askedBar
  <2> QED
    BY <1>1, <2>1, <2>2 DEF Hit, Promise!AskAndReturn, Promise!Asking
<1>2. ASSUME NEW p \in Procs, NEW k \in Keys, Miss(p, k)
      PROVE  Promise!Ask(p, k)
  <2> DEFINE c == [pc |-> IF LockFree(k) THEN "fetching" ELSE "waiting",
                   key |-> k, floor |-> floor[k],
                   snap |-> IF LockFree(k) THEN Generation(k) ELSE 0, ans |-> None]
  <2>1. call' = [call EXCEPT ![p] = c] /\ call[p].pc = "idle"
    BY <1>2 DEF Miss
  <2>2. c.pc # "idle" /\ c.key = k /\ c.floor = floor[k]
    OBVIOUS
  <2> HIDE DEF c
  <2>3. /\ p \notin DOMAIN askedBar
        /\ askedBar' = [q \in DOMAIN askedBar \cup {p} |->
                          IF q = p THEN [key |-> k, floor |-> floor[k]]
                          ELSE askedBar[q]]
    BY <1>0, <2>1, <2>2 DEF askedBar
  <2> QED
    BY <1>2, <2>3 DEF Miss, Promise!Ask, Promise!Asking
<1>3. ASSUME NEW p \in Procs, WaiterHit(p)
      PROVE  Promise!Return(p)
  <2> DEFINE k == call[p].key
  <2>1. /\ k \in Keys /\ call[p].floor <= floor[k]
        /\ Stored(k) /\ got' = [got EXCEPT ![p] = store[k]]
    BY <1>3 DEF WaiterHit, Live, IInv, Counted
  <2> HIDE DEF k
  <2>2. store[k] \in call[p].floor .. truth[k]
    <3>1. floor[k] <= store[k] /\ store[k] <= truth[k]
      BY <2>1 DEF IInv, StoredNotSuperseded, FromTruth
    <3>2. /\ floor[k] \in Versions /\ truth[k] \in Versions
          /\ call[p].floor \in Versions /\ store[k] \in Versions
      BY <2>1 DEF IInv, TypeOK, Calls, Stored
    <3> QED
      BY <2>1, <3>1, <3>2 DEF Versions
  <2>3. /\ p \in DOMAIN askedBar
        /\ askedBar[p] = [key |-> k, floor |-> call[p].floor]
        /\ askedBar' = [q \in DOMAIN askedBar \ {p} |-> askedBar[q]]
    BY <1>0, <1>3, LeavingIsDone DEF WaiterHit, k
  <2>4. \E v \in askedBar[p].floor .. truth[askedBar[p].key] :
          got' = [got EXCEPT ![p] = v]
    <3>1. askedBar[p].floor = call[p].floor /\ askedBar[p].key = k
      BY <2>3
    <3>2. store[k] \in askedBar[p].floor .. truth[askedBar[p].key]
      BY <2>2, <3>1
    <3> WITNESS store[k] \in askedBar[p].floor .. truth[askedBar[p].key]
    <3> QED
      BY <2>1
  <2> QED
    BY <1>3, <2>3, <2>4
    DEF WaiterHit, Promise!Return, Promise!Asking, Promise!Done
<1>4. ASSUME NEW p \in Procs, WaiterMiss(p) \/ Answer(p)
      PROVE  UNCHANGED Promise!vars
  <2>1. askedBar' = askedBar
    <3>1. CASE WaiterMiss(p)
      <4>1. call' = [call EXCEPT ![p] = [call[p] EXCEPT !.pc = "fetching",
                                           !.snap = Generation(call[p].key)]]
        BY <3>1, <1>0 DEF WaiterMiss
      <4> QED
        BY <3>1, <4>1, <1>0 DEF WaiterMiss, Calls, askedBar
    <3>2. CASE Answer(p)
      BY <3>2, <1>0 DEF Answer, Calls, askedBar
    <3> QED
      BY <1>4, <3>1, <3>2
  <2>2. UNCHANGED <<floor, got>>
    BY <1>4 DEF WaiterMiss, Answer
  <2>3. truth' = truth
    BY <1>4 DEF WaiterMiss, Answer
  <2> QED
    BY <2>1, <2>2, <2>3 DEF Promise!vars
<1>5. ASSUME NEW p \in Procs, FetchReturns(p)
      PROVE  Promise!Return(p)
  <2> DEFINE k == call[p].key
  <2>0. /\ call[p].pc = "fetching" /\ call[p].ans # None
        /\ got' = [got EXCEPT ![p] = call[p].ans]
    BY <1>5 DEF FetchReturns
  <2>a. call[p].floor <= call[p].ans /\ call[p].ans <= truth[k]
    BY <2>0 DEF IInv, EpochGuards, Guarded
  <2>b. call[p].ans \in Int /\ call[p].floor \in Int /\ k \in Keys /\ truth[k] \in Int
    BY <2>0 DEF IInv, TypeOK, Counted, Calls, Versions
  <2>1. /\ call[p].ans \in call[p].floor .. truth[k]
        /\ got' = [got EXCEPT ![p] = call[p].ans]
    BY <2>0, <2>a, <2>b
  <2> HIDE DEF k
  <2>2. /\ p \in DOMAIN askedBar
        /\ askedBar[p] = [key |-> k, floor |-> call[p].floor]
        /\ askedBar' = [q \in DOMAIN askedBar \ {p} |-> askedBar[q]]
    BY <1>0, <1>5, LeavingIsDone DEF FetchReturns, k
  <2>3. \E v \in askedBar[p].floor .. truth[askedBar[p].key] :
          got' = [got EXCEPT ![p] = v]
    <3>1. askedBar[p].floor = call[p].floor /\ askedBar[p].key = k
      BY <2>2
    <3>2. call[p].ans \in askedBar[p].floor .. truth[askedBar[p].key]
      BY <2>1, <3>1
    <3> WITNESS call[p].ans \in askedBar[p].floor .. truth[askedBar[p].key]
    <3> QED
      BY <2>1
  <2> QED
    BY <1>5, <2>2, <2>3
    DEF FetchReturns, Promise!Return, Promise!Asking, Promise!Done
<1>6. ASSUME NEW p \in Procs, LeavesEmptyHanded(p)
      PROVE  Promise!GiveUp(p)
  <2>1. /\ p \in DOMAIN askedBar
        /\ askedBar' = [q \in DOMAIN askedBar \ {p} |-> askedBar[q]]
    BY <1>0, <1>6, LeavingIsDone DEF LeavesEmptyHanded
  <2> QED
    BY <1>6, <2>1 DEF LeavesEmptyHanded, Promise!GiveUp, Promise!Asking, Promise!Done
<1>7. ASSUME NEW S \in SUBSET Keys, Invalidate(S)
      PROVE  Promise!Invalidate(S)
  BY <1>7 DEF Invalidate, Discard, Promise!Invalidate, askedBar
<1>8. ASSUME InvalidateAll
      PROVE  Promise!Invalidate(Keys)
  BY <1>8 DEF InvalidateAll, Discard, Promise!Invalidate, askedBar
<1>9. ASSUME NEW k \in Keys, Change(k)
      PROVE  Promise!Change(k)
  BY <1>9 DEF Change, Promise!Change, askedBar
<1>10. CASE Expire \/ UNCHANGED vars
  BY <1>10 DEF Expire, vars, Promise!vars, askedBar
<1> QED
  BY <1>1, <1>2, <1>3, <1>4, <1>5, <1>6, <1>7, <1>8, <1>9, <1>10
  DEF Next, Promise!Next

\* Every read returns what ReadThrough allows: nothing older than the last
\* invalidation its caller could know of.
THEOREM ReadsNothingSuperseded == Spec => ReadsThrough
  BY InitPromised, StepPromised, Invariance, PTL DEF Spec, ReadsThrough, Promise!Spec
=============================================================================
