------------------------- MODULE MessageStoreProofs -------------------------
(***************************************************************************)
(* Proofs about MessageStore, for any dialogs, readers and page sizes: the *)
(* window of a dialog and the pages served from it have no hole, and the   *)
(* source text of a translated send is kept.  They rest on what a call of  *)
(* history() may still rely on when it resumes: a page it fetched is whole *)
(* between its own ends, for messages are only added above it; what it has *)
(* stored of the page stays, for who drops living rows needs the lock; and *)
(* a page found empty means that whatever is alive by now is newer than    *)
(* the window and than every range a reader has loaded.                    *)
(***************************************************************************)
EXTENDS MessageStore, FiniteSetTheorems, WellFoundedInduction, TLAPS

-----------------------------------------------------------------------------
(* The invariant *)

Waiting == [at : {"wait", "check", "since", "full", "refill", "load", "page"},
            peer : Peers, limit : Limits, before : Nat]
Writing == [at : {"write", "mark"}, peer : Peers, limit : Limits, before : Nat,
            page : SUBSET Nat, todo : SUBSET Nat, then : {"check", "load"}]
Folding == [at : {"fold"}, peer : Peers, limit : Limits, before : Nat,
            page : SUBSET Nat, todo : SUBSET Nat]
Reading == [at : {"rows"}, peer : Peers, limit : Limits, before : Nat, lo : Nat, hi : Nat]
Served == [at : {"served"}, peer : Peers, limit : Limits, before : Nat,
           ids : SUBSET Nat, upto : Nat]
HistoryCall == Waiting \union Writing \union Folding \union Reading \union Served
Page == [limit : Limits, before : Nat, page : SUBSET Nat]

TelegramOK ==
    /\ top \in [Peers -> Nat]
    /\ sent \in [Peers -> SUBSET Nat]
    /\ alive \in [Peers -> SUBSET Nat]
    /\ \A p \in Peers : alive[p] \subseteq sent[p]
    /\ \A p \in Peers : \A i \in sent[p] : 0 < i /\ i <= top[p]
    /\ \A p, q \in Peers \ Channels :
          top[p] = top[q] /\ (p # q => sent[p] \intersect sent[q] = {})

\* An event is about a message that was sent, a deletion about one that is dead.
EventsOK ==
    /\ \A e \in heard \union owed :
          e \in Peers \X Ids /\ e[2] \in sent[e[1]]
    /\ \A e \in gone \union doomed :
          e \in Peers \X Ids /\ e[2] \in sent[e[1]] \ alive[e[1]]

TablesOK ==
    /\ rows \in [Peers -> SUBSET Nat]
    /\ sourced \in [Peers -> SUBSET Nat]
    /\ \A p \in Peers : rows[p] \subseteq sent[p] /\ sourced[p] \subseteq rows[p]
    /\ low \in [Peers -> Nat]
    /\ high \in [Peers -> Nat]
    /\ \A p \in Peers : low[p] <= high[p] /\ high[p] <= top[p]
    /\ \A p \in Peers : p \notin synced => high[p] = 0
    /\ synced \subseteq Peers /\ fresh \subseteq synced

CallsOK ==
    /\ op \in [Readers -> {NoCall} \union HistoryCall]
    /\ cached \in [Peers -> SUBSET Page]

\* One call at a time holds the lock of a dialog.
LockOK ==
    \A r, s \in Readers :
        op[r].at \in Locked /\ op[s].at \in Locked /\ op[r].peer = op[s].peer => r = s

\* A page of at most l messages has every message of S between its ends, and
\* one fetched below an offset b has every message from its low end up to b.
Whole(page, l, S) ==
    \A i \in S : Edge(page, l) <= i /\ (\E j \in page : i <= j) => i \in page
WholeBelow(page, l, b, S) ==
    \A i \in S : Edge(page, l) <= i /\ i < b => i \in page

CacheOK ==
    \A p \in Peers : \A c \in cached[p] :
        /\ c.page \subseteq sent[p]
        /\ c.before <= top[p]
        /\ WholeBelow(c.page, c.limit, c.before, alive[p])

\* What a call that replaces the window knows of its page.
WritesOK(r, p) ==
    /\ op[r].page \subseteq sent[p]
    /\ op[r].todo \subseteq op[r].page
    /\ Whole(op[r].page, op[r].limit, alive[p])
    /\ alive[p] \intersect op[r].page
          \subseteq rows[p] \union (IF op[r].at = "write" THEN op[r].todo ELSE {})

\* It found the dialog empty: the living are newer than all that is kept of it.
EmptyOK(r, p) ==
    \A i \in alive[p] :
        /\ i > high[p]
        /\ i \notin sourced[p]
        /\ \A s \in Readers : op[s].at = "rows" /\ op[s].peer = p => i > op[s].hi

FoldsOK(r, p) ==
    /\ op[r].page \subseteq sent[p]
    /\ op[r].todo \subseteq op[r].page
    /\ op[r].before \in 1..top[p]
    /\ WholeBelow(op[r].page, op[r].limit, op[r].before, alive[p])
    /\ alive[p] \intersect op[r].page \subseteq rows[p] \union op[r].todo

ReadsOK(r, p) ==
    /\ op[r].before = 0
    /\ op[r].lo <= op[r].hi /\ op[r].hi <= top[p]
    /\ alive[p] \intersect (op[r].lo..op[r].hi) \subseteq rows[p]

ReaderOK(r) ==
    /\ op[r].at \in {"wait", "page"} => op[r].before <= top[op[r].peer]
    /\ op[r].at = "page" => op[r].before > 0
    /\ op[r].at \in {"write", "mark"} => WritesOK(r, op[r].peer)
    /\ op[r].at = "write" /\ op[r].page = {} => EmptyOK(r, op[r].peer)
    /\ op[r].at = "fold" => FoldsOK(r, op[r].peer)
    /\ op[r].at = "rows" => ReadsOK(r, op[r].peer)

StoreInv ==
    /\ TelegramOK /\ EventsOK /\ TablesOK /\ CallsOK /\ LockOK /\ CacheOK
    /\ \A r \in Readers : ReaderOK(r)
    /\ WindowHasNoHole
    /\ PagesHaveNoHole

-----------------------------------------------------------------------------
(* Pages of message ids *)

LEMMA LowestIsLeast ==
    ASSUME NEW S \in SUBSET Nat, S # {}
    PROVE  Lowest(S) \in S /\ \A i \in S : Lowest(S) <= i
<1> DEFINE T == {0..i : i \in S}
<1>1. T \subseteq FiniteSubsetsOf(Nat) /\ T # {}
  <2>1. \A i \in S : 0..i \subseteq Nat /\ IsFiniteSet(0..i)
    BY FS_Interval
  <2> QED  BY <2>1 DEF FiniteSubsetsOf
<1>2. PICK X \in T : \A Y \in T : ~ (<<Y, X>> \in StrictSubsetOrdering(Nat))
  BY <1>1, FS_StrictSubsetOrderingWellFounded, WFMin
<1>3. PICK x \in S : X = 0..x
  OBVIOUS
<1>4. \A y \in S : x <= y
  <2> SUFFICES ASSUME NEW y \in S, y < x PROVE FALSE
    OBVIOUS
  <2>1. 0..y \in T
    OBVIOUS
  <2>2. 0..y \subseteq 0..x /\ 0..y # 0..x /\ 0..x \subseteq Nat
    OBVIOUS
  <2>3. <<0..y, X>> \in StrictSubsetOrdering(Nat)
    BY <2>2, <1>3 DEF StrictSubsetOrdering
  <2> QED  BY <1>2, <2>1, <2>3
<1> QED  BY <1>4 DEF Lowest

LEMMA HighestIsGreatest ==
    ASSUME NEW t \in Nat, NEW S \in SUBSET Nat, \A i \in S : i <= t, S # {}
    PROVE  Highest(S) \in S /\ \A i \in S : i <= Highest(S)
<1> DEFINE D == {t - i : i \in S}
<1>1. D \in SUBSET Nat /\ D # {}
  <2>1. \A i \in S : t - i \in Nat
    OBVIOUS
  <2> QED  BY <2>1
<1>2. Lowest(D) \in D /\ \A d \in D : Lowest(D) <= d
  BY <1>1, LowestIsLeast
<1>3. PICK x \in S : Lowest(D) = t - x
  BY <1>2
<1>4. \A i \in S : t - x <= t - i
  BY <1>2, <1>3
<1>5. \A i \in S : i <= x
  BY <1>4
<1> QED  BY <1>5 DEF Highest

LEMMA NewestIsUpper ==
    ASSUME NEW t \in Nat, NEW S \in SUBSET Nat, \A i \in S : i <= t,
           NEW n \in Nat \ {0}
    PROVE  /\ Newest(n, S) \subseteq S
           /\ \A i \in Newest(n, S), j \in S : i <= j => j \in Newest(n, S)
           /\ Cardinality(Newest(n, S)) \in Nat
           /\ Cardinality(Newest(n, S)) < n => Newest(n, S) = S
<1> DEFINE Above(i) == {j \in S : j > i}
<1>1. IsFiniteSet(S)
  BY FS_BoundedSetOfNaturals
<1>2. \A i : IsFiniteSet(Above(i)) /\ Cardinality(Above(i)) \in Nat
  BY <1>1, FS_Subset, FS_CardinalityType
<1>3. Newest(n, S) \subseteq S
  BY DEF Newest
<1>4. ASSUME NEW i \in Newest(n, S), NEW j \in S, i <= j
      PROVE  j \in Newest(n, S)
  <2>1. Above(j) \subseteq Above(i)
    <3>1. i \in Nat /\ j \in Nat /\ i <= j
      BY <1>3, <1>4
    <3>2. \A k \in S : k > j => k > i
      <4> TAKE k \in S
      <4>1. k \in Nat
        OBVIOUS
      <4> QED  BY <3>1, <4>1
    <3> QED  BY <3>2
  <2>2. Cardinality(Above(j)) <= Cardinality(Above(i))
    BY <2>1, <1>2, FS_Subset
  <2>3. Cardinality(Above(i)) < n
    BY <1>4 DEF Newest
  <2>4. Cardinality(Above(j)) < n
    BY <2>2, <2>3, <1>2
  <2> QED  BY <2>4 DEF Newest
<1>5. Cardinality(Newest(n, S)) \in Nat /\ IsFiniteSet(Newest(n, S))
  BY <1>1, <1>3, FS_Subset, FS_CardinalityType
<1>6. ASSUME Cardinality(Newest(n, S)) < n, Newest(n, S) # S
      PROVE  FALSE
  <2> DEFINE Rest == S \ Newest(n, S)
  <2>1. Rest \in SUBSET Nat /\ (\A i \in Rest : i <= t) /\ Rest # {}
    BY <1>3, <1>6
  <2>2. Highest(Rest) \in Rest /\ \A i \in Rest : i <= Highest(Rest)
    BY <2>1, HighestIsGreatest
  <2>3. Above(Highest(Rest)) \subseteq Newest(n, S)
    <3>1. ASSUME NEW j \in S, j > Highest(Rest)  PROVE j \in Newest(n, S)
      <4>1. j \in Nat /\ Highest(Rest) \in Nat
        BY <2>1, <2>2
      <4>2. j \notin Rest
        BY <2>2, <3>1, <4>1
      <4> QED  BY <4>2
    <3> QED  BY <3>1
  <2>4. Cardinality(Above(Highest(Rest))) < n
    <3>1. Cardinality(Above(Highest(Rest))) <= Cardinality(Newest(n, S))
      BY <2>3, <1>5, FS_Subset
    <3> QED  BY <3>1, <1>2, <1>5, <1>6
  <2>5. Highest(Rest) \in Newest(n, S)
    BY <2>2, <2>4 DEF Newest
  <2> QED  BY <2>2, <2>5
<1> QED  BY <1>3, <1>4, <1>5, <1>6

\* What a request for the newest messages of a dialog brings is whole.
LEMMA NewestIsWhole ==
    ASSUME NEW t \in Nat, NEW S \in SUBSET Nat, \A i \in S : i <= t,
           NEW n \in Nat \ {0}
    PROVE  /\ Newest(n, S) \subseteq S
           /\ Whole(Newest(n, S), n, S)
           /\ Newest(n, S) = {} => S = {}
<1> DEFINE N == Newest(n, S)
<1>1. /\ N \subseteq S
      /\ \A i \in N, j \in S : i <= j => j \in N
      /\ Cardinality(N) \in Nat
      /\ Cardinality(N) < n => N = S
  BY NewestIsUpper
<1>2. N = {} => Cardinality(N) = 0
  BY FS_EmptySet
<1>3. N # {} => Lowest(N) \in N
  BY <1>1, LowestIsLeast
<1>4. Whole(N, n, S)
  <2> SUFFICES ASSUME NEW i \in S, Edge(N, n) <= i PROVE i \in N
    BY DEF Whole
  <2> QED  BY <1>1, <1>2, <1>3 DEF Edge
<1>5. N = {} => S = {}
  BY <1>1, <1>2
<1> QED  BY <1>1, <1>4, <1>5

\* ... and so is what a request for the messages below b brings.
LEMMA NewestIsWholeBelow ==
    ASSUME NEW t \in Nat, NEW S \in SUBSET Nat, \A i \in S : i <= t,
           NEW n \in Nat \ {0}, NEW b \in Nat
    PROVE  WholeBelow(Newest(n, {i \in S : i < b}), n, b, S)
<1> DEFINE B == {i \in S : i < b}
           N == Newest(n, B)
<1>1. B \in SUBSET Nat /\ \A i \in B : i <= t
  OBVIOUS
<1>2. /\ N \subseteq B
      /\ \A i \in N, j \in B : i <= j => j \in N
      /\ Cardinality(N) \in Nat
      /\ Cardinality(N) < n => N = B
  BY <1>1, NewestIsUpper
<1>3. N = {} => Cardinality(N) = 0
  BY FS_EmptySet
<1>4. N # {} => Lowest(N) \in N
  BY <1>2, LowestIsLeast
<1>5. \A i \in B : Edge(N, n) <= i => i \in N
  BY <1>2, <1>3, <1>4 DEF Edge
<1> QED  BY <1>5 DEF WholeBelow

\* The edges of a page are among the ids of its dialog.
LEMMA Edges ==
    ASSUME NEW t \in Nat, NEW page \in SUBSET Nat, \A i \in page : i <= t,
           NEW n \in Nat \ {0}
    PROVE  /\ Edge(page, n) \in Nat
           /\ \A i \in page : Edge(page, n) <= i
           /\ page = {} => Edge(page, n) = 0
           /\ page # {} => /\ Highest(page) \in page
                           /\ \A i \in page : i <= Highest(page)
                           /\ Edge(page, n) <= Highest(page)
<1>1. page # {} => Lowest(page) \in page /\ \A i \in page : Lowest(page) <= i
  BY LowestIsLeast
<1>2. page # {} => Highest(page) \in page /\ \A i \in page : i <= Highest(page)
  BY HighestIsGreatest
<1>3. page = {} => Cardinality(page) = 0
  BY FS_EmptySet
<1>4. page = {} => Edge(page, n) = 0
  BY <1>3 DEF Edge
<1>5. page # {} => Edge(page, n) \in {0, Lowest(page)}
  BY DEF Edge
<1>6. page # {} => Lowest(page) \in Nat /\ Highest(page) \in Nat
  BY <1>1, <1>2
<1>7. page # {} => /\ Edge(page, n) \in Nat
                   /\ \A i \in page : Edge(page, n) <= i
  BY <1>1, <1>5, <1>6
<1>8. page # {} => Edge(page, n) <= Highest(page)
  BY <1>2, <1>7
<1> QED  BY <1>2, <1>4, <1>7, <1>8

-----------------------------------------------------------------------------
(* What the calls of history() rely on *)



LEMMA CallFields ==
    ASSUME CallsOK, NEW r \in Readers
    PROVE  /\ op[r].at # "idle" => /\ op[r].peer \in Peers
                                   /\ op[r].limit \in Limits
                                   /\ op[r].limit \in Nat \ {0}
                                   /\ op[r].before \in Nat
           /\ op[r].at \in {"write", "mark", "fold"}
                 => op[r].page \in SUBSET Nat /\ op[r].todo \in SUBSET Nat
           /\ op[r].at \in {"write", "mark"} => op[r].then \in {"check", "load"}
           /\ op[r].at = "rows" => op[r].lo \in Nat /\ op[r].hi \in Nat
<1>1. op[r] \in {NoCall} \union HistoryCall
  BY DEF CallsOK
<1>2. CASE op[r] = NoCall
  BY <1>2 DEF NoCall
<1>3. CASE op[r] \in Waiting
  BY <1>3, LimitsAssumption DEF Waiting
<1>4. CASE op[r] \in Writing
  BY <1>4, LimitsAssumption DEF Writing
<1>5. CASE op[r] \in Folding
  BY <1>5, LimitsAssumption DEF Folding
<1>6. CASE op[r] \in Reading
  BY <1>6, LimitsAssumption DEF Reading
<1>7. CASE op[r] \in Served
  BY <1>7, LimitsAssumption DEF Served
<1> QED  BY <1>1, <1>2, <1>3, <1>4, <1>5, <1>6, <1>7 DEF HistoryCall

\* Nothing a call relies on in the dialog p is disturbed: messages are added
\* above the last id, no living row is dropped, and a source text is only
\* added when nobody holds the lock.
CalmAt(p) ==
    /\ top[p] <= top'[p] /\ sent[p] \subseteq sent'[p]
    /\ \A i \in alive'[p] : i \in alive[p] \/ i > top[p]
    /\ rows[p] \intersect alive'[p] \subseteq rows'[p]
    /\ Free(p) \/ sourced'[p] \intersect alive'[p] \subseteq sourced[p]
    /\ high'[p] = high[p]

\* Readers that start to load rows take the range of the window.
RangesAt(p) ==
    \A s \in Readers : op'[s].at = "rows" /\ op'[s].peer = p
                          => op'[s] = op[s] \/ op'[s].hi = high[p]

LEMMA CallKept ==
    ASSUME TelegramOK, TablesOK, CallsOK, TelegramOK',
           \A s \in Readers : ReaderOK(s), NEW r \in Readers, op'[r] = op[r],
           op[r].at # "idle" => CalmAt(op[r].peer) /\ RangesAt(op[r].peer)
    PROVE  ReaderOK(r)'
<1> SUFFICES ASSUME op[r].at # "idle" PROVE ReaderOK(r)'
  BY DEF ReaderOK
<1> DEFINE p == op[r].peer
<1>1. /\ p \in Peers /\ op[r].before \in Nat /\ CalmAt(p) /\ RangesAt(p)
      /\ op[r].at \in {"write", "mark", "fold"}
            => op[r].page \in SUBSET Nat /\ op[r].todo \in SUBSET Nat
      /\ op[r].at = "rows" => op[r].lo \in Nat /\ op[r].hi \in Nat
  BY CallFields
<1>2. /\ top[p] \in Nat /\ top'[p] \in Nat /\ top[p] <= top'[p]
      /\ alive[p] \in SUBSET Nat /\ alive'[p] \in SUBSET Nat
      /\ sent[p] \subseteq sent'[p] /\ \A i \in sent[p] : i <= top[p]
      /\ \A i \in alive'[p] : i \in alive[p] \/ i > top[p]
      /\ rows[p] \intersect alive'[p] \subseteq rows'[p]
      /\ high'[p] = high[p] /\ high[p] \in Nat /\ high[p] <= top[p]
      /\ sourced[p] \subseteq sent[p]
  BY <1>1 DEF TelegramOK, TablesOK, CalmAt
<1>3. op[r].at \in {"write", "mark", "fold"} /\ op[r].page \subseteq sent[p] =>
      /\ Whole(op[r].page, op[r].limit, alive[p]) => Whole(op[r].page, op[r].limit, alive'[p])
      /\ op[r].before <= top[p] /\ WholeBelow(op[r].page, op[r].limit, op[r].before, alive[p])
            => WholeBelow(op[r].page, op[r].limit, op[r].before, alive'[p])
      /\ alive'[p] \intersect op[r].page \subseteq alive[p]
  <2> HAVE op[r].at \in {"write", "mark", "fold"} /\ op[r].page \subseteq sent[p]
  <2>1. ASSUME NEW i \in alive'[p], NEW j \in op[r].page, i <= j  PROVE i \in alive[p]
    <3>1. i \in Nat /\ j \in Nat /\ j <= top[p]
      BY <1>1, <1>2
    <3> QED  BY <3>1, <2>1, <1>2
  <2>2. ASSUME NEW i \in alive'[p], i < op[r].before, op[r].before <= top[p]
        PROVE  i \in alive[p]
    <3>1. i \in Nat
      BY <1>2
    <3> QED  BY <3>1, <2>2, <1>1, <1>2
  <2>3. \A i \in op[r].page : i <= i
    BY <1>1
  <2> QED  BY <2>1, <2>2, <2>3 DEF Whole, WholeBelow
<1>4. op[r].at \in {"wait", "page"} => op[r].before <= top'[p]
  BY <1>1, <1>2 DEF ReaderOK
<1>5. ASSUME op[r].at \in {"write", "mark"}  PROVE WritesOK(r, p)'
  <2>1. WritesOK(r, p)
    BY <1>5 DEF ReaderOK
  <2> QED  BY <2>1, <1>2, <1>3, <1>5 DEF WritesOK
<1>6. ASSUME op[r].at = "fold"  PROVE FoldsOK(r, p)'
  <2>1. FoldsOK(r, p)
    BY <1>6 DEF ReaderOK
  <2>2. op[r].before \in 1..top'[p] /\ op[r].before <= top[p]
    BY <2>1, <1>2 DEF FoldsOK
  <2> QED  BY <2>1, <2>2, <1>2, <1>3, <1>6 DEF FoldsOK
<1>7. ASSUME op[r].at = "rows"  PROVE ReadsOK(r, p)'
  <2>1. ReadsOK(r, p)
    BY <1>7 DEF ReaderOK
  <2>2. \A i \in alive'[p] : i \in op[r].lo..op[r].hi => i \in alive[p]
    BY <2>1, <1>1, <1>2, <1>7 DEF ReadsOK
  <2>3. op[r].hi <= top'[p]
    BY <2>1, <1>1, <1>2, <1>7 DEF ReadsOK
  <2> QED  BY <2>1, <2>2, <2>3, <1>2 DEF ReadsOK
<1>8. ASSUME op[r].at = "write", op[r].page = {}  PROVE EmptyOK(r, p)'
  <2>1. EmptyOK(r, p)
    BY <1>8 DEF ReaderOK
  <2>2. sourced'[p] \intersect alive'[p] \subseteq sourced[p]
    BY <1>1, <1>8 DEF CalmAt, Free, Locked
  <2>3. \A s \in Readers : op[s].at = "rows" /\ op[s].peer = p => op[s].hi \in Nat /\ op[s].hi <= top[p]
    BY CallFields DEF StoreInv, ReaderOK, ReadsOK
  <2> QED
    BY <2>1, <2>2, <2>3, <1>1, <1>2 DEF EmptyOK, RangesAt
<1> QED  BY <1>1, <1>4, <1>5, <1>6, <1>7, <1>8 DEF ReaderOK

LEMMA CacheKept ==
    ASSUME TelegramOK, CallsOK, CacheOK, TelegramOK', \A p \in Peers : CalmAt(p),
           \A p \in Peers : cached'[p] \subseteq cached[p]
    PROVE  CacheOK'
<1> SUFFICES ASSUME NEW p \in Peers, NEW c \in cached'[p]
             PROVE  /\ c.page \subseteq sent'[p]
                    /\ c.before <= top'[p]
                    /\ WholeBelow(c.page, c.limit, c.before, alive'[p])
  BY DEF CacheOK
<1>1. c \in cached[p] /\ c.before \in Nat
  BY DEF CallsOK, Page
<1>2. /\ c.page \subseteq sent[p] /\ c.before <= top[p]
      /\ WholeBelow(c.page, c.limit, c.before, alive[p])
  BY <1>1 DEF CacheOK
<1>3. /\ top[p] \in Nat /\ top'[p] \in Nat /\ top[p] <= top'[p] /\ sent[p] \subseteq sent'[p]
      /\ alive'[p] \in SUBSET Nat /\ \A i \in alive'[p] : i \in alive[p] \/ i > top[p]
  BY DEF TelegramOK, CalmAt
<1>4. ASSUME NEW i \in alive'[p], i < c.before  PROVE i \in alive[p]
  <2>1. i \in Nat
    BY <1>3
  <2> QED  BY <2>1, <1>1, <1>2, <1>3, <1>4
<1>5. c.before <= top'[p]
  BY <1>1, <1>2, <1>3
<1> QED  BY <1>2, <1>3, <1>4, <1>5 DEF WholeBelow

-----------------------------------------------------------------------------
(* Steps beside history() *)

LEMMA CalmStep ==
    ASSUME StoreInv, TelegramOK', EventsOK', TablesOK', CallsOK', CacheOK',
           \A p \in Peers : CalmAt(p), UNCHANGED <<window, op>>,
           \A r \in Readers : op[r].at # "served"
    PROVE  StoreInv'
<1>0. /\ TelegramOK /\ TablesOK /\ CallsOK /\ LockOK /\ WindowHasNoHole
      /\ \A r \in Readers : ReaderOK(r)
  BY DEF StoreInv
<1> USE <1>0
<1>1. ASSUME NEW r \in Readers  PROVE ReaderOK(r)'
  <2>1. op[r].at # "idle" => CalmAt(op[r].peer) /\ RangesAt(op[r].peer)
    BY CallFields DEF RangesAt
  <2> QED  BY <2>1, CallKept
<1>2. LockOK'
  BY DEF LockOK
<1>3. WindowHasNoHole'
  <2> SUFFICES ASSUME NEW p \in synced, NEW i \in alive'[p], i \in low[p]..high[p]
               PROVE  i \in rows'[p]
    BY DEF WindowHasNoHole, window
  <2>1. /\ p \in Peers /\ top[p] \in Nat /\ high[p] \in Nat /\ high[p] <= top[p]
        /\ alive'[p] \in SUBSET Nat
        /\ i \in alive[p] \/ i > top[p]
        /\ rows[p] \intersect alive'[p] \subseteq rows'[p]
    BY DEF TablesOK, TelegramOK, CalmAt
  <2>2. i \in alive[p]
    BY <2>1
  <2> QED  BY <2>1, <2>2 DEF WindowHasNoHole
<1>4. PagesHaveNoHole'
  BY DEF PagesHaveNoHole
<1> QED  BY <1>1, <1>2, <1>3, <1>4 DEF StoreInv

Unserved == \A r \in Readers : op[r].at # "served"

LEMMA SendStep ==
    ASSUME StoreInv, Unserved, NEW p \in Peers, Send(p)
    PROVE  StoreInv'
<1> DEFINE new == top[p] + 1
<1>0. TelegramOK /\ EventsOK /\ TablesOK /\ CallsOK /\ CacheOK
  BY DEF StoreInv
<1> USE <1>0
<1>1. /\ top' = [q \in Peers |-> IF q \in SameIds(p) THEN top[p] + 1 ELSE top[q]]
      /\ sent' = [sent EXCEPT ![p] = @ \union {new}]
      /\ alive' = [alive EXCEPT ![p] = @ \union {new}]
      /\ top[p] < MaxId[p]
      /\ heard' \subseteq heard \union {<<p, new>>} /\ owed' \subseteq owed \union {<<p, new>>}
      /\ \A q \in Peers : cached'[q] \subseteq cached[q]
      /\ cached' \in [Peers -> SUBSET Page]
  BY DEF Send, CallsOK
<1>2. UNCHANGED <<gone, doomed, rows, sourced, synced, low, high, fresh, op>>
  BY DEF Send, window
<1>3. /\ \A q \in Peers : /\ top[q] \in Nat /\ alive[q] \subseteq sent[q]
                          /\ sent[q] \in SUBSET Nat
                          /\ \A i \in sent[q] : i \in Nat /\ 0 < i /\ i <= top[q]
      /\ new \in Nat /\ new > top[p] /\ top[p] \in Nat
      /\ p \in SameIds(p)
      /\ \A q \in SameIds(p) : top[q] = top[p]
  BY DEF TelegramOK, SameIds
<1>4. \A q \in Peers : /\ top'[q] \in Nat /\ top[q] <= top'[q]
                       /\ q \in SameIds(p) => top'[q] = new
                       /\ q \notin SameIds(p) => top'[q] = top[q]
  BY <1>1, <1>3
<1>5. \A q \in Peers : /\ sent'[q] = IF q = p THEN sent[q] \union {new} ELSE sent[q]
                       /\ alive'[q] = IF q = p THEN alive[q] \union {new} ELSE alive[q]
  <2>1. sent \in [Peers -> SUBSET Nat] /\ alive \in [Peers -> SUBSET Nat]
    BY DEF TelegramOK
  <2> HIDE DEF new
  <2> QED  BY ONLY <2>1, <1>1
<1>6. TelegramOK'
  <2>1. top' \in [Peers -> Nat]
    BY <1>1, <1>3
  <2>2. sent' \in [Peers -> SUBSET Nat] /\ alive' \in [Peers -> SUBSET Nat]
    BY <1>1, <1>3 DEF TelegramOK
  <2>3. ASSUME NEW q \in Peers
        PROVE  alive'[q] \subseteq sent'[q] /\ \A i \in sent'[q] : 0 < i /\ i <= top'[q]
    <3>1. /\ top[q] \in Nat /\ top'[q] \in Nat /\ top[q] <= top'[q]
          /\ \A i \in sent[q] : i \in Nat /\ 0 < i /\ i <= top[q]
      BY <1>3, <1>4
    <3>2. \A i \in sent[q] : 0 < i /\ i <= top'[q]
      BY ONLY <3>1
    <3>3. q = p => 0 < new /\ new <= top'[q]
      BY <1>3, <1>4
    <3> QED  BY <3>2, <3>3, <1>3, <1>5
  <2>4. ASSUME NEW q \in Peers \ Channels, NEW z \in Peers \ Channels
        PROVE  top'[q] = top'[z] /\ (q # z => sent'[q] \intersect sent'[z] = {})
    <3>1. top[q] = top[z] /\ (q # z => sent[q] \intersect sent[z] = {})
      BY DEF TelegramOK
    <3>2. q \in SameIds(p) <=> z \in SameIds(p)
      BY DEF SameIds
    <3>3. top'[q] = top'[z]
      <4>1. CASE q \in SameIds(p)
        BY <4>1, <3>2, <1>4
      <4>2. CASE q \notin SameIds(p)
        BY <4>2, <3>1, <3>2, <1>4
      <4> QED  BY <4>1, <4>2
    <3>4. p \notin Channels => new \notin sent[q] /\ new \notin sent[z]
      BY <1>3 DEF SameIds
    <3> QED  BY <3>1, <3>3, <3>4, <1>5
  <2> QED  BY <2>1, <2>2, <2>3, <2>4 DEF TelegramOK
<1>7. \A q \in Peers : CalmAt(q)
  <2> SUFFICES ASSUME NEW q \in Peers PROVE CalmAt(q)
    OBVIOUS
  <2>1. \A i \in alive'[q] : i \in alive[q] \/ i > top[q]
    BY <1>3, <1>5
  <2>2. rows'[q] = rows[q] /\ sourced'[q] = sourced[q] /\ high'[q] = high[q]
    BY <1>2
  <2>3. top[q] <= top'[q] /\ sent[q] \subseteq sent'[q]
    BY <1>4, <1>5
  <2> QED  BY ONLY <2>1, <2>2, <2>3 DEF CalmAt
<1>8. EventsOK'
  <2>1. <<p, new>> \in Peers \X Ids /\ new \in sent'[p]
    <3>1. MaxId[p] \in Nat
      BY PeersAssumption
    <3>2. new \in 1..MaxId[p]
      BY <3>1, <1>1, <1>3
    <3>3. new \in Ids
      BY <3>2 DEF Ids
    <3> QED  BY <3>3, <1>5
  <2>2. \A e \in heard' \union owed' : e \in Peers \X Ids /\ e[2] \in sent'[e[1]]
    BY <2>1, <1>1, <1>5 DEF EventsOK
  <2>3. ASSUME NEW e \in gone \union doomed
        PROVE  e \in Peers \X Ids /\ e[2] \in sent'[e[1]] \ alive'[e[1]]
    <3>1. e \in Peers \X Ids /\ e[1] \in Peers /\ e[2] \in sent[e[1]] \ alive[e[1]]
      BY DEF EventsOK
    <3>2. e[2] # new \/ e[1] # p
      BY <3>1, <1>3
    <3> QED  BY <3>1, <3>2, <1>5
  <2> QED  BY <2>2, <2>3, <1>2 DEF EventsOK
<1>9. TablesOK'
  <2>1. \A q \in Peers : high[q] <= top'[q]
    BY <1>3, <1>4 DEF TablesOK
  <2> QED  BY <2>1, <1>2, <1>5 DEF TablesOK
<1>10. CallsOK'
  BY <1>1, <1>2 DEF CallsOK
<1>11. CacheOK'
  BY <1>1, <1>6, <1>7, CacheKept
<1> QED  BY <1>2, <1>6, <1>7, <1>8, <1>9, <1>10, <1>11, CalmStep DEF Unserved, window

\* A step that adds no message and no source text, and drops no living row.
LEMMA QuietStep ==
    ASSUME StoreInv, Unserved, UNCHANGED <<top, sent, window, op>>,
           alive' \in [Peers -> SUBSET Nat], rows' \in [Peers -> SUBSET Nat],
           cached' \in [Peers -> SUBSET Page],
           \A p \in Peers :
              /\ alive'[p] \subseteq alive[p]
              /\ rows'[p] \subseteq sent[p]
              /\ rows[p] \intersect alive'[p] \subseteq rows'[p]
              /\ cached'[p] \subseteq cached[p],
           sourced' \in [Peers -> SUBSET Nat],
           \A p \in Peers : /\ sourced'[p] \subseteq rows'[p]
                            /\ Free(p) \/ sourced'[p] \subseteq sourced[p],
           heard' \union owed' \subseteq heard \union owed,
           gone' \union doomed' \subseteq Peers \X Ids,
           \A e \in gone' \union doomed' : e[2] \in sent[e[1]] \ alive'[e[1]],
           fresh' \subseteq fresh
    PROVE  StoreInv'
<1>0. TelegramOK /\ EventsOK /\ TablesOK /\ CallsOK /\ CacheOK
  BY DEF StoreInv
<1>1. TelegramOK'
  BY <1>0 DEF TelegramOK
<1>2. EventsOK'
  BY <1>0 DEF EventsOK
<1>3. TablesOK'
  BY <1>0 DEF TablesOK, window
<1>4. CallsOK'
  BY <1>0 DEF CallsOK
<1>5. ASSUME NEW p \in Peers  PROVE CalmAt(p)
  <2>1. top[p] \in Nat
    BY <1>0 DEF TelegramOK
  <2> QED  BY <2>1 DEF CalmAt, window
<1>6. CacheOK'
  BY <1>0, <1>1, <1>5, CacheKept
<1> QED  BY <1>1, <1>2, <1>3, <1>4, <1>5, <1>6, CalmStep DEF Unserved

LEMMA DeleteStep ==
    ASSUME StoreInv, Unserved, NEW p \in Peers, NEW i \in Ids, Delete(p, i)
    PROVE  StoreInv'
<1>0. TelegramOK /\ EventsOK /\ TablesOK /\ CallsOK
  BY DEF StoreInv
<1>1. /\ i \in alive[p] /\ i \in sent[p]
      /\ alive' = [alive EXCEPT ![p] = @ \ {i}]
      /\ gone' \subseteq gone \union {<<p, i>>}
      /\ cached' \in [Peers -> SUBSET Page]
      /\ \A q \in Peers : cached'[q] \subseteq cached[q]
  BY <1>0 DEF Delete, TelegramOK, CallsOK
<1>2. UNCHANGED <<top, sent, heard, doomed, owed, rows, sourced, window, fresh, op>>
  BY DEF Delete
<1>3. /\ alive' \in [Peers -> SUBSET Nat]
      /\ \A q \in Peers : alive'[q] = IF q = p THEN alive[q] \ {i} ELSE alive[q]
  BY <1>0, <1>1 DEF TelegramOK
<1>4. gone' \union doomed' \subseteq Peers \X Ids
  BY <1>0, <1>1, <1>2 DEF EventsOK
<1>5. \A e \in gone' \union doomed' : e[2] \in sent[e[1]] \ alive'[e[1]]
  <2> SUFFICES ASSUME NEW e \in gone' \union doomed'
               PROVE  e[2] \in sent[e[1]] \ alive'[e[1]]
    OBVIOUS
  <2>1. CASE e = <<p, i>>
    BY <2>1, <1>1, <1>3
  <2>2. CASE e \in gone \union doomed
    <3>1. e[1] \in Peers /\ e[2] \in sent[e[1]] \ alive[e[1]]
      BY <2>2, <1>0 DEF EventsOK
    <3> QED  BY <3>1, <1>3
  <2> QED  BY <2>1, <2>2, <1>1, <1>2
<1>6. /\ rows' = rows /\ sourced' = sourced /\ fresh' = fresh
      /\ heard' = heard /\ owed' = owed /\ top' = top /\ sent' = sent
      /\ UNCHANGED <<window, op>>
  BY <1>2
<1> QED  BY <1>0, <1>1, <1>3, <1>4, <1>5, <1>6, QuietStep DEF TablesOK

\* Rows of the living stay when the rows S of p are dropped.
LEMMA DroppedRows ==
    ASSUME TablesOK, NEW p \in Peers, NEW S, Dropped(p, S)
    PROVE  /\ rows' \in [Peers -> SUBSET Nat] /\ sourced' \in [Peers -> SUBSET Nat]
           /\ \A q \in Peers : /\ rows'[q] = IF q = p THEN rows[q] \ S ELSE rows[q]
                               /\ sourced'[q] = IF q = p THEN sourced[q] \ S ELSE sourced[q]
                               /\ rows'[q] \subseteq sent[q]
                               /\ sourced'[q] \subseteq rows'[q]
<1>1. /\ rows' = [rows EXCEPT ![p] = @ \ S] /\ sourced' = [sourced EXCEPT ![p] = @ \ S]
      /\ rows \in [Peers -> SUBSET Nat] /\ sourced \in [Peers -> SUBSET Nat]
      /\ \A q \in Peers : rows[q] \subseteq sent[q] /\ sourced[q] \subseteq rows[q]
  BY DEF Dropped, TablesOK
<1> QED  BY <1>1

\* One row is written.
LEMMA UpsertedRow ==
    ASSUME TablesOK, TelegramOK, NEW p \in Peers, NEW i \in sent[p], Upserted(p, i)
    PROVE  /\ rows' \in [Peers -> SUBSET Nat]
           /\ \A q \in Peers : /\ rows'[q] = IF q = p THEN rows[q] \union {i} ELSE rows[q]
                               /\ rows'[q] \subseteq sent[q]
                               /\ sourced[q] \subseteq rows'[q]
<1>1. /\ rows' = [rows EXCEPT ![p] = @ \union {i}]
      /\ rows \in [Peers -> SUBSET Nat] /\ i \in Nat
      /\ \A q \in Peers : rows[q] \subseteq sent[q] /\ sourced[q] \subseteq rows[q]
  BY DEF Upserted, TablesOK, TelegramOK
<1> QED  BY <1>1

LEMMA RowsAreOfOneDialog ==
    ASSUME StoreInv, NEW p \in Peers \ Channels, NEW q \in Peers \ Channels,
           NEW i \in sent[p], i \in rows[q]
    PROVE  q = p
BY DEF StoreInv, TelegramOK, TablesOK

\* The consumers of the live streams, record_outgoing and the translator.
LEMMA ConsumersStep ==
    ASSUME StoreInv, Unserved, NEW p \in Peers, Consumers(p)
    PROVE  StoreInv'
<1>0. TelegramOK /\ EventsOK /\ TablesOK /\ CallsOK
  BY DEF StoreInv
<1>1. /\ alive \in [Peers -> SUBSET Nat] /\ rows \in [Peers -> SUBSET Nat]
      /\ sourced \in [Peers -> SUBSET Nat] /\ cached \in [Peers -> SUBSET Page]
      /\ \A q \in Peers : rows[q] \subseteq sent[q] /\ sourced[q] \subseteq rows[q]
      /\ gone \union doomed \subseteq Peers \X Ids
      /\ \A e \in gone \union doomed : e[2] \in sent[e[1]] \ alive[e[1]]
  BY <1>0 DEF TelegramOK, TablesOK, CallsOK, EventsOK
<1>2. CASE Lapse(p)
  <2>1. UNCHANGED <<top, sent, window, op, alive, rows, sourced, cached, heard, owed, gone, doomed>>
    BY <1>2 DEF Lapse, telegram, events
  <2>2. fresh' \subseteq fresh
    BY <1>2 DEF Lapse
  <2> QED  BY <2>1, <2>2, <1>1, QuietStep
<1>3. ASSUME NEW i \in Ids, Ingest(p, i)  PROVE StoreInv'
  <2>1. UNCHANGED <<top, sent, window, op, alive, sourced, cached, owed, gone, doomed, fresh>>
    BY <1>3 DEF Ingest, telegram
  <2>2. i \in sent[p] /\ Upserted(p, i) /\ heard' \subseteq heard
    BY <1>3, <1>0 DEF Ingest, EventsOK
  <2>3. /\ rows' \in [Peers -> SUBSET Nat]
        /\ \A q \in Peers : rows[q] \subseteq rows'[q] /\ rows'[q] \subseteq sent[q]
                            /\ sourced[q] \subseteq rows'[q]
    BY <2>2, <1>0, UpsertedRow
  <2> QED  BY <2>1, <2>2, <2>3, <1>1, QuietStep
<1>4. ASSUME NEW i \in Ids, Translate(p, i)  PROVE StoreInv'
  <2>1. UNCHANGED <<top, sent, window, op, alive, sourced, cached, heard, owed, gone, doomed, fresh>>
    BY <1>4 DEF Translate, telegram, events
  <2>2. i \in sent[p] /\ Upserted(p, i)
    BY <1>4 DEF Translate
  <2>3. /\ rows' \in [Peers -> SUBSET Nat]
        /\ \A q \in Peers : rows[q] \subseteq rows'[q] /\ rows'[q] \subseteq sent[q]
                            /\ sourced[q] \subseteq rows'[q]
    BY <2>2, <1>0, UpsertedRow
  <2> QED  BY <2>1, <2>2, <2>3, <1>1, QuietStep
<1>5. ASSUME NEW i \in Ids, RecordOutgoing(p, i)  PROVE StoreInv'
  <2>1. UNCHANGED <<top, sent, window, op, alive, cached, heard, gone, doomed, fresh>>
    BY <1>5 DEF RecordOutgoing, telegram
  <2>2. /\ i \in sent[p] /\ Upserted(p, i) /\ owed' \subseteq owed /\ Free(p)
        /\ sourced' = [sourced EXCEPT ![p] = @ \union {i}] /\ i \in Nat
    BY <1>5, <1>0 DEF RecordOutgoing, MayRecord, EventsOK, TelegramOK
  <2>3. /\ rows' \in [Peers -> SUBSET Nat]
        /\ \A q \in Peers : /\ rows'[q] = IF q = p THEN rows[q] \union {i} ELSE rows[q]
                            /\ rows[q] \subseteq rows'[q] /\ rows'[q] \subseteq sent[q]
                            /\ sourced[q] \subseteq rows'[q]
    BY <2>2, <1>0, UpsertedRow
  <2>4. /\ sourced' \in [Peers -> SUBSET Nat]
        /\ \A q \in Peers : sourced'[q] = IF q = p THEN sourced[q] \union {i} ELSE sourced[q]
    BY <2>2, <1>1
  <2>5. \A q \in Peers : /\ sourced'[q] \subseteq rows'[q]
                         /\ Free(q) \/ sourced'[q] \subseteq sourced[q]
    BY <2>2, <2>3, <2>4
  <2> QED  BY <2>1, <2>2, <2>3, <2>4, <2>5, <1>1, QuietStep
<1>6. ASSUME NEW i \in Ids, ApplyDeletion(p, i)  PROVE StoreInv'
  <2>1. UNCHANGED <<top, sent, window, op, alive, cached, heard, owed, fresh>>
    BY <1>6 DEF ApplyDeletion, telegram
  <2>2. i \in sent[p] \ alive[p] /\ gone' \subseteq gone
    BY <1>6, <1>0 DEF ApplyDeletion, EventsOK
  <2>3. CASE p \in Channels
    <3>1. Dropped(p, {i}) /\ doomed' = doomed
      BY <1>6, <2>3 DEF ApplyDeletion
    <3>2. /\ rows' \in [Peers -> SUBSET Nat] /\ sourced' \in [Peers -> SUBSET Nat]
          /\ \A q \in Peers : /\ rows'[q] = IF q = p THEN rows[q] \ {i} ELSE rows[q]
                              /\ sourced'[q] = IF q = p THEN sourced[q] \ {i} ELSE sourced[q]
                              /\ rows'[q] \subseteq sent[q]
                              /\ sourced'[q] \subseteq rows'[q]
      BY <3>1, <1>0, DroppedRows
    <3>3. \A q \in Peers : /\ rows[q] \intersect alive[q] \subseteq rows'[q]
                           /\ sourced'[q] \subseteq sourced[q]
      BY <3>2, <2>2
    <3> QED  BY <2>1, <2>2, <3>1, <3>2, <3>3, <1>1, QuietStep
  <2>4. CASE p \notin Channels
    <3>1. doomed' = Selected(i) /\ rows' = rows /\ sourced' = sourced
      BY <1>6, <2>4 DEF ApplyDeletion
    <3>2. \A e \in Selected(i) : e = <<p, i>>
      BY <2>2, <2>4, RowsAreOfOneDialog DEF Selected
    <3>3. Selected(i) \subseteq Peers \X Ids
      BY DEF Selected
    <3>4. /\ gone' \union doomed' \subseteq Peers \X Ids
          /\ \A e \in gone' \union doomed' : e[2] \in sent[e[1]] \ alive[e[1]]
      BY <3>1, <3>2, <3>3, <2>2, <1>1
    <3> QED  BY <2>1, <2>2, <3>1, <3>4, <1>1, QuietStep
  <2> QED  BY <2>3, <2>4
<1> QED  BY <1>2, <1>3, <1>4, <1>5, <1>6 DEF Consumers

LEMMA DeleteRowStep ==
    ASSUME StoreInv, Unserved, DeleteRow
    PROVE  StoreInv'
<1>0. TelegramOK /\ EventsOK /\ TablesOK /\ CallsOK
  BY DEF StoreInv
<1>1. /\ alive \in [Peers -> SUBSET Nat] /\ cached \in [Peers -> SUBSET Page]
      /\ gone \union doomed \subseteq Peers \X Ids
      /\ \A e \in gone \union doomed : e[2] \in sent[e[1]] \ alive[e[1]]
  BY <1>0 DEF TelegramOK, CallsOK, EventsOK
<1>2. PICK d \in doomed : Dropped(d[1], {d[2]}) /\ doomed' = doomed \ {d}
  BY DEF DeleteRow
<1>3. d[1] \in Peers /\ d[2] \notin alive[d[1]]
  BY <1>1
<1>4. UNCHANGED <<top, sent, window, op, alive, cached, heard, owed, gone, fresh>>
  BY DEF DeleteRow, telegram, events
<1>5. /\ rows' \in [Peers -> SUBSET Nat] /\ sourced' \in [Peers -> SUBSET Nat]
      /\ \A q \in Peers : /\ rows'[q] = IF q = d[1] THEN rows[q] \ {d[2]} ELSE rows[q]
                          /\ sourced'[q] = IF q = d[1] THEN sourced[q] \ {d[2]} ELSE sourced[q]
                          /\ rows'[q] \subseteq sent[q]
                          /\ sourced'[q] \subseteq rows'[q]
  BY <1>2, <1>3, <1>0, DroppedRows
<1>6. \A q \in Peers : /\ rows[q] \intersect alive[q] \subseteq rows'[q]
                       /\ sourced'[q] \subseteq sourced[q]
  BY <1>5, <1>3
<1> QED  BY <1>1, <1>2, <1>4, <1>5, <1>6, QuietStep

LEMMA ForgetStep ==
    ASSUME StoreInv, Unserved, NEW p \in Peers, Forget(p)
    PROVE  StoreInv'
<1>0. TelegramOK /\ EventsOK /\ TablesOK /\ CallsOK
  BY DEF StoreInv
<1>1. /\ UNCHANGED <<top, sent, window, op, alive, rows, sourced, heard, owed, gone, doomed, fresh>>
      /\ \E c \in cached[p] : cached' = [cached EXCEPT ![p] = @ \ {c}]
  BY DEF Forget, telegram, events
<1>2. /\ cached' \in [Peers -> SUBSET Page]
      /\ \A q \in Peers : cached'[q] \subseteq cached[q]
  BY <1>0, <1>1 DEF CallsOK
<1> QED
  BY <1>0, <1>1, <1>2, QuietStep DEF TelegramOK, TablesOK, EventsOK

LEMMA ClearStep ==
    ASSUME StoreInv, Unserved, ClearTranslations
    PROVE  StoreInv'
<1>0. TelegramOK /\ EventsOK /\ TablesOK /\ CallsOK
  BY DEF StoreInv
<1>1. /\ UNCHANGED <<top, sent, window, op, alive, rows, cached, heard, owed, gone, doomed, fresh>>
      /\ sourced' = [p \in Peers |-> {}]
  BY DEF ClearTranslations, telegram, events
<1> QED
  BY <1>0, <1>1, QuietStep DEF TelegramOK, TablesOK, EventsOK, CallsOK

-----------------------------------------------------------------------------
(* Steps of history() *)

LEMMA CallShape ==
    ASSUME CallsOK, NEW r \in Readers
    PROVE  /\ op[r].at \in {"wait", "check", "since", "full", "refill", "load", "page"}
                 => op[r] \in Waiting
           /\ op[r].at \in {"write", "mark"} => op[r] \in Writing
           /\ op[r].at = "fold" => op[r] \in Folding
           /\ op[r].at = "rows" => op[r] \in Reading
<1>1. op[r] \in {NoCall} \union HistoryCall
  BY DEF CallsOK
<1>2. op[r] = NoCall => op[r].at = "idle"
  BY DEF NoCall
<1>3. op[r] \in Waiting
        => op[r].at \in {"wait", "check", "since", "full", "refill", "load", "page"}
  BY DEF Waiting
<1>4. op[r] \in Writing => op[r].at \in {"write", "mark"}
  BY DEF Writing
<1>5. op[r] \in Folding => op[r].at = "fold"
  BY DEF Folding
<1>6. op[r] \in Reading => op[r].at = "rows"
  BY DEF Reading
<1>7. op[r] \in Served => op[r].at = "served"
  BY DEF Served
<1> QED  BY <1>1, <1>2, <1>3, <1>4, <1>5, <1>6, <1>7 DEF HistoryCall

\* The page served by a call c has no hole.
NoHole(c) ==
    LET below == {i \in alive[c.peer] : i <= c.upto} IN
    /\ \A i \in below : (\E j \in c.ids : j <= i) => i \in c.ids
    /\ c.before > 0 /\ Cardinality(c.ids) < c.limit => below \subseteq c.ids

\* A step that changes nothing but the call of one reader.
LEMMA OpStep ==
    ASSUME StoreInv, NEW r \in Readers, NEW c \in {NoCall} \union HistoryCall,
           op' = [op EXCEPT ![r] = c],
           UNCHANGED <<top, sent, alive, heard, gone, owed, doomed, rows, sourced,
                       synced, low, high, fresh>>,
           cached' \in [Peers -> SUBSET Page], CacheOK',
           c.at \in Locked => Free(c.peer) \/ (op[r].at \in Locked /\ op[r].peer = c.peer),
           c.at = "rows" => c.hi = high[c.peer],
           c.at = "served" => NoHole(c),
           ReaderOK(r)'
    PROVE  StoreInv'
<1>0. /\ TelegramOK /\ EventsOK /\ TablesOK /\ CallsOK /\ LockOK /\ WindowHasNoHole
      /\ PagesHaveNoHole /\ \A s \in Readers : ReaderOK(s)
  BY DEF StoreInv
<1>1. /\ op \in [Readers -> {NoCall} \union HistoryCall]
      /\ op' \in [Readers -> {NoCall} \union HistoryCall]
      /\ \A s \in Readers : op'[s] = IF s = r THEN c ELSE op[s]
  BY <1>0 DEF CallsOK
<1>2. TelegramOK' /\ EventsOK' /\ TablesOK' /\ WindowHasNoHole'
  BY <1>0 DEF TelegramOK, EventsOK, TablesOK, WindowHasNoHole
<1>3. CallsOK'
  BY <1>1 DEF CallsOK
<1>4. LockOK'
  <2> SUFFICES ASSUME NEW x \in Readers, NEW y \in Readers, x # y,
                      op'[x].at \in Locked, op'[y].at \in Locked, op'[x].peer = op'[y].peer
               PROVE  FALSE
    BY DEF LockOK
  <2>1. CASE x # r /\ y # r
    BY <2>1, <1>0, <1>1 DEF LockOK
  <2>2. CASE x = r
    <3>1. op[y].at \in Locked /\ op[y].peer = c.peer /\ c.at \in Locked
      BY <2>2, <1>1
    <3> QED  BY <3>1, <2>2, <1>0 DEF LockOK, Free
  <2>3. CASE y = r
    <3>1. op[x].at \in Locked /\ op[x].peer = c.peer /\ c.at \in Locked
      BY <2>3, <1>1
    <3> QED  BY <3>1, <2>3, <1>0 DEF LockOK, Free
  <2> QED  BY <2>1, <2>2, <2>3
<1>5. ASSUME NEW p \in Peers  PROVE CalmAt(p) /\ RangesAt(p)
  <2>1. top[p] \in Nat
    BY <1>0 DEF TelegramOK
  <2> QED  BY <2>1, <1>1 DEF CalmAt, RangesAt
<1>6. ASSUME NEW s \in Readers  PROVE ReaderOK(s)'
  <2>1. CASE s = r
    BY <2>1
  <2>2. CASE s # r
    <3>1. op'[s] = op[s]
      BY <2>2, <1>1
    <3>2. op[s].at # "idle" => CalmAt(op[s].peer) /\ RangesAt(op[s].peer)
      BY <1>0, <1>5, CallFields
    <3> QED  BY <3>1, <3>2, <1>0, <1>2, CallKept
  <2> QED  BY <2>1, <2>2
<1>7. PagesHaveNoHole'
  <2>1. \A s \in Readers : op'[s].at = "served" => NoHole(op'[s])
    BY <1>0, <1>1 DEF PagesHaveNoHole, NoHole
  <2> QED  BY <2>1 DEF PagesHaveNoHole, NoHole
<1> QED  BY <1>2, <1>3, <1>4, <1>6, <1>7 DEF StoreInv

Still == UNCHANGED <<top, sent, alive, heard, gone, owed, doomed, rows, sourced,
                     synced, low, high, fresh>>

LEMMA StillKeeps ==
    ASSUME StoreInv, Still, UNCHANGED cached
    PROVE  cached' \in [Peers -> SUBSET Page] /\ CacheOK'
BY DEF StoreInv, Still, CallsOK, CacheOK

LEMMA DropsCall ==
    ASSUME StoreInv, NEW r \in Readers, op' = [op EXCEPT ![r] = NoCall], Still, UNCHANGED cached
    PROVE  StoreInv'
<1>1. op'[r] = NoCall
  BY DEF StoreInv, CallsOK
<1>2. ReaderOK(r)'
  BY <1>1 DEF ReaderOK, NoCall
<1>3. NoCall.at = "idle" /\ "idle" \notin Locked
  BY DEF NoCall, Locked
<1> QED  BY <1>2, <1>3, StillKeeps, OpStep DEF Still

LEMMA CallStep ==
    ASSUME StoreInv, NEW r \in Readers, NEW p \in Peers, NEW l \in Limits, NEW o,
           Call(r, p, l, o)
    PROVE  StoreInv'
<1> DEFINE c == [at |-> "wait", peer |-> p, limit |-> l, before |-> o]
<1>1. op' = [op EXCEPT ![r] = c] /\ Still /\ UNCHANGED cached
  BY DEF Call, Still, telegram, events, window
<1>2. o \in Nat /\ o <= top[p]
  <2>1. /\ top[p] \in Nat /\ sent[p] \in SUBSET Nat /\ \A i \in sent[p] : i <= top[p]
    BY DEF StoreInv, TelegramOK
  <2> QED  BY <2>1 DEF Call
<1>3. c \in HistoryCall /\ c.at = "wait" /\ c.before = o /\ c.peer = p
  BY <1>2 DEF HistoryCall, Waiting
<1>4. op'[r] = c
  BY <1>1 DEF StoreInv, CallsOK
<1> HIDE DEF c
<1>5. ReaderOK(r)'
  BY <1>1, <1>2, <1>3, <1>4 DEF ReaderOK, Still
<1> QED  BY <1>1, <1>3, <1>5, StillKeeps, OpStep DEF Still, Locked

\* A call that takes the lock, looks at the cooldown or asks for everything.
LEMMA MovesOn ==
    ASSUME StoreInv, NEW r \in Readers, op[r].at \in {"wait", "check", "since"},
           NEW x \in {"refill", "load", "since", "full", "page"}, Goes(r, x),
           op[r].at = "wait" => Free(op[r].peer), Still, UNCHANGED cached,
           x = "page" => op[r].at = "wait" /\ op[r].before > 0
    PROVE  StoreInv'
<1>0. CallsOK /\ ReaderOK(r)
  BY DEF StoreInv
<1> DEFINE c == [op[r] EXCEPT !.at = x]
<1>1. op[r] \in Waiting
  BY <1>0, CallShape
<1>2. c \in HistoryCall /\ c.at = x /\ c.peer = op[r].peer /\ c.before = op[r].before
  BY <1>1 DEF HistoryCall, Waiting
<1>3. op' = [op EXCEPT ![r] = c]
  BY DEF Goes
<1>4. op'[r] = c
  BY <1>0, <1>3 DEF CallsOK
<1>5. c.at \in Locked => Free(c.peer) \/ (op[r].at \in Locked /\ op[r].peer = c.peer)
  BY <1>2 DEF Locked
<1> HIDE DEF c
<1>6. ReaderOK(r)'
  <2>1. x = "page" => op[r].before <= top[op[r].peer]
    BY <1>0 DEF ReaderOK
  <2> QED  BY <2>1, <1>2, <1>4 DEF ReaderOK, Still
<1> QED  BY <1>2, <1>3, <1>5, <1>6, StillKeeps, OpStep DEF Still

\* A call with a fetched page that will replace the window.
LEMMA WritesStep ==
    ASSUME StoreInv, NEW r \in Readers, op[r].at \in {"since", "full", "refill"},
           NEW page \in SUBSET Nat, NEW then \in {"check", "load"}, Writes(r, page, then),
           page \subseteq alive[op[r].peer], Whole(page, op[r].limit, alive[op[r].peer]),
           page = {} => alive[op[r].peer] = {}, Still, UNCHANGED cached
    PROVE  StoreInv'
<1>0. CallsOK /\ TelegramOK
  BY DEF StoreInv
<1> DEFINE p == op[r].peer
           c == [at |-> "write", peer |-> p, limit |-> op[r].limit, before |-> op[r].before,
                 page |-> page, todo |-> page, then |-> then]
<1>1. p \in Peers /\ op[r].limit \in Limits /\ op[r].before \in Nat
  BY <1>0, CallFields
<1>2. /\ c \in HistoryCall /\ c.at = "write" /\ c.peer = p /\ c.limit = op[r].limit
      /\ c.page = page /\ c.todo = page
  BY <1>1 DEF HistoryCall, Writing
<1>3. op' = [op EXCEPT ![r] = c]
  BY DEF Writes
<1>4. op'[r] = c
  BY <1>0, <1>3 DEF CallsOK
<1>5. op[r].at \in Locked
  BY DEF Locked
<1>6. page \subseteq sent[p]
  BY <1>0, <1>1 DEF TelegramOK
<1> HIDE DEF c
<1>7. WritesOK(r, p)'
  BY <1>2, <1>4, <1>6 DEF WritesOK, Still
<1>8. page = {} => EmptyOK(r, p)'
  <2>1. op'[r].peer = op[r].peer /\ alive' = alive
    BY <1>2, <1>4 DEF Still
  <2> QED  BY <2>1 DEF EmptyOK
<1>9. ReaderOK(r)'
  BY <1>2, <1>4, <1>7, <1>8 DEF ReaderOK
<1> QED  BY <1>2, <1>3, <1>5, <1>9, StillKeeps, OpStep DEF Still

LEMMA FetchFullStep ==
    ASSUME StoreInv, NEW r \in Readers, FetchFull(r)
    PROVE  StoreInv'
<1> DEFINE p == op[r].peer
           page == Newest(op[r].limit, alive[p])
           then == IF op[r].at = "full" THEN "load" ELSE "check"
<1>1. op[r].at \in {"full", "refill"} /\ Writes(r, page, then) /\ Still /\ UNCHANGED cached
  BY DEF FetchFull, Still, telegram, events, window
<1>2. p \in Peers /\ op[r].limit \in Nat \ {0}
  BY <1>1, CallFields DEF StoreInv
<1>3. top[p] \in Nat /\ alive[p] \in SUBSET Nat /\ \A i \in alive[p] : i <= top[p]
  BY <1>2 DEF StoreInv, TelegramOK
<1>4. page \subseteq alive[p] /\ Whole(page, op[r].limit, alive[p]) /\ (page = {} => alive[p] = {})
  BY <1>2, <1>3, NewestIsWhole
<1>5. page \in SUBSET Nat /\ then \in {"check", "load"}
  BY <1>3, <1>4
<1> HIDE DEF page, then
<1> QED  BY <1>1, <1>4, <1>5, WritesStep

LEMMA FetchSinceStep ==
    ASSUME StoreInv, NEW r \in Readers, FetchSince(r)
    PROVE  StoreInv'
<1> DEFINE p == op[r].peer
           newer == {i \in alive[p] : i > high[p]}
           page == Newest(op[r].limit, newer)
<1>1. op[r].at = "since" /\ Still /\ UNCHANGED cached
  BY DEF FetchSince, Still, telegram, events, window
<1>2. p \in Peers /\ op[r].limit \in Nat \ {0}
  BY <1>1, CallFields DEF StoreInv
<1>3. /\ top[p] \in Nat /\ alive[p] \in SUBSET Nat
      /\ \A i \in alive[p] : 0 < i /\ i <= top[p]
      /\ high[p] \in Nat /\ (p \notin synced => high[p] = 0)
  BY <1>2 DEF StoreInv, TelegramOK, TablesOK
<1>4. newer \in SUBSET Nat /\ \A i \in newer : i <= top[p]
  BY <1>3
<1>5. page \subseteq newer /\ Whole(page, op[r].limit, newer) /\ (page = {} => newer = {})
  BY <1>2, <1>3, <1>4, NewestIsWhole
<1>6. page \in SUBSET Nat /\ page \subseteq alive[p]
  BY <1>3, <1>5
<1>7. CASE p \notin synced \/ Cardinality(page) >= op[r].limit
  <2>1. Writes(r, page, "load")
    BY <1>7 DEF FetchSince
  <2>2. CASE p \notin synced
    <3>1. newer = alive[p]
      BY <2>2, <1>3
    <3>2. /\ Whole(page, op[r].limit, alive[p])
          /\ page = {} => alive[p] = {}
      BY <3>1, <1>5
    <3> HIDE DEF page, newer
    <3> QED  BY <2>1, <3>2, <1>1, <1>6, WritesStep
  <2>3. CASE Cardinality(page) >= op[r].limit
    <3>1. page # {}
      <4>1. page = {} => Cardinality(page) = 0
        BY FS_EmptySet
      <4>2. ~ (0 >= op[r].limit)
        BY <1>2
      <4> QED  BY ONLY <4>1, <4>2, <2>3
    <3>2. Lowest(page) \in page
      BY <3>1, <1>6, LowestIsLeast
    <3>3. IsFiniteSet(page)
      <4>1. \A i \in page : i <= top[p]
        BY <1>3, <1>6
      <4> HIDE DEF page
      <4> QED  BY <4>1, <1>3, <1>6, FS_BoundedSetOfNaturals
    <3>4. Cardinality(page) \in Nat
      BY <3>3, FS_CardinalityType
    <3> HIDE DEF page
    <3>5. Edge(page, op[r].limit) = Lowest(page)
      BY <2>3, <3>4, <1>2 DEF Edge
    <3>6. Whole(page, op[r].limit, alive[p])
      <4> SUFFICES ASSUME NEW i \in alive[p], Lowest(page) <= i, NEW j \in page, i <= j
                   PROVE  i \in page
        BY <3>5 DEF Whole
      <4>1. i \in Nat /\ Lowest(page) \in Nat /\ Lowest(page) > high[p]
        BY <3>2, <1>3, <1>5
      <4>2. i \in newer
        BY <4>1, <1>3
      <4> HIDE DEF newer
      <4> QED  BY <4>2, <3>5, <1>5 DEF Whole
    <3> QED  BY <2>1, <3>1, <3>6, <1>1, <1>6, WritesStep
  <2> QED  BY <1>7, <2>2, <2>3
<1>8. CASE ~ (p \notin synced \/ Cardinality(page) >= op[r].limit)
  <2>1. Goes(r, "full")
    BY <1>8 DEF FetchSince
  <2> QED  BY <2>1, <1>1, MovesOn
<1> QED  BY <1>7, <1>8

LEMMA LoadRowStep ==
    ASSUME StoreInv, NEW r \in Readers, LoadRow(r)
    PROVE  StoreInv'
<1>0. CallsOK /\ TelegramOK /\ TablesOK /\ WindowHasNoHole
  BY DEF StoreInv
<1> DEFINE p == op[r].peer
           c == [at |-> "rows", peer |-> p, limit |-> op[r].limit, before |-> 0,
                 lo |-> low[p], hi |-> high[p]]
<1>1. op[r].at = "load" /\ op' = [op EXCEPT ![r] = c] /\ Still /\ UNCHANGED cached
  BY DEF LoadRow, Still, telegram, events, window
<1>2. p \in Peers /\ op[r].limit \in Limits
  BY <1>0, <1>1, CallFields
<1>3. /\ low[p] \in Nat /\ high[p] \in Nat /\ low[p] <= high[p] /\ high[p] <= top[p]
      /\ alive[p] \in SUBSET Nat /\ \A i \in alive[p] : 0 < i
      /\ p \notin synced => high[p] = 0
  BY <1>0, <1>2 DEF TelegramOK, TablesOK
<1>4. /\ c \in HistoryCall /\ c.at = "rows" /\ c.peer = p /\ c.before = 0
      /\ c.lo = low[p] /\ c.hi = high[p]
  BY <1>2, <1>3 DEF HistoryCall, Reading
<1>5. op'[r] = c
  BY <1>0, <1>1 DEF CallsOK
<1>6. alive[p] \intersect (low[p]..high[p]) \subseteq rows[p]
  <2>1. CASE p \in synced
    BY <2>1, <1>0 DEF WindowHasNoHole
  <2>2. CASE p \notin synced
    BY <2>2, <1>3
  <2> QED  BY <2>1, <2>2
<1> HIDE DEF c
<1>7. ReadsOK(r, p)'
  <2>1. op'[r].peer = op[r].peer
    BY <1>4, <1>5
  <2> QED  BY <2>1, <1>1, <1>3, <1>4, <1>5, <1>6 DEF ReadsOK, Still
<1>8. ReaderOK(r)'
  BY <1>4, <1>5, <1>7 DEF ReaderOK
<1>9. "rows" \notin Locked
  BY DEF Locked
<1> QED  BY <1>1, <1>4, <1>8, <1>9, StillKeeps, OpStep DEF Still

\* A call with its answer.
LEMMA ServesStep ==
    ASSUME StoreInv, NEW r \in Readers, op[r].at # "idle", NEW page \in SUBSET Nat, NEW upto \in Nat,
           Serves(r, page, upto), Still, UNCHANGED cached,
           \A i \in alive[op[r].peer], j \in page : i <= upto /\ j <= i => i \in page,
           op[r].before > 0 /\ Cardinality(page) < op[r].limit
              => \A i \in alive[op[r].peer] : i <= upto => i \in page
    PROVE  StoreInv'
<1>0. CallsOK
  BY DEF StoreInv
<1> DEFINE p == op[r].peer
           c == [at |-> "served", peer |-> p, limit |-> op[r].limit, before |-> op[r].before,
                 ids |-> page, upto |-> upto]
<1>1. p \in Peers /\ op[r].limit \in Limits /\ op[r].before \in Nat
  BY <1>0, CallFields
<1>2. /\ c \in HistoryCall /\ c.at = "served" /\ c.peer = p /\ c.limit = op[r].limit
      /\ c.before = op[r].before /\ c.ids = page /\ c.upto = upto
  BY <1>1 DEF HistoryCall, Served
<1>3. op' = [op EXCEPT ![r] = c]
  BY DEF Serves
<1>4. op'[r] = c
  BY <1>0, <1>3 DEF CallsOK
<1> HIDE DEF c
<1>5. ReaderOK(r)'
  BY <1>2, <1>4 DEF ReaderOK
<1>6. NoHole(c)
  BY <1>2 DEF NoHole
<1>7. "served" \notin Locked
  BY DEF Locked
<1> QED  BY <1>2, <1>3, <1>5, <1>6, <1>7, StillKeeps, OpStep DEF Still

LEMMA LoadRowsStep ==
    ASSUME StoreInv, NEW r \in Readers, LoadRows(r)
    PROVE  StoreInv'
<1> DEFINE p == op[r].peer
           S == Loaded(p, op[r].lo, op[r].hi)
           page == Newest(op[r].limit, S)
<1>1. op[r].at = "rows" /\ Serves(r, page, op[r].hi) /\ Still /\ UNCHANGED cached
  BY DEF LoadRows, Still, telegram, events, window
<1>2. p \in Peers /\ op[r].limit \in Nat \ {0} /\ op[r].lo \in Nat /\ op[r].hi \in Nat
  BY <1>1, CallFields DEF StoreInv
<1>3. ReadsOK(r, p)
  BY <1>1 DEF StoreInv, ReaderOK
<1>4. alive[p] \in SUBSET Nat /\ rows[p] \in SUBSET Nat
  BY <1>2 DEF StoreInv, TelegramOK, TablesOK
<1>5. /\ S \in SUBSET Nat /\ \A i \in S : op[r].lo <= i /\ i <= op[r].hi
      /\ \A i \in alive[p] : op[r].lo <= i /\ i <= op[r].hi => i \in S
  BY <1>2, <1>3, <1>4 DEF Loaded, ReadsOK
<1> HIDE DEF S
<1>6. /\ page \subseteq S
      /\ \A i \in page, j \in S : i <= j => j \in page
  BY <1>2, <1>5, NewestIsUpper
<1> HIDE DEF page
<1>7. page \in SUBSET Nat
  BY <1>5, <1>6
<1>8. \A i \in alive[p], j \in page : i <= op[r].hi /\ j <= i => i \in page
  <2> SUFFICES ASSUME NEW i \in alive[p], NEW j \in page, i <= op[r].hi, j <= i
               PROVE  i \in page
    OBVIOUS
  <2>1. i \in Nat /\ j \in Nat /\ op[r].lo <= j
    BY <1>4, <1>5, <1>6
  <2>2. i \in S
    BY <2>1, <1>2, <1>5
  <2> QED  BY <2>2, <1>6
<1>9. ~ (op[r].before > 0)
  BY <1>3 DEF ReadsOK
<1> QED  BY <1>1, <1>2, <1>7, <1>8, <1>9, ServesStep

LEMMA TakeOlderStep ==
    ASSUME StoreInv, NEW r \in Readers, TakeOlder(r)
    PROVE  StoreInv'
<1> DEFINE p == op[r].peer
           o == op[r].before
           S == {i \in rows[p] : low[p] <= i /\ i < o}
           have == Newest(op[r].limit, S)
<1>1. op[r].at = "wait" /\ o > 0 /\ Free(p) /\ Still /\ UNCHANGED cached
  BY DEF TakeOlder, Still, telegram, events, window
<1>2. p \in Peers /\ op[r].limit \in Nat \ {0} /\ o \in Nat
  BY <1>1, CallFields DEF StoreInv
<1>3. CASE InWindow(p, o) /\ (low[p] = 0 \/ Cardinality(have) >= op[r].limit)
  <2>1. Serves(r, have, o - 1)
    BY <1>3 DEF TakeOlder
  <2>2. /\ p \in synced /\ low[p] <= o /\ o <= high[p]
        /\ low[p] \in Nat /\ high[p] \in Nat
        /\ alive[p] \in SUBSET Nat /\ rows[p] \in SUBSET Nat
    BY <1>2, <1>3 DEF StoreInv, TelegramOK, TablesOK, InWindow
  <2>3. \A i \in alive[p] : low[p] <= i /\ i < o => i \in S
    <3> SUFFICES ASSUME NEW i \in alive[p], low[p] <= i, i < o PROVE i \in S
      OBVIOUS
    <3>1. i \in Nat /\ i \in low[p]..high[p]
      BY <2>2, <1>2
    <3> QED  BY <3>1, <2>2 DEF StoreInv, WindowHasNoHole
  <2>4. /\ S \in SUBSET Nat /\ o - 1 \in Nat
        /\ \A i \in S : low[p] <= i /\ i < o
        /\ \A i \in S : i <= o
    BY <1>1, <1>2, <2>2
  <2>5. /\ have \subseteq S
        /\ \A i \in have, j \in S : i <= j => j \in have
        /\ Cardinality(have) \in Nat
        /\ Cardinality(have) < op[r].limit => have = S
    <3> HIDE DEF S
    <3> QED  BY <1>2, <2>4, NewestIsUpper
  <2>6. low[p] = 0 \/ ~ (Cardinality(have) < op[r].limit)
    BY <1>2, <1>3, <2>5
  <2> HIDE DEF S, have
  <2>7. have \in SUBSET Nat
    BY <2>4, <2>5
  <2>8. \A i \in alive[p], j \in have : i <= o - 1 /\ j <= i => i \in have
    <3> SUFFICES ASSUME NEW i \in alive[p], NEW j \in have, i <= o - 1, j <= i
                 PROVE  i \in have
      OBVIOUS
    <3>1. i \in Nat /\ j \in Nat /\ low[p] <= j
      BY <2>2, <2>4, <2>5
    <3>2. i \in S
      BY <3>1, <1>2, <2>2, <2>3
    <3> QED  BY <3>2, <2>5
  <2>9. Cardinality(have) < op[r].limit => \A i \in alive[p] : i <= o - 1 => i \in have
    <3> SUFFICES ASSUME Cardinality(have) < op[r].limit, NEW i \in alive[p], i <= o - 1
                 PROVE  i \in have
      OBVIOUS
    <3>1. i \in Nat /\ low[p] <= i /\ i < o
      BY <1>2, <2>2, <2>6
    <3> QED  BY <3>1, <2>3, <2>5
  <2> QED  BY <1>1, <2>1, <2>4, <2>7, <2>8, <2>9, ServesStep
<1>4. CASE ~ (InWindow(p, o) /\ (low[p] = 0 \/ Cardinality(have) >= op[r].limit))
  <2>1. Goes(r, "page")
    BY <1>4 DEF TakeOlder
  <2> QED  BY <2>1, <1>1, MovesOn
<1> QED  BY <1>3, <1>4

\* A call with an older page in hand.
LEMMA FoldsStep ==
    ASSUME StoreInv, NEW r \in Readers, op[r].at = "page", NEW page \in SUBSET Nat,
           Folds(r, page), page \subseteq sent[op[r].peer],
           WholeBelow(page, op[r].limit, op[r].before, alive[op[r].peer]),
           Still, cached' \in [Peers -> SUBSET Page], CacheOK'
    PROVE  StoreInv'
<1>0. CallsOK /\ TelegramOK /\ ReaderOK(r)
  BY DEF StoreInv
<1> DEFINE p == op[r].peer
           c == [at |-> "fold", peer |-> p, limit |-> op[r].limit, before |-> op[r].before,
                 page |-> page, todo |-> page]
<1>1. p \in Peers /\ op[r].limit \in Limits /\ op[r].before \in Nat
  BY <1>0, CallFields
<1>2. op[r].before \in 1..top[p]
  BY <1>0, <1>1 DEF ReaderOK, TelegramOK
<1>3. /\ c \in HistoryCall /\ c.at = "fold" /\ c.peer = p /\ c.limit = op[r].limit
      /\ c.before = op[r].before /\ c.page = page /\ c.todo = page
  BY <1>1 DEF HistoryCall, Folding
<1>4. op' = [op EXCEPT ![r] = c]
  BY DEF Folds
<1>5. op'[r] = c
  BY <1>0, <1>4 DEF CallsOK
<1>6. op[r].at \in Locked
  BY DEF Locked
<1> HIDE DEF c
<1>7. FoldsOK(r, p)'
  <2>1. op'[r].peer = op[r].peer
    BY <1>3, <1>5
  <2> QED  BY <2>1, <1>2, <1>3, <1>5 DEF FoldsOK, Still
<1>8. ReaderOK(r)'
  BY <1>3, <1>5, <1>7 DEF ReaderOK
<1> QED  BY <1>3, <1>4, <1>6, <1>8, OpStep DEF Still

LEMMA AskPageStep ==
    ASSUME StoreInv, NEW r \in Readers, AskPage(r)
    PROVE  StoreInv'
<1>0. CallsOK /\ TelegramOK /\ ReaderOK(r) /\ CacheOK
  BY DEF StoreInv
<1> DEFINE p == op[r].peer
           S == {i \in alive[p] : i < op[r].before}
           page == Newest(op[r].limit, S)
           entry == [limit |-> op[r].limit, before |-> op[r].before, page |-> page]
<1>1. op[r].at = "page" /\ Still
  BY DEF AskPage, Still, telegram, events, window
<1>2. /\ p \in Peers /\ op[r].limit \in Nat \ {0} /\ op[r].limit \in Limits
      /\ op[r].before \in Nat
  BY <1>0, <1>1, CallFields
<1>3. /\ top[p] \in Nat /\ alive[p] \in SUBSET Nat /\ alive[p] \subseteq sent[p]
      /\ \A i \in alive[p] : i <= top[p]
  BY <1>0, <1>2 DEF TelegramOK
<1>4. CASE \E c \in cached[p] : c.limit = op[r].limit /\ c.before = op[r].before
                                /\ Folds(r, c.page) /\ UNCHANGED cached
  <2>1. PICK c \in cached[p] : c.limit = op[r].limit /\ c.before = op[r].before
                               /\ Folds(r, c.page) /\ UNCHANGED cached
    BY <1>4
  <2>2. c.page \in SUBSET Nat
    BY <1>0, <1>2 DEF CallsOK, Page
  <2>3. c.page \subseteq sent[p] /\ WholeBelow(c.page, op[r].limit, op[r].before, alive[p])
    BY <2>1, <1>0, <1>2 DEF CacheOK
  <2> QED  BY <1>1, <2>1, <2>2, <2>3, StillKeeps, FoldsStep
<1>5. CASE Folds(r, page) /\ (UNCHANGED cached
                              \/ cached' = [cached EXCEPT ![p] = @ \union {entry}])
  <2>1. WholeBelow(page, op[r].limit, op[r].before, alive[p])
    BY <1>2, <1>3, NewestIsWholeBelow
  <2>2. page \subseteq alive[p] /\ page \in SUBSET Nat /\ page \subseteq sent[p]
    BY <1>3 DEF Newest
  <2> HIDE DEF page
  <2>3. CASE UNCHANGED cached
    BY <2>1, <2>2, <2>3, <1>1, <1>5, StillKeeps, FoldsStep
  <2>4. CASE cached' = [cached EXCEPT ![p] = @ \union {entry}]
    <3>1. /\ entry \in Page /\ entry.limit = op[r].limit /\ entry.before = op[r].before
          /\ entry.page = page
      BY <1>2, <2>2 DEF Page
    <3> HIDE DEF entry
    <3>2. /\ cached' \in [Peers -> SUBSET Page]
          /\ \A q \in Peers : cached'[q] \subseteq cached[q] \union {entry}
                              /\ (q # p => cached'[q] = cached[q])
      BY <2>4, <3>1, <1>0 DEF CallsOK
    <3>3. op[r].before <= top[p]
      BY <1>0, <1>1 DEF ReaderOK
    <3>4. CacheOK'
      <4> SUFFICES ASSUME NEW q \in Peers, NEW e \in cached'[q]
                   PROVE  /\ e.page \subseteq sent[q]
                          /\ e.before <= top[q]
                          /\ WholeBelow(e.page, e.limit, e.before, alive[q])
        BY <1>1 DEF CacheOK, Still
      <4>1. CASE e \in cached[q]
        BY <4>1, <1>0 DEF CacheOK
      <4>2. CASE e = entry /\ q = p
        BY <4>2, <3>1, <3>3, <2>1, <2>2
      <4> QED  BY <4>1, <4>2, <3>2
    <3> QED  BY <3>2, <3>4, <2>1, <2>2, <1>1, <1>5, FoldsStep
  <2> QED  BY <2>3, <2>4, <1>5
<1> QED  BY <1>4, <1>5 DEF AskPage

\* A reader that does not hold the lock only relies on the range it loads.
LEMMA UnlockedKept ==
    ASSUME StoreInv, NEW s \in Readers, op'[s] = op[s], op[s].at \notin Locked,
           UNCHANGED <<top, sent, alive>>,
           op[s].at = "rows" => alive[op[s].peer] \intersect (op[s].lo..op[s].hi)
                                   \subseteq rows'[op[s].peer]
    PROVE  ReaderOK(s)'
<1>1. ReaderOK(s)
  BY DEF StoreInv
<1>2. op[s].at \notin {"page", "write", "mark", "fold"}
  BY DEF Locked
<1> QED  BY <1>1, <1>2 DEF ReaderOK, ReadsOK

\* The holder of the lock of p changes the tables of p only.
LEMMA OthersKept ==
    ASSUME StoreInv, TelegramOK', NEW r \in Readers, op[r].at \in Locked,
           \A s \in Readers \ {r} : op'[s] = op[s], op'[r].at # "rows",
           UNCHANGED <<top, sent, alive>>,
           \A q \in Peers \ {op[r].peer} : rows'[q] = rows[q] /\ sourced'[q] = sourced[q]
                                           /\ high'[q] = high[q],
           \A s \in Readers : op[s].at = "rows" /\ op[s].peer = op[r].peer =>
              alive[op[s].peer] \intersect (op[s].lo..op[s].hi) \subseteq rows'[op[s].peer],
           NEW s \in Readers \ {r}
    PROVE  ReaderOK(s)'
<1>0. /\ TelegramOK /\ TablesOK /\ CallsOK /\ LockOK /\ \A x \in Readers : ReaderOK(x)
  BY DEF StoreInv
<1>1. op'[s] = op[s] /\ s # r
  OBVIOUS
<1>2. CASE op[s].at \notin Locked /\ op[s].peer = op[r].peer
  BY <1>1, <1>2, UnlockedKept
<1>3. CASE op[s].at = "idle"
  BY <1>1, <1>3 DEF ReaderOK
<1>4. CASE op[s].at # "idle" /\ op[s].peer # op[r].peer
  <2>1. op[s].peer \in Peers
    BY <1>0, <1>4, CallFields
  <2>2. top[op[s].peer] \in Nat
    BY <2>1, <1>0 DEF TelegramOK
  <2>3. CalmAt(op[s].peer)
    BY <2>1, <2>2, <1>4 DEF CalmAt
  <2>4. RangesAt(op[s].peer)
    BY <1>1 DEF RangesAt
  <2> QED  BY <2>3, <2>4, <1>0, <1>1, CallKept
<1>5. ~ (op[s].at \in Locked /\ op[s].peer = op[r].peer)
  BY <1>0, <1>1 DEF LockOK
<1> QED  BY <1>2, <1>3, <1>4, <1>5

\* A step of the holder of a lock.
LEMMA HolderStep ==
    ASSUME StoreInv, Unserved, NEW r \in Readers, NEW c \in HistoryCall,
           op[r].at \in Locked, c.peer = op[r].peer, c.at # "rows",
           op' = [op EXCEPT ![r] = c],
           UNCHANGED <<top, sent, alive, heard, gone, owed, doomed, cached>>,
           \A q \in Peers \ {op[r].peer} : rows'[q] = rows[q] /\ sourced'[q] = sourced[q]
                                           /\ high'[q] = high[q],
           \A s \in Readers : op[s].at = "rows" /\ op[s].peer = op[r].peer =>
              alive[op[s].peer] \intersect (op[s].lo..op[s].hi) \subseteq rows'[op[s].peer],
           TablesOK', ReaderOK(r)', WindowHasNoHole', c.at = "served" => NoHole(c)
    PROVE  StoreInv'
<1>0. /\ TelegramOK /\ EventsOK /\ TablesOK /\ CallsOK /\ LockOK /\ CacheOK
  BY DEF StoreInv
<1>1. /\ op' \in [Readers -> {NoCall} \union HistoryCall]
      /\ \A s \in Readers : op'[s] = IF s = r THEN c ELSE op[s]
  BY <1>0 DEF CallsOK
<1>2. TelegramOK' /\ EventsOK' /\ CacheOK'
  BY <1>0 DEF TelegramOK, EventsOK, CacheOK
<1>3. CallsOK'
  BY <1>0, <1>1 DEF CallsOK
<1>4. LockOK'
  <2> SUFFICES ASSUME NEW x \in Readers, NEW y \in Readers,
                      op'[x].at \in Locked, op'[y].at \in Locked, op'[x].peer = op'[y].peer
               PROVE  x = y
    BY DEF LockOK
  <2>1. \A s \in Readers : op'[s].at \in Locked => op[s].at \in Locked /\ op'[s].peer = op[s].peer
    BY <1>1
  <2> QED  BY <2>1, <1>0 DEF LockOK
<1>5. ASSUME NEW s \in Readers  PROVE ReaderOK(s)'
  <2>1. CASE s = r
    BY <2>1
  <2>2. CASE s # r
    <3>1. /\ \A x \in Readers \ {r} : op'[x] = op[x]
          /\ op'[r].at # "rows"
      BY <1>1
    <3> QED  BY <3>1, <2>2, <1>2, OthersKept
  <2> QED  BY <2>1, <2>2
<1>6. PagesHaveNoHole'
  <2>1. \A s \in Readers : op'[s].at = "served" => NoHole(op'[s])
    BY <1>1 DEF Unserved
  <2> QED  BY <2>1 DEF PagesHaveNoHole, NoHole
<1> QED  BY <1>2, <1>3, <1>4, <1>5, <1>6 DEF StoreInv

LEMMA UpsertNextStep ==
    ASSUME StoreInv, Unserved, NEW r \in Readers, UpsertNext(r)
    PROVE  StoreInv'
<1> DEFINE p == op[r].peer
           i == Lowest(op[r].todo)
           c == [op[r] EXCEPT !.todo = @ \ {i}]
<1>0. /\ TelegramOK /\ TablesOK /\ CallsOK /\ ReaderOK(r)
      /\ \A s \in Readers : ReaderOK(s)
  BY DEF StoreInv
<1>1. /\ op[r].at \in {"write", "fold"} /\ op[r].todo # {} /\ op' = [op EXCEPT ![r] = c]
      /\ Upserted(p, i)
      /\ UNCHANGED <<top, sent, alive, heard, gone, owed, doomed, cached, sourced,
                     synced, low, high, fresh>>
  BY DEF UpsertNext, telegram, events, window
<1>2. p \in Peers /\ op[r].todo \in SUBSET Nat
  BY <1>0, <1>1, CallFields
<1>3. i \in op[r].todo
  BY <1>1, <1>2, LowestIsLeast
<1>4. op[r].page \subseteq sent[p] /\ op[r].todo \subseteq op[r].page
  BY <1>0, <1>1 DEF ReaderOK, WritesOK, FoldsOK
<1> HIDE DEF i
<1>5. /\ c \in HistoryCall /\ c.at = op[r].at /\ c.peer = p /\ c.page = op[r].page
      /\ c.limit = op[r].limit /\ c.before = op[r].before /\ c.todo = op[r].todo \ {i}
  <2>1. op[r] \in Writing \/ op[r] \in Folding
    BY <1>0, <1>1, CallShape
  <2> QED  BY <2>1 DEF HistoryCall, Writing, Folding
<1> HIDE DEF c
<1>6. op'[r] = c
  BY <1>0, <1>1 DEF CallsOK
<1>7. /\ rows' \in [Peers -> SUBSET Nat]
      /\ \A q \in Peers : /\ rows'[q] = IF q = p THEN rows[q] \union {i} ELSE rows[q]
                          /\ rows'[q] \subseteq sent[q]
                          /\ sourced[q] \subseteq rows'[q]
  BY <1>0, <1>1, <1>2, <1>3, <1>4, UpsertedRow
<1>8. TablesOK'
  BY <1>0, <1>1, <1>7 DEF TablesOK
<1>9. ReaderOK(r)'
  <2>0. op'[r].peer = p /\ c.at \in {"write", "fold"}
    BY <1>1, <1>5, <1>6
  <2>1. op[r].at = "write" => WritesOK(r, p)'
    <3> HAVE op[r].at = "write"
    <3>1. WritesOK(r, p)
      BY <1>0 DEF ReaderOK
    <3> QED  BY <3>1, <2>0, <1>1, <1>2, <1>4, <1>5, <1>6, <1>7 DEF WritesOK
  <2>2. op[r].at = "write" /\ op[r].page = {} => EmptyOK(r, p)'
    BY <1>1, <1>3, <1>4
  <2>3. op[r].at = "fold" => FoldsOK(r, p)'
    <3> HAVE op[r].at = "fold"
    <3>1. FoldsOK(r, p)
      BY <1>0 DEF ReaderOK
    <3> QED  BY <3>1, <2>0, <1>1, <1>2, <1>4, <1>5, <1>6, <1>7 DEF FoldsOK
  <2> QED  BY <2>0, <2>1, <2>2, <2>3, <1>5, <1>6 DEF ReaderOK
<1>10. WindowHasNoHole'
  <2>1. WindowHasNoHole
    BY DEF StoreInv
  <2> QED  BY <2>1, <1>0, <1>1, <1>7 DEF WindowHasNoHole, TablesOK
<1>11. \A s \in Readers : op[s].at = "rows" /\ op[s].peer = p =>
          alive[op[s].peer] \intersect (op[s].lo..op[s].hi) \subseteq rows'[op[s].peer]
  BY <1>0, <1>2, <1>7 DEF ReaderOK, ReadsOK
<1>12. op[r].at \in Locked /\ c.at \notin {"rows", "served"}
  BY <1>1, <1>5 DEF Locked
<1> QED
  BY <1>1, <1>5, <1>7, <1>8, <1>9, <1>10, <1>11, <1>12, HolderStep

\* A page that was found has every living message of the range it replaces.
LEMMA PrunedAreDead ==
    ASSUME StoreInv, NEW r \in Readers, op[r].at = "write", op[r].page # {},
           NEW i \in alive[op[r].peer]
    PROVE  i \notin (Edge(op[r].page, op[r].limit)..Highest(op[r].page)) \ op[r].page
<1> DEFINE p == op[r].peer
           page == op[r].page
<1> SUFFICES ASSUME i \in Edge(page, op[r].limit)..Highest(page), i \notin page  PROVE FALSE
  OBVIOUS
<1>0. TelegramOK /\ CallsOK /\ WritesOK(r, p)
  BY DEF StoreInv, ReaderOK
<1>1. p \in Peers /\ page \in SUBSET Nat /\ op[r].limit \in Nat \ {0}
  BY <1>0, CallFields
<1>2. top[p] \in Nat /\ \A j \in page : j <= top[p]
  BY <1>0, <1>1 DEF TelegramOK, WritesOK
<1>3. Highest(page) \in page /\ Edge(page, op[r].limit) \in Nat
  BY <1>1, <1>2, Edges
<1>4. Edge(page, op[r].limit) <= i /\ i <= Highest(page)
  BY <1>1, <1>3
<1> QED  BY <1>0, <1>3, <1>4 DEF WritesOK, Whole

LEMMA PruneStep ==
    ASSUME StoreInv, Unserved, NEW r \in Readers, Prune(r)
    PROVE  StoreInv'
<1> DEFINE p == op[r].peer
           page == op[r].page
           S == IF page = {} THEN rows[p] ELSE (Edge(page, op[r].limit)..Highest(page)) \ page
           c == [op[r] EXCEPT !.at = "mark"]
<1>0. /\ TelegramOK /\ TablesOK /\ CallsOK /\ ReaderOK(r) /\ WindowHasNoHole
      /\ \A s \in Readers : ReaderOK(s)
  BY DEF StoreInv
<1>1. /\ op[r].at = "write" /\ op[r].todo = {} /\ op' = [op EXCEPT ![r] = c]
      /\ Dropped(p, S)
      /\ UNCHANGED <<top, sent, alive, heard, gone, owed, doomed, cached,
                     synced, low, high, fresh>>
  BY DEF Prune, Goes, telegram, events, window
<1>2. p \in Peers /\ page \in SUBSET Nat /\ op[r].limit \in Nat \ {0}
  BY <1>0, <1>1, CallFields
<1>3. WritesOK(r, p) /\ (page = {} => EmptyOK(r, p))
  BY <1>0, <1>1 DEF ReaderOK
<1>4. /\ c \in HistoryCall /\ c.at = "mark" /\ c.peer = p /\ c.page = page
      /\ c.limit = op[r].limit /\ c.todo = {}
  <2>1. op[r] \in Writing
    BY <1>0, <1>1, CallShape
  <2> QED  BY <2>1, <1>1 DEF HistoryCall, Writing
<1>5. page # {} => \A i \in alive[p] : i \notin S
  BY <1>1, PrunedAreDead
<1> HIDE DEF c
<1>6. op'[r] = c
  BY <1>0, <1>1 DEF CallsOK
<1>7. /\ rows' \in [Peers -> SUBSET Nat] /\ sourced' \in [Peers -> SUBSET Nat]
      /\ \A q \in Peers : /\ rows'[q] = IF q = p THEN rows[q] \ S ELSE rows[q]
                          /\ sourced'[q] = IF q = p THEN sourced[q] \ S ELSE sourced[q]
                          /\ rows'[q] \subseteq sent[q]
                          /\ sourced'[q] \subseteq rows'[q]
  <2> HIDE DEF S
  <2> QED  BY <1>0, <1>1, <1>2, DroppedRows
<1>8. TablesOK'
  <2> HIDE DEF S
  <2> QED  BY <1>0, <1>1, <1>7 DEF TablesOK
<1>9. ReaderOK(r)'
  <2>1. alive[p] \intersect page \subseteq rows'[p]
    <3>1. alive[p] \intersect page \subseteq rows[p]
      BY <1>1, <1>3 DEF WritesOK
    <3> QED  BY <3>1, <1>2, <1>5, <1>7
  <2>2. WritesOK(r, p)'
    <3>1. op'[r].peer = p
      BY <1>4, <1>6
    <3> QED  BY <3>1, <2>1, <1>1, <1>3, <1>4, <1>6 DEF WritesOK
  <2>3. op'[r].at = "mark" /\ op'[r].peer = p
    BY <1>4, <1>6
  <2> QED  BY <2>2, <2>3 DEF ReaderOK
<1>10. WindowHasNoHole'
  <2> SUFFICES ASSUME NEW q \in synced, NEW i \in alive[q], i \in low[q]..high[q]
               PROVE  i \in rows'[q]
    BY <1>1 DEF WindowHasNoHole
  <2>1. q \in Peers /\ i \in rows[q] /\ low[q] \in Nat /\ high[q] \in Nat /\ i <= high[q]
    BY <1>0 DEF TablesOK, WindowHasNoHole
  <2>2. CASE q # p
    BY <2>1, <2>2, <1>7
  <2>3. CASE q = p /\ page # {}
    BY <2>1, <2>3, <1>5, <1>7
  <2>4. CASE q = p /\ page = {}
    <3>1. i > high[p] /\ i \in Nat
      BY <2>4, <1>0, <1>2, <1>3 DEF EmptyOK, TelegramOK
    <3> QED  BY <3>1, <2>1, <2>4
  <2> QED  BY <2>2, <2>3, <2>4
<1>11. \A s \in Readers : op[s].at = "rows" /\ op[s].peer = p =>
          alive[op[s].peer] \intersect (op[s].lo..op[s].hi) \subseteq rows'[op[s].peer]
  <2> SUFFICES ASSUME NEW s \in Readers, op[s].at = "rows", op[s].peer = p,
                      NEW i \in alive[p], i \in op[s].lo..op[s].hi
               PROVE  i \in rows'[p]
    OBVIOUS
  <2>1. i \in rows[p]
    BY <1>0 DEF ReaderOK, ReadsOK
  <2>2. CASE page # {}
    BY <2>1, <2>2, <1>2, <1>5, <1>7
  <2>3. CASE page = {}
    <3>1. op[s].lo \in Nat /\ op[s].hi \in Nat
      BY <1>0, CallFields
    <3>2. i \in Nat /\ i > op[s].hi
      BY <2>3, <1>0, <1>2, <1>3 DEF EmptyOK, TelegramOK
    <3> QED  BY <3>1, <3>2
  <2> QED  BY <2>2, <2>3
<1>12. op[r].at \in Locked /\ c.at \notin {"rows", "served"}
  BY <1>1, <1>4 DEF Locked
<1> HIDE DEF S
<1> QED
  BY <1>1, <1>4, <1>7, <1>8, <1>9, <1>10, <1>11, <1>12, HolderStep

LEMMA MarkStep ==
    ASSUME StoreInv, Unserved, NEW r \in Readers, Mark(r)
    PROVE  StoreInv'
<1> DEFINE p == op[r].peer
           page == op[r].page
           lo == Edge(page, op[r].limit)
           hi == IF page = {} THEN 0 ELSE Highest(page)
           c == [at |-> op[r].then, peer |-> p, limit |-> op[r].limit, before |-> 0]
<1>0. /\ TelegramOK /\ TablesOK /\ CallsOK /\ ReaderOK(r) /\ WindowHasNoHole
      /\ \A s \in Readers : ReaderOK(s)
  BY DEF StoreInv
<1>1. /\ op[r].at = "mark" /\ op' = [op EXCEPT ![r] = c]
      /\ synced' = synced \union {p} /\ fresh' = fresh \union {p}
      /\ low' = [low EXCEPT ![p] = lo] /\ high' = [high EXCEPT ![p] = hi]
      /\ UNCHANGED <<top, sent, alive, heard, gone, owed, doomed, cached, rows, sourced>>
  BY DEF Mark, telegram, events
<1>2. /\ p \in Peers /\ page \in SUBSET Nat /\ op[r].limit \in Nat \ {0}
      /\ op[r].limit \in Limits /\ op[r].then \in {"check", "load"}
  BY <1>0, <1>1, CallFields
<1>3. WritesOK(r, p)
  BY <1>0, <1>1 DEF ReaderOK
<1>4. c \in HistoryCall /\ c.at \in {"check", "load"} /\ c.peer = p
  BY <1>2 DEF HistoryCall, Waiting
<1>5. /\ top[p] \in Nat /\ alive[p] \in SUBSET Nat /\ \A i \in alive[p] : 0 < i
      /\ \A i \in page : i <= top[p]
  BY <1>0, <1>2, <1>3 DEF TelegramOK, WritesOK
<1>6. /\ lo \in Nat /\ hi \in Nat /\ lo <= hi /\ hi <= top[p]
      /\ page # {} => hi \in page
      /\ page = {} => hi = 0
  <2>1. /\ lo \in Nat
        /\ page = {} => lo = 0
        /\ page # {} => Highest(page) \in page /\ lo <= Highest(page)
    <3>1. /\ page \in SUBSET Nat /\ op[r].limit \in Nat \ {0}
          /\ top[p] \in Nat /\ \A i \in page : i <= top[p]
      BY <1>2, <1>5
    <3> HIDE DEF p, page
    <3> QED  BY ONLY <3>1, Edges
  <2>2. CASE page = {}
    BY <2>1, <2>2, <1>5
  <2>3. CASE page # {}
    <3>1. hi = Highest(page)
      BY <2>3
    <3>2. hi \in page /\ lo <= hi
      BY <3>1, <2>1, <2>3
    <3> QED  BY <3>2, <2>1, <2>3, <1>2, <1>5
  <2> QED  BY <2>2, <2>3
<1>7. alive[p] \intersect (lo..hi) \subseteq rows[p]
  <2> SUFFICES ASSUME NEW i \in alive[p], i \in lo..hi  PROVE i \in rows[p]
    OBVIOUS
  <2>1. i \in Nat /\ 0 < i /\ lo <= i /\ i <= hi
    BY <1>5, <1>6
  <2>2. page # {}
    BY <2>1, <1>6
  <2>3. i \in page
    BY <2>1, <2>2, <1>3, <1>6 DEF WritesOK, Whole
  <2> QED  BY <2>3, <1>1, <1>3 DEF WritesOK
<1> HIDE DEF c, lo, hi
<1>8. /\ low' \in [Peers -> Nat] /\ high' \in [Peers -> Nat]
      /\ \A q \in Peers : /\ low'[q] = IF q = p THEN lo ELSE low[q]
                          /\ high'[q] = IF q = p THEN hi ELSE high[q]
  BY <1>0, <1>1, <1>6 DEF TablesOK
<1>9. TablesOK'
  <2>1. ASSUME NEW q \in Peers
        PROVE  /\ low'[q] <= high'[q] /\ high'[q] <= top'[q]
               /\ q \notin synced' => high'[q] = 0
    BY <1>0, <1>1, <1>6, <1>8 DEF TablesOK
  <2>2. synced' \subseteq Peers /\ fresh' \subseteq synced'
    BY <1>0, <1>1, <1>2 DEF TablesOK
  <2> QED  BY <2>1, <2>2, <1>0, <1>1, <1>8 DEF TablesOK
<1>10. op'[r] = c
  BY <1>0, <1>1 DEF CallsOK
<1>11. ReaderOK(r)'
  BY <1>4, <1>10 DEF ReaderOK
<1>12. WindowHasNoHole'
  <2> SUFFICES ASSUME NEW q \in synced', NEW i \in alive[q], i \in low'[q]..high'[q]
               PROVE  i \in rows[q]
    BY <1>1 DEF WindowHasNoHole
  <2>1. CASE q = p
    BY <2>1, <1>2, <1>7, <1>8
  <2>2. CASE q # p
    <3>1. q \in synced /\ q \in Peers
      BY <2>2, <1>0, <1>1 DEF TablesOK
    <3>2. low'[q] = low[q] /\ high'[q] = high[q]
      BY <3>1, <2>2, <1>8
    <3> QED  BY <3>1, <3>2, <1>0 DEF WindowHasNoHole
  <2> QED  BY <2>1, <2>2
<1>13. \A s \in Readers : op[s].at = "rows" /\ op[s].peer = p =>
          alive[op[s].peer] \intersect (op[s].lo..op[s].hi) \subseteq rows'[op[s].peer]
  BY <1>0, <1>1 DEF ReaderOK, ReadsOK
<1>14. op[r].at \in Locked /\ c.at \notin {"rows", "served"}
  BY <1>1, <1>4 DEF Locked
<1> QED
  BY <1>1, <1>4, <1>8, <1>9, <1>11, <1>12, <1>13, <1>14, HolderStep

LEMMA AbsorbStep ==
    ASSUME StoreInv, Unserved, NEW r \in Readers, Absorb(r)
    PROVE  StoreInv'
<1> DEFINE p == op[r].peer
           page == op[r].page
           b == op[r].before
           edge == Edge(page, op[r].limit)
           c == [at |-> "served", peer |-> p, limit |-> op[r].limit, before |-> b,
                 ids |-> page, upto |-> b - 1]
<1>0. /\ TelegramOK /\ TablesOK /\ CallsOK /\ ReaderOK(r) /\ WindowHasNoHole
      /\ \A s \in Readers : ReaderOK(s)
  BY DEF StoreInv
<1>1. /\ op[r].at = "fold" /\ op[r].todo = {} /\ op' = [op EXCEPT ![r] = c]
      /\ low' = IF InWindow(p, b) /\ edge < low[p] THEN [low EXCEPT ![p] = edge] ELSE low
      /\ UNCHANGED <<top, sent, alive, heard, gone, owed, doomed, cached, rows, sourced,
                     synced, high, fresh>>
  BY DEF Absorb, Serves, telegram, events
<1>2. /\ p \in Peers /\ page \in SUBSET Nat /\ op[r].limit \in Nat \ {0}
      /\ op[r].limit \in Limits /\ b \in Nat
  BY <1>0, <1>1, CallFields
<1>3. FoldsOK(r, p)
  BY <1>0, <1>1 DEF ReaderOK
<1>4. /\ top[p] \in Nat /\ alive[p] \in SUBSET Nat
      /\ \A i \in page : i <= top[p]
      /\ b > 0 /\ b - 1 \in Nat
      /\ alive[p] \intersect page \subseteq rows[p]
  BY <1>0, <1>1, <1>2, <1>3 DEF TelegramOK, FoldsOK
<1>5. /\ edge \in Nat /\ \A i \in page : edge <= i
      /\ Cardinality(page) < op[r].limit => edge = 0
  BY <1>2, <1>4, Edges DEF Edge
<1>6. \A i \in alive[p] : edge <= i /\ i < b => i \in page
  BY <1>3 DEF FoldsOK, WholeBelow
<1>7. /\ c \in HistoryCall /\ c.at = "served" /\ c.peer = p /\ c.ids = page
      /\ c.upto = b - 1 /\ c.limit = op[r].limit
  BY <1>2, <1>4 DEF HistoryCall, Served
<1> HIDE DEF edge
<1>8. NoHole(c)
  <2>1. ASSUME NEW i \in alive[p], NEW j \in page, i <= b - 1, j <= i  PROVE i \in page
    <3>1. i \in Nat /\ j \in Nat /\ edge <= j
      BY <1>2, <1>4, <1>5
    <3>2. edge <= i /\ i < b
      BY <3>1, <2>1, <1>2, <1>5
    <3> QED  BY <3>2, <1>6
  <2>2. ASSUME Cardinality(page) < op[r].limit, NEW i \in alive[p], i <= b - 1
        PROVE  i \in page
    <3>1. i \in Nat
      BY <1>4
    <3>2. edge <= i /\ i < b
      BY <3>1, <2>2, <1>2, <1>5
    <3> QED  BY <3>2, <1>6
  <2> HIDE DEF c
  <2> QED  BY <2>1, <2>2, <1>7 DEF NoHole
<1> HIDE DEF c
<1>9. /\ low' \in [Peers -> Nat]
      /\ \A q \in Peers : low'[q] = low[q] \/ (q = p /\ InWindow(p, b) /\ low'[p] = edge /\ edge < low[p])
  BY <1>0, <1>1, <1>5 DEF TablesOK
<1>10. TablesOK'
  <2>1. ASSUME NEW q \in Peers  PROVE low'[q] <= high[q]
    BY <1>0, <1>5, <1>9 DEF TablesOK
  <2> QED  BY <2>1, <1>0, <1>1, <1>9 DEF TablesOK
<1>11. op'[r] = c
  BY <1>0, <1>1 DEF CallsOK
<1>12. ReaderOK(r)'
  BY <1>7, <1>11 DEF ReaderOK
<1>13. WindowHasNoHole'
  <2> SUFFICES ASSUME NEW q \in synced, NEW i \in alive[q], i \in low'[q]..high[q]
               PROVE  i \in rows[q]
    BY <1>1 DEF WindowHasNoHole
  <2>1. q \in Peers /\ low[q] \in Nat /\ high[q] \in Nat /\ i \in Nat
    BY <1>0 DEF TablesOK, TelegramOK
  <2>2. CASE low'[q] = low[q]
    BY <2>2, <1>0 DEF WindowHasNoHole
  <2>3. CASE q = p /\ InWindow(p, b) /\ low'[p] = edge /\ i < low[p]
    <3>1. edge <= i /\ i < b
      BY <2>1, <2>3, <1>2, <1>5 DEF InWindow
    <3> QED  BY <3>1, <2>3, <1>4, <1>6
  <2>4. CASE ~ (i < low[q])
    <3>1. i \in low[q]..high[q]
      BY <2>1, <2>4, <1>5, <1>9
    <3> QED  BY <3>1, <1>0 DEF WindowHasNoHole
  <2> QED  BY <2>1, <2>2, <2>3, <2>4, <1>9
<1>14. \A s \in Readers : op[s].at = "rows" /\ op[s].peer = p =>
          alive[op[s].peer] \intersect (op[s].lo..op[s].hi) \subseteq rows'[op[s].peer]
  BY <1>0, <1>1 DEF ReaderOK, ReadsOK
<1>15. op[r].at \in Locked /\ c.at # "rows"
  BY <1>1, <1>7 DEF Locked
<1> QED
  BY <1>1, <1>7, <1>8, <1>10, <1>12, <1>13, <1>14, <1>15, HolderStep

LEMMA RestartStep ==
    ASSUME StoreInv, Restart
    PROVE  StoreInv'
<1>0. /\ TelegramOK /\ TablesOK /\ CallsOK /\ WindowHasNoHole
  BY DEF StoreInv
<1>1. /\ heard' = {} /\ gone' = {} /\ doomed' = {} /\ owed' = {} /\ fresh' = {}
      /\ cached' = [p \in Peers |-> {}] /\ op' = [r \in Readers |-> NoCall]
      /\ UNCHANGED <<top, sent, alive, rows, sourced, synced, low, high>>
  BY DEF Restart, telegram, window
<1>2. \A r \in Readers : op'[r].at = "idle"
  BY <1>1 DEF NoCall
<1>3. TelegramOK' /\ EventsOK' /\ TablesOK' /\ WindowHasNoHole'
  BY <1>0, <1>1 DEF TelegramOK, EventsOK, TablesOK, WindowHasNoHole
<1>4. CallsOK' /\ CacheOK'
  BY <1>1 DEF CallsOK, CacheOK
<1>5. LockOK' /\ PagesHaveNoHole' /\ \A r \in Readers : ReaderOK(r)'
  BY <1>2 DEF LockOK, PagesHaveNoHole, ReaderOK, Locked
<1> QED  BY <1>3, <1>4, <1>5 DEF StoreInv

-----------------------------------------------------------------------------
(* The theorems *)

LEMMA InitStoreInv ==
    ASSUME Init
    PROVE  StoreInv
<1>1. \A r \in Readers : op[r] = NoCall /\ op[r].at = "idle"
  BY DEF Init, NoCall
<1>2. TelegramOK /\ EventsOK /\ TablesOK /\ WindowHasNoHole
  BY DEF Init, TelegramOK, EventsOK, TablesOK, WindowHasNoHole
<1>3. CallsOK /\ CacheOK
  BY DEF Init, CallsOK, CacheOK
<1>4. LockOK /\ PagesHaveNoHole /\ \A r \in Readers : ReaderOK(r)
  BY <1>1 DEF LockOK, PagesHaveNoHole, ReaderOK, Locked
<1> QED  BY <1>2, <1>3, <1>4 DEF StoreInv

LEMMA ReaderStep ==
    ASSUME StoreInv, Unserved, NEW r \in Readers, Reader(r)
    PROVE  StoreInv'
<1>1. ASSUME NEW p \in Peers, NEW l \in Limits, NEW o, Call(r, p, l, o)
      PROVE  StoreInv'
  BY <1>1, CallStep
<1>2. CASE TakeNewest(r)
  <2> DEFINE x == IF Short(op[r].peer, op[r].limit) THEN "refill"
                  ELSE IF op[r].peer \in fresh THEN "load" ELSE "since"
  <2>1. /\ op[r].at = "wait" /\ Free(op[r].peer) /\ Goes(r, x) /\ Still /\ UNCHANGED cached
    BY <1>2 DEF TakeNewest, Still, telegram, events, window
  <2>2. x \in {"refill", "load", "since", "full", "page"} /\ x # "page"
    OBVIOUS
  <2> HIDE DEF x
  <2> QED  BY <2>1, <2>2, MovesOn
<1>3. CASE CheckAgain(r)
  <2> DEFINE x == IF op[r].peer \in fresh THEN "load" ELSE "since"
  <2>1. /\ op[r].at = "check" /\ Goes(r, x) /\ Still /\ UNCHANGED cached
    BY <1>3 DEF CheckAgain, Still, telegram, events, window
  <2>2. x \in {"refill", "load", "since", "full", "page"} /\ x # "page"
    OBVIOUS
  <2> HIDE DEF x
  <2> QED  BY <2>1, <2>2, MovesOn
<1>4. CASE Fail(r)
  <2>1. op' = [op EXCEPT ![r] = NoCall] /\ Still /\ UNCHANGED cached
    BY <1>4 DEF Fail, Still, telegram, events, window
  <2> QED  BY <2>1, DropsCall
<1> QED
  BY <1>1, <1>2, <1>3, <1>4, FetchSinceStep, FetchFullStep, UpsertNextStep, PruneStep,
     MarkStep, LoadRowStep, LoadRowsStep, TakeOlderStep, AskPageStep, AbsorbStep
     DEF Reader

LEMMA NextStoreInv ==
    ASSUME StoreInv, [Next]_vars
    PROVE  StoreInv'
<1>1. ASSUME NEW r \in Readers, Returns(r)  PROVE StoreInv'
  <2>1. op' = [op EXCEPT ![r] = NoCall] /\ Still /\ UNCHANGED cached
    BY <1>1 DEF Returns, Still, telegram, events, window
  <2> QED  BY <2>1, DropsCall
<1>2. ASSUME Unserved, NEW p \in Peers, Environment(p)  PROVE StoreInv'
  BY <1>2, SendStep, ForgetStep, DeleteStep DEF Environment
<1>3. ASSUME Unserved, NEW p \in Peers, Consumers(p)  PROVE StoreInv'
  BY <1>3, ConsumersStep
<1>4. ASSUME Unserved, ClearTranslations \/ DeleteRow \/ Restart  PROVE StoreInv'
  BY <1>4, ClearStep, DeleteRowStep, RestartStep
<1>5. ASSUME Unserved, NEW r \in Readers, Reader(r)  PROVE StoreInv'
  BY <1>5, ReaderStep
<1>6. CASE UNCHANGED vars
  <2>1. UNCHANGED <<top, sent, alive, heard, gone, owed, doomed, cached, rows, sourced,
                    synced, low, high, fresh, op>>
    BY <1>6 DEF vars
  <2>2. TelegramOK' /\ EventsOK' /\ TablesOK' /\ CallsOK' /\ LockOK' /\ CacheOK'
    BY <2>1 DEF StoreInv, TelegramOK, EventsOK, TablesOK, CallsOK, LockOK, CacheOK
  <2>3. \A r \in Readers : ReaderOK(r)'
    BY <2>1 DEF StoreInv, ReaderOK, WritesOK, EmptyOK, FoldsOK, ReadsOK
  <2>4. WindowHasNoHole' /\ PagesHaveNoHole'
    BY <2>1 DEF StoreInv, WindowHasNoHole, PagesHaveNoHole
  <2> QED  BY <2>2, <2>3, <2>4 DEF StoreInv
<1> QED  BY <1>1, <1>2, <1>3, <1>4, <1>5, <1>6 DEF Next, Unserved

\* The invariant holds in every state, for any dialogs, readers and page sizes.
THEOREM Invariance == Spec => []StoreInv
<1>1. Init => StoreInv
  BY InitStoreInv
<1>2. StoreInv /\ [Next]_vars => StoreInv'
  BY NextStoreInv
<1> QED  BY <1>1, <1>2, PTL DEF Spec

\* Neither the window of message_sync nor a page history() returns has a hole,
\* whatever refreshes, older pages, live events, deletions, failures and
\* restarts came in between (_replace_window, _history_before, apply_deletion).
THEOREM NoHoles == Spec => []ReadsHaveNoHole
<1>1. StoreInv => ReadsHaveNoHole
  BY DEF StoreInv, ReadsHaveNoHole
<1> QED  BY <1>1, Invariance, PTL

\* The source text of a translated send is kept as long as the message lives:
\* only clear_all_translations takes it from a message Telegram still has.
THEOREM KeepsSources == Spec => SourceIsKept
<1> DEFINE Keeps == ClearTranslations \/
                    \A p \in Peers : sourced[p] \intersect alive'[p] \subseteq sourced'[p]
<1>1. ASSUME StoreInv, [Next]_vars  PROVE Keeps \/ UNCHANGED vars
  <2>0. TelegramOK /\ EventsOK /\ TablesOK /\ CallsOK /\ \A r \in Readers : ReaderOK(r)
    BY <1>1 DEF StoreInv
  <2>1. ASSUME NEW p \in Peers, NEW S, Dropped(p, S), \A i \in alive[p] : i \notin S \/ i \notin sourced[p],
               UNCHANGED alive
        PROVE  Keeps
    <3>1. \A q \in Peers : sourced'[q] = IF q = p THEN sourced[q] \ S ELSE sourced[q]
      BY <2>0, <2>1, DroppedRows
    <3> QED  BY <3>1, <2>1
  <2>2. ASSUME UNCHANGED sourced  PROVE Keeps
    BY <2>2
  <2>3. ASSUME NEW p \in Peers, Environment(p)  PROVE Keeps
    BY <2>2, <2>3 DEF Environment, Send, Forget, Delete
  <2>4. ASSUME NEW p \in Peers, Consumers(p)  PROVE Keeps
    <3>1. ASSUME NEW i \in Ids, RecordOutgoing(p, i)  PROVE Keeps
      BY <3>1, <2>0 DEF RecordOutgoing, TablesOK
    <3>2. ASSUME NEW i \in Ids, ApplyDeletion(p, i)  PROVE Keeps
      <4>1. i \notin alive[p]
        BY <3>2, <2>0 DEF ApplyDeletion, EventsOK
      <4>2. UNCHANGED alive
        BY <3>2 DEF ApplyDeletion, telegram
      <4>3. CASE p \in Channels
        <5>1. Dropped(p, {i})
          BY <3>2, <4>3 DEF ApplyDeletion
        <5> QED  BY <5>1, <4>1, <4>2, <2>1
      <4>4. CASE p \notin Channels
        BY <3>2, <4>4, <2>2 DEF ApplyDeletion
      <4> QED  BY <4>3, <4>4
    <3> QED  BY <3>1, <3>2, <2>2, <2>4 DEF Consumers, Lapse, Ingest, Translate
  <2>5. ASSUME DeleteRow  PROVE Keeps
    <3>1. PICK d \in doomed : Dropped(d[1], {d[2]})
      BY <2>5 DEF DeleteRow
    <3>2. d[1] \in Peers /\ d[2] \notin alive[d[1]]
      BY <3>1, <2>0 DEF EventsOK
    <3>3. UNCHANGED alive
      BY <2>5 DEF DeleteRow, telegram
    <3> QED  BY <3>1, <3>2, <3>3, <2>1
  <2>6. ASSUME NEW r \in Readers, Prune(r)  PROVE Keeps
    <3> DEFINE p == op[r].peer
               page == op[r].page
               S == IF page = {} THEN rows[p]
                    ELSE (Edge(page, op[r].limit)..Highest(page)) \ page
    <3>1. op[r].at = "write" /\ Dropped(p, S) /\ UNCHANGED alive
      BY <2>6 DEF Prune, telegram
    <3>2. p \in Peers
      BY <3>1, <2>0, CallFields
    <3>3. \A i \in alive[p] : i \notin S \/ i \notin sourced[p]
      <4>1. CASE page = {}
        BY <4>1, <3>1, <2>0 DEF ReaderOK, EmptyOK
      <4>2. CASE page # {}
        BY <4>2, <3>1, <1>1, PrunedAreDead
      <4> QED  BY <4>1, <4>2
    <3> HIDE DEF S
    <3> QED  BY <3>1, <3>2, <3>3, <2>1
  <2>7. ASSUME NEW r \in Readers, Reader(r)  PROVE Keeps
    BY <2>2, <2>6, <2>7
       DEF Reader, Call, TakeNewest, CheckAgain, FetchSince, FetchFull, UpsertNext, Mark,
           LoadRow, LoadRows, TakeOlder, AskPage, Absorb, Fail
  <2>8. ASSUME NEW r \in Readers, Returns(r)  PROVE Keeps
    BY <2>2, <2>8 DEF Returns
  <2>9. ASSUME ClearTranslations \/ Restart  PROVE Keeps
    BY <2>2, <2>9 DEF Restart
  <2> QED  BY <2>3, <2>4, <2>5, <2>7, <2>8, <2>9, <1>1 DEF Next
<1>2. StoreInv /\ [Next]_vars => [Keeps]_vars
  BY <1>1
<1> QED  BY <1>2, Invariance, PTL DEF Spec, SourceIsKept
=============================================================================
