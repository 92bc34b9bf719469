----------------------------- MODULE CoreProofs -----------------------------
(***************************************************************************)
(* Proofs about two parts of the core, for any accounts, commands, tabs    *)
(* and bounds.  core/auth.py: a new account never replaces a session       *)
(* (SessionFiles), and the code the login wizard asks for is the live one  *)
(* (Login).  core/watch.py, core/events.py (DeletionWatcher): copies are   *)
(* of deleted messages of ours, each copied once at most, and a subscriber *)
(* that is behind loses its oldest events.                                 *)
(***************************************************************************)
EXTENDS SessionFiles, Login, DeletionWatcher, TLAPS

InSection(c) == pc[c] \in {"replace", "link", "publish", "exists", "unlink"}

\* A command is in its section only with the lock, and what it found when it
\* looked still holds when it publishes.
SectionsOK ==
    /\ DOMAIN pc = Commands
    /\ \A c \in Commands : InSection(c) => lock = c
    /\ \A c \in Commands : pc[c] = "publish" => file = Absent

FilesInv == SectionsOK /\ CreatesOnlyNew

-----------------------------------------------------------------------------
\* Who is in a section is the only one.
LEMMA AloneInSection ==
    ASSUME FilesInv, NEW c \in Commands, NEW d \in Commands, InSection(c), InSection(d)
    PROVE  c = d
  BY DEF FilesInv, SectionsOK

\* A command that leaves its section, or never was in one, disturbs none, as
\* long as the file stays or it had the lock.
LEMMA LeavingKeeps ==
    ASSUME FilesInv, NEW c \in Commands, lock' = Unlocked(c), GoesTo(c, "done"),
           file' = file \/ InSection(c)
    PROVE  SectionsOK'
  <1>1. DOMAIN pc' = Commands /\ pc'[c] = "done"
    BY DEF FilesInv, SectionsOK, GoesTo
  <1>2. \A d \in Commands \ {c} : pc'[d] = pc[d]
    BY DEF FilesInv, SectionsOK, GoesTo
  <1>3. ASSUME NEW d \in Commands, InSection(d)' PROVE lock' = d
    <2>1. d # c /\ InSection(d)
      BY <1>1, <1>2, <1>3 DEF InSection
    <2> QED BY <2>1 DEF FilesInv, SectionsOK, Unlocked
  <1>4. ASSUME NEW d \in Commands, pc'[d] = "publish" PROVE file' = Absent
    <2>1. d # c /\ pc[d] = "publish"
      BY <1>1, <1>2, <1>4
    <2>2. file = Absent /\ ~InSection(c)
      BY <2>1, AloneInSection DEF FilesInv, SectionsOK, InSection
    <2> QED BY <2>2
  <1> QED BY <1>1, <1>3, <1>4 DEF SectionsOK

\* A step outside the sections and of no lock disturbs nothing.
LEMMA OutsideKeeps ==
    ASSUME FilesInv, NEW c \in Commands, NEW step \in {"start", "save", "create", "delete", "done"},
           GoesTo(c, step), ~InSection(c), UNCHANGED <<file, lock, made>>
    PROVE  FilesInv'
  <1>1. DOMAIN pc' = Commands /\ pc'[c] = step /\ \A d \in Commands \ {c} : pc'[d] = pc[d]
    BY DEF FilesInv, SectionsOK, GoesTo
  <1> QED BY <1>1 DEF FilesInv, SectionsOK, InSection, CreatesOnlyNew

LEMMA FilesInitially == FilesInit => FilesInv
  BY DEF FilesInit, FilesInv, SectionsOK, InSection, CreatesOnlyNew

LEMMA FilesStepKeeps == ASSUME FilesInv, [FilesNext]_fileVars PROVE FilesInv'
  <1>1. ASSUME NEW c \in Commands, BeginSave(c) PROVE FilesInv'
    BY <1>1, OutsideKeeps DEF BeginSave, InSection
  <1>2. ASSUME NEW c \in Commands, BeginCreate(c) PROVE FilesInv'
    BY <1>2, OutsideKeeps DEF BeginCreate, InSection
  <1>3. ASSUME NEW c \in Commands, Load(c) PROVE FilesInv'
    BY <1>3, OutsideKeeps DEF Load, InSection
  <1>4. ASSUME NEW c \in Commands, BeginRemove(c) PROVE FilesInv'
    BY <1>4, OutsideKeeps DEF BeginRemove, InSection
  <1>5. ASSUME NEW c \in Commands, TakeLock(c) PROVE FilesInv'
    <2>1. \A d \in Commands : ~InSection(d)
      BY <1>5, CommandsAssumption DEF TakeLock, LockIsFree, FilesInv, SectionsOK
    <2>2. DOMAIN pc' = Commands /\ \A d \in Commands \ {c} : pc'[d] = pc[d]
      BY <1>5 DEF TakeLock, GoesTo, FilesInv, SectionsOK
    <2>3. pc'[c] = "publish" => file = Absent
      BY <1>5 DEF TakeLock, GoesTo, FilesInv, SectionsOK
    <2> QED BY <1>5, <2>1, <2>2, <2>3 DEF TakeLock, FilesInv, SectionsOK, InSection, CreatesOnlyNew
  <1>6. ASSUME NEW c \in Commands, Replace(c) \/ Unlink(c) PROVE FilesInv'
    BY <1>6, LeavingKeeps DEF Replace, Unlink, Released, InSection, FilesInv, CreatesOnlyNew
  <1>7. ASSUME NEW c \in Commands, Create(c) PROVE FilesInv'
    <2>1. SectionsOK'
      BY <1>7, LeavingKeeps DEF Create, Released, InSection
    <2>2. made' = made \/ (file = Absent /\ made' = made \union {[by |-> c, met |-> file]})
      BY <1>7 DEF Create, FilesInv, SectionsOK
    <2> QED BY <2>1, <2>2 DEF FilesInv, CreatesOnlyNew
  <1>8. ASSUME NEW c \in Commands, CreateRefused(c) \/ WriteFails(c) PROVE FilesInv'
    BY <1>8, LeavingKeeps DEF CreateRefused, WriteFails, Released, FilesInv, CreatesOnlyNew
  <1>9. ASSUME NEW c \in Commands, Dies(c) PROVE FilesInv'
    BY <1>9, LeavingKeeps DEF Dies, FilesInv, CreatesOnlyNew
  <1>10. ASSUME NEW c \in Commands, Again(c) PROVE FilesInv'
    BY <1>10, OutsideKeeps DEF Again, InSection
  <1>11. ASSUME UNCHANGED fileVars PROVE FilesInv'
    BY <1>11 DEF fileVars, FilesInv, SectionsOK, InSection, CreatesOnlyNew
  <1> QED
    BY <1>1, <1>2, <1>3, <1>4, <1>5, <1>6, <1>7, <1>8, <1>9, <1>10, <1>11 DEF FilesNext

\* CreatesOnlyNew: save_session_if_absent replaces no session, however many
\* commands write, read and delete, and whether or not there are hard links.
THEOREM AccountsAreOnlyAdded == FilesSpec => []CreatesOnlyNew
  BY FilesInitially, FilesStepKeeps, PTL DEF FilesSpec, FilesInv

-----------------------------------------------------------------------------
(* The login wizard *)

Asking == {"code", "password"}
Kinds == {"phone", "resend", "code", "password"}

LoginTypeOK ==
    /\ asked \in Seq([tab : Tabs, kind : Kinds, hash : Nat])
    /\ flow \in [phone : BOOLEAN, hash : Nat]
    /\ server \in [hash : Nat, ready : BOOLEAN, authorized : BOOLEAN]

\* Until the account is authorized the flow keeps the last hash, unless its
\* answer was cut off; afterwards nothing is asked for.
FlowIsLive ==
    /\ wizard = "done" => server.authorized
    /\ wizard \in Asking => ~server.authorized /\ flow.hash # NoHash
    /\ ~server.authorized => flow.hash = server.hash \/ cut

\* A code on its way was entered for a hash.
CodesHaveHash ==
    ~server.authorized =>
        \A i \in 1..Len(asked) : asked[i].kind = "code" => flow.hash # NoHash

LoginInv == LoginTypeOK /\ FlowIsLive /\ CodesHaveHash

-----------------------------------------------------------------------------
LEMMA LoginInitially == LoginInit => LoginInv
  BY DEF LoginInit, LoginInv, LoginTypeOK, FlowIsLive, CodesHaveHash, NewFlow, NoHash, Asking

\* A request is appended: of a code only while the wizard asks for one.
LEMMA AskKeeps ==
    ASSUME LoginInv, NEW tab \in Tabs, NEW kind \in Kinds, NEW hash \in Nat,
           Ask(tab, kind, hash), kind = "code" => flow.hash # NoHash,
           UNCHANGED <<flow, server>>
    PROVE  LoginTypeOK' /\ CodesHaveHash'
  <1>1. asked' = Append(asked, [tab |-> tab, kind |-> kind, hash |-> hash])
    BY DEF Ask
  <1>2. LoginTypeOK'
    BY <1>1 DEF LoginInv, LoginTypeOK
  <1>3. \A i \in 1..Len(asked') : asked'[i] = IF i <= Len(asked) THEN asked[i]
                                  ELSE [tab |-> tab, kind |-> kind, hash |-> hash]
    BY <1>1 DEF LoginInv, LoginTypeOK
  <1>4. Len(asked') = Len(asked) + 1 /\ Len(asked) \in Nat
    BY <1>1 DEF LoginInv, LoginTypeOK
  <1>5. CodesHaveHash'
    <2> SUFFICES ASSUME ~server.authorized, NEW i \in 1..Len(asked'), asked'[i].kind = "code"
                 PROVE  flow.hash # NoHash
      BY DEF CodesHaveHash
    <2>1. CASE i <= Len(asked)
      BY <1>3, <1>4, <2>1 DEF LoginInv, CodesHaveHash
    <2>2. CASE ~(i <= Len(asked))
      BY <1>3, <2>2
    <2> QED BY <2>1, <2>2
  <1> QED BY <1>2, <1>5

\* What is still on its way after an answer was on its way before.
LEMMA AnsweredKeeps ==
    ASSUME LoginInv, Answered
    PROVE  /\ asked' \in Seq([tab : Tabs, kind : Kinds, hash : Nat])
           /\ ~server.authorized /\ Head(asked).kind = "code" => flow.hash # NoHash
           /\ \A i \in 1..Len(asked') : i + 1 \in 1..Len(asked) /\ asked'[i] = asked[i + 1]
  <1>1. asked # <<>> /\ asked' = Tail(asked) /\ asked \in Seq([tab : Tabs, kind : Kinds, hash : Nat])
    BY DEF Answered, LoginInv, LoginTypeOK
  <1>2. 1 \in 1..Len(asked) /\ Head(asked) = asked[1]
    BY <1>1
  <1>3. ~server.authorized /\ Head(asked).kind = "code" => flow.hash # NoHash
    BY <1>2 DEF LoginInv, CodesHaveHash
  <1>4. asked' \in Seq([tab : Tabs, kind : Kinds, hash : Nat])
    BY <1>1
  <1>6. Len(asked') = Len(asked) - 1 /\ Len(asked) \in Nat
    BY <1>1
  <1>7. \A i \in 1..Len(asked') : asked'[i] = asked[i + 1]
    BY <1>1
  <1>8. \A i \in 1..Len(asked') : i + 1 \in 1..Len(asked)
    BY <1>6
  <1> QED BY <1>3, <1>4, <1>7, <1>8

\* Telegram's account after it has sent a code.
LEMMA NewCode ==
    ASSUME LoginTypeOK, server' = [server EXCEPT !.hash = @ + 1, !.ready = FALSE]
    PROVE  /\ server' \in [hash : Nat, ready : BOOLEAN, authorized : BOOLEAN]
           /\ server'.hash = server.hash + 1 /\ server'.authorized = server.authorized
  <1>1. server = [hash |-> server.hash, ready |-> server.ready, authorized |-> server.authorized]
    BY DEF LoginTypeOK
  <1>2. server' = [hash |-> server.hash + 1, ready |-> FALSE, authorized |-> server.authorized]
    BY <1>1
  <1>3. server.hash \in Nat /\ server.authorized \in BOOLEAN
    BY DEF LoginTypeOK
  <1>4. server.hash + 1 \in Nat
    BY <1>3
  <1>5. server'.hash = server.hash + 1 /\ server'.authorized = server.authorized
    BY <1>2
  <1>6. server' \in [hash : Nat, ready : BOOLEAN, authorized : BOOLEAN]
    BY <1>2, <1>3, <1>4
  <1> QED BY <1>5, <1>6

LEMMA LoginStepKeeps == ASSUME LoginInv, [LoginNext]_loginVars PROVE LoginInv'
  <1>1. ASSUME NEW tab \in Tabs, SubmitPhone(tab) PROVE LoginInv'
    BY <1>1, AskKeeps DEF SubmitPhone, LoginInv, FlowIsLive, Kinds, NoHash, Asking
  <1>2. ASSUME NEW tab \in Tabs, Resend(tab) PROVE LoginInv'
    BY <1>2, AskKeeps DEF Resend, LoginInv, FlowIsLive, Kinds, LoginTypeOK
  <1>3. ASSUME NEW tab \in Tabs, SubmitCode(tab) PROVE LoginInv'
    BY <1>3, AskKeeps DEF SubmitCode, LoginInv, FlowIsLive, Kinds, LoginTypeOK, Asking
  <1>4. ASSUME NEW tab \in Tabs, SubmitPassword(tab) PROVE LoginInv'
    BY <1>4, AskKeeps DEF SubmitPassword, LoginInv, FlowIsLive, Kinds, NoHash
  <1>5. ASSUME OpenForm PROVE LoginInv'
    <2>1. UNCHANGED <<asked, server, cut>>
      BY <1>5 DEF OpenForm
    <2>2. CASE wizard = "done"
      <3>1. wizard' = "phone" /\ flow' = [phone |-> FALSE, hash |-> 0] /\ server.authorized
        BY <1>5, <2>2 DEF OpenForm, MayReset, NewFlow, NoHash, LoginInv, FlowIsLive
      <3> QED BY <2>1, <3>1 DEF LoginInv, LoginTypeOK, FlowIsLive, CodesHaveHash, Asking
    <2>3. CASE wizard # "done"
      <3>1. UNCHANGED <<wizard, flow>>
        BY <1>5, <2>3 DEF OpenForm, MayReset
      <3> QED BY <2>1, <3>1 DEF LoginInv, LoginTypeOK, FlowIsLive, CodesHaveHash
    <2> QED BY <2>2, <2>3
  <1>6. ASSUME CodeSent PROVE LoginInv'
    <2>1. /\ ~server.authorized /\ server.hash \in Nat
          /\ server' = [server EXCEPT !.hash = @ + 1, !.ready = FALSE]
          /\ flow' = [phone |-> TRUE, hash |-> server.hash + 1]
          /\ wizard' \in {"code", wizard}
      BY <1>6 DEF CodeSent, LoginInv, LoginTypeOK
    <2>2. LoginTypeOK'
      <3>1. Answered
        BY <1>6 DEF CodeSent
      <3>2. asked' \in Seq([tab : Tabs, kind : Kinds, hash : Nat])
        BY <3>1, AnsweredKeeps
      <3>4. server' \in [hash : Nat, ready : BOOLEAN, authorized : BOOLEAN]
        BY <2>1, NewCode DEF LoginInv
      <3>5. flow' \in [phone : BOOLEAN, hash : Nat]
        BY <2>1
      <3> QED BY <3>2, <3>4, <3>5 DEF LoginTypeOK
    <2>3. flow'.hash = server'.hash /\ flow'.hash # NoHash /\ server'.authorized = server.authorized
      BY <2>1, NewCode DEF NoHash, LoginInv
    <2> QED BY <2>1, <2>2, <2>3 DEF LoginInv, FlowIsLive, CodesHaveHash, Asking
  <1>7. ASSUME StepFails \/ CutOff PROVE LoginInv'
    <2>0. server \in [hash : Nat, ready : BOOLEAN, authorized : BOOLEAN]
      BY DEF LoginInv, LoginTypeOK
    <2>1. /\ Answered /\ flow' = flow /\ wizard' \in {"phone", wizard}
          /\ server'.authorized = server.authorized
          /\ (server' = server /\ cut' = cut) \/ cut'
          /\ server' \in [hash : Nat, ready : BOOLEAN, authorized : BOOLEAN]
      <3>1. CASE StepFails
        BY <2>0, <3>1 DEF StepFails, RolledBack
      <3>2. CASE CutOff
        BY <3>2, NewCode DEF CutOff, RolledBack, LoginInv
      <3> QED BY <1>7, <3>1, <3>2
    <2>2. LoginTypeOK' /\ CodesHaveHash'
      BY <2>1, AnsweredKeeps DEF LoginInv, LoginTypeOK, CodesHaveHash
    <2>3. FlowIsLive'
      BY <2>1 DEF LoginInv, FlowIsLive, Asking
    <2> QED BY <2>2, <2>3 DEF LoginInv
  <1>8. ASSUME CodeAccepted PROVE LoginInv'
    <2>1. /\ Answered /\ ~server.authorized /\ flow' = flow /\ cut' = cut
          /\ server'.hash = server.hash
          /\ \/ wizard' = "password" /\ server'.authorized = FALSE
             \/ wizard' = "done" /\ server'.authorized = TRUE
          /\ server' \in [hash : Nat, ready : BOOLEAN, authorized : BOOLEAN]
      BY <1>8 DEF CodeAccepted, LoginInv, LoginTypeOK
    <2>2. flow.hash # NoHash
      BY <1>8, <2>1, AnsweredKeeps DEF CodeAccepted
    <2>3. LoginTypeOK' /\ CodesHaveHash'
      BY <2>1, <2>2, AnsweredKeeps DEF LoginInv, LoginTypeOK, CodesHaveHash
    <2> QED BY <2>1, <2>2, <2>3 DEF LoginInv, FlowIsLive, Asking
  <1>9. ASSUME PasswordAccepted PROVE LoginInv'
    BY <1>9, AnsweredKeeps DEF PasswordAccepted, LoginInv, LoginTypeOK, FlowIsLive, CodesHaveHash,
                               Asking
  <1>10. ASSUME UNCHANGED loginVars PROVE LoginInv'
    BY <1>10 DEF loginVars, LoginInv, LoginTypeOK, FlowIsLive, CodesHaveHash
  <1> QED
    BY <1>1, <1>2, <1>3, <1>4, <1>5, <1>6, <1>7, <1>8, <1>9, <1>10 DEF LoginNext

\* Until the account is authorized the flow holds the last hash, and every code
\* on its way was entered for one (LoginFlow under the login routes).
THEOREM LoginInvariant == LoginSpec => []LoginInv
  BY LoginInitially, LoginStepKeeps, PTL DEF LoginSpec

\* HashIsLive: whatever the tabs do, a code is only asked for under the hash
\* that Telegram gave last (submit_phone's claim, reset's guard).
THEOREM CodeIsAskedForLiveHash == LoginSpec => []HashIsLive
  <1>1. LoginInv => HashIsLive
    BY DEF LoginInv, FlowIsLive, HashIsLive, Asking
  <1> QED BY <1>1, LoginInvariant, PTL

-----------------------------------------------------------------------------
(* The deletion watcher and its subscriptions *)

\* What the outgoing stream carries: messages of ours, the copies among them.
CopyAt(n) == [dialog |-> Saved, id |-> FirstCopy + n]
Posts == Own \union {CopyAt(n) : n \in Nat}
RemovedEvents == [chat : ChannelChats \union {NoChat}, ids : SUBSET Nat]

\* Only a copy is published twice as far as the watcher can tell.
OnceOnly(q) == \A i, j \in DOMAIN q : q[i] = q[j] => i = j \/ q[i].dialog = Saved

\* A queue holds the end of what was published.
EndOf(q, s) ==
    /\ Len(q) <= Len(s)
    /\ \A i \in DOMAIN q : q[i] = s[i + (Len(s) - Len(q))]

LEMMA QueueDrops ==
    ASSUME NEW S, NEW q \in Seq(S), q # <<>>
    PROVE  /\ Tail(q) \in Seq(S) /\ Head(q) \in S
           /\ Len(Tail(q)) = Len(q) - 1
           /\ Elements(q) = Elements(Tail(q)) \union {Head(q)}
           /\ OnceOnly(q) => /\ OnceOnly(Tail(q))
                             /\ Head(q) \in Elements(Tail(q)) => Head(q).dialog = Saved
           /\ \A s \in Seq(S) : EndOf(q, s) => EndOf(Tail(q), s)
<1> DEFINE t == Tail(q)
<1>1. /\ t \in Seq(S) /\ Head(q) \in S /\ Head(q) = q[1] /\ Len(q) \in Nat \ {0}
      /\ Len(t) = Len(q) - 1 /\ DOMAIN q = 1..Len(q) /\ DOMAIN t = 1..(Len(q) - 1)
    OBVIOUS
<1>2. \A i \in DOMAIN t : t[i] = q[i + 1]
    OBVIOUS
<1> HIDE DEF t
<1>3. /\ \A i \in DOMAIN t : i + 1 \in DOMAIN q /\ i + 1 # 1 /\ i \in Nat
      /\ \A i \in DOMAIN q : i \in Nat
      /\ 1 \in DOMAIN q
    BY <1>1
<1>4. \A i \in DOMAIN q : i = 1 \/ (i - 1 \in DOMAIN t /\ t[i - 1] = q[i])
    <2> TAKE i \in DOMAIN q
    <2>1. CASE i # 1
        <3>1. i - 1 \in DOMAIN t
            BY <2>1, <1>1
        <3>2. t[i - 1] = q[(i - 1) + 1]
            BY <3>1, <1>2
        <3>3. (i - 1) + 1 = i
            BY <1>3
        <3> QED
            BY <3>1, <3>2, <3>3
    <2> QED
        BY <2>1
<1>5. Elements(q) = Elements(t) \union {Head(q)}
    <2>1. \A i \in DOMAIN q : q[i] \in Elements(t) \union {Head(q)}
        BY <1>1, <1>4 DEF Elements
    <2>2. \A i \in DOMAIN t : t[i] \in Elements(q)
        BY <1>2, <1>3 DEF Elements
    <2>3. Head(q) \in Elements(q)
        BY <1>1, <1>3 DEF Elements
    <2> QED
        BY <2>1, <2>2, <2>3 DEF Elements
<1>6. ASSUME OnceOnly(q)
      PROVE  OnceOnly(t) /\ (Head(q) \in Elements(t) => Head(q).dialog = Saved)
    <2>1. ASSUME NEW i \in DOMAIN t, NEW j \in DOMAIN t, t[i] = t[j]
          PROVE  i = j \/ t[i].dialog = Saved
        <3>1. q[i + 1] = q[j + 1]
            BY <2>1, <1>2
        <3>2. i + 1 = j + 1 \/ q[i + 1].dialog = Saved
            BY <3>1, <1>3, <1>6 DEF OnceOnly
        <3>3. i + 1 = j + 1 => i = j
            BY <1>3
        <3> QED
            BY <3>2, <3>3, <1>2
    <2>2. ASSUME Head(q) \in Elements(t)
          PROVE  Head(q).dialog = Saved
        <3>1. PICK i \in DOMAIN t : t[i] = Head(q)
            BY <2>2 DEF Elements
        <3>2. q[1] = q[i + 1] /\ i + 1 # 1 /\ i + 1 \in DOMAIN q
            BY <3>1, <1>1, <1>2, <1>3
        <3> QED
            BY <3>2, <1>1, <1>3, <1>6 DEF OnceOnly
    <2> QED
        BY <2>1, <2>2 DEF OnceOnly
<1>7. ASSUME NEW s \in Seq(S), EndOf(q, s)
      PROVE  EndOf(t, s)
    <2>1. Len(s) \in Nat /\ Len(q) <= Len(s)
        BY <1>7 DEF EndOf
    <2>2. Len(t) <= Len(s)
        BY <2>1, <1>1
    <2>3. ASSUME NEW i \in DOMAIN t
          PROVE  t[i] = s[i + (Len(s) - Len(t))]
        <3>1. t[i] = q[i + 1] /\ i + 1 \in DOMAIN q /\ i \in Nat
            BY <1>2, <1>3
        <3>2. q[i + 1] = s[(i + 1) + (Len(s) - Len(q))]
            BY <3>1, <1>7 DEF EndOf
        <3>3. (i + 1) + (Len(s) - Len(q)) = i + (Len(s) - Len(t))
            BY <3>1, <2>1, <1>1
        <3> QED
            BY <3>1, <3>2, <3>3
    <2> QED
        BY <2>2, <2>3 DEF EndOf
<1> QED
    BY <1>1, <1>5, <1>6, <1>7 DEF t

LEMMA QueueTakes ==
    ASSUME NEW S, NEW q \in Seq(S), NEW e \in S
    PROVE  /\ Append(q, e) \in Seq(S)
           /\ Elements(Append(q, e)) = Elements(q) \union {e}
           /\ OnceOnly(q) /\ (e \in Elements(q) => e.dialog = Saved) => OnceOnly(Append(q, e))
           /\ \A s \in Seq(S) : EndOf(q, s) => EndOf(Append(q, e), Append(s, e))
<1> DEFINE t == Append(q, e)
<1>1. /\ t \in Seq(S) /\ Len(q) \in Nat /\ Len(t) = Len(q) + 1
      /\ DOMAIN q = 1..Len(q) /\ DOMAIN t = 1..(Len(q) + 1)
    OBVIOUS
<1>2. t[Len(q) + 1] = e /\ \A i \in DOMAIN q : t[i] = q[i]
    OBVIOUS
<1> HIDE DEF t
<1>3. /\ \A i \in DOMAIN t : i = Len(q) + 1 \/ i \in DOMAIN q
      /\ DOMAIN q \subseteq DOMAIN t /\ Len(q) + 1 \in DOMAIN t
      /\ \A i \in DOMAIN t : i \in Nat
    BY <1>1
<1>4. Elements(t) = Elements(q) \union {e}
    <2>1. \A i \in DOMAIN t : t[i] \in Elements(q) \union {e}
        BY <1>2, <1>3 DEF Elements
    <2>2. \A i \in DOMAIN q : q[i] \in Elements(t)
        <3> TAKE i \in DOMAIN q
        <3>1. i \in DOMAIN t /\ t[i] = q[i]
            BY <1>2, <1>3
        <3> QED
            BY <3>1 DEF Elements
    <2>3. e \in Elements(t)
        BY <1>2, <1>3 DEF Elements
    <2> QED
        BY <2>1, <2>2, <2>3 DEF Elements
<1>5. ASSUME OnceOnly(q), e \in Elements(q) => e.dialog = Saved
      PROVE  OnceOnly(t)
    <2> SUFFICES ASSUME NEW i \in DOMAIN t, NEW j \in DOMAIN t, t[i] = t[j], i # j
                 PROVE  t[i].dialog = Saved
        BY DEF OnceOnly
    <2>1. CASE i \in DOMAIN q /\ j \in DOMAIN q
        BY <2>1, <1>2, <1>5 DEF OnceOnly
    <2>2. CASE i \in DOMAIN q /\ j = Len(q) + 1
        <3>1. t[i] = e /\ t[i] \in Elements(q)
            BY <2>2, <1>2 DEF Elements
        <3> QED
            BY <3>1, <1>5
    <2>3. CASE j \in DOMAIN q /\ i = Len(q) + 1
        <3>1. t[j] = e /\ t[j] \in Elements(q)
            BY <2>3, <1>2 DEF Elements
        <3> QED
            BY <3>1, <1>5
    <2> QED
        BY <2>1, <2>2, <2>3, <1>3
<1>6. ASSUME NEW s \in Seq(S), EndOf(q, s)
      PROVE  EndOf(t, Append(s, e))
    <2> DEFINE u == Append(s, e)
    <2>1. /\ Len(s) \in Nat /\ Len(u) = Len(s) + 1 /\ DOMAIN s = 1..Len(s)
          /\ u[Len(s) + 1] = e /\ \A i \in DOMAIN s : u[i] = s[i]
        OBVIOUS
    <2> HIDE DEF u
    <2>2. Len(q) <= Len(s)
        BY <1>6 DEF EndOf
    <2>3. Len(t) <= Len(u) /\ Len(u) - Len(t) = Len(s) - Len(q)
        BY <2>1, <2>2, <1>1
    <2>4. ASSUME NEW i \in DOMAIN t
          PROVE  t[i] = u[i + (Len(u) - Len(t))]
        <3>1. CASE i = Len(q) + 1
            <4>1. i + (Len(s) - Len(q)) = Len(s) + 1
                BY <3>1, <2>1, <1>1
            <4> QED
                BY <4>1, <3>1, <2>1, <2>3, <1>2
        <3>2. CASE i \in DOMAIN q
            <4>1. i + (Len(s) - Len(q)) \in DOMAIN s
                BY <3>2, <2>1, <2>2, <1>1
            <4>2. q[i] = s[i + (Len(s) - Len(q))]
                BY <3>2, <1>6 DEF EndOf
            <4> QED
                BY <4>1, <4>2, <3>2, <2>1, <2>3, <1>2
        <3> QED
            BY <3>1, <3>2, <1>3
    <2> QED
        BY <2>3, <2>4 DEF EndOf, u
<1> QED
    BY <1>1, <1>4, <1>5, <1>6 DEF t

LEMMA PublishKeeps ==
    ASSUME NEW S, NEW q \in Seq(S), NEW e \in S
    PROVE  /\ Publish(q, e) \in Seq(S)
           /\ Elements(Publish(q, e)) \subseteq Elements(q) \union {e}
           /\ OnceOnly(q) /\ (e \in Elements(q) => e.dialog = Saved) => OnceOnly(Publish(q, e))
           /\ \A s \in Seq(S) : EndOf(q, s) => EndOf(Publish(q, e), Append(s, e))
<1>1. CASE Len(q) >= QueueSize
    <2>1. q # <<>>
        BY <1>1, WatchAssumption
    <2>2. Publish(q, e) = Append(Tail(q), e)
        BY <1>1 DEF Publish
    <2>3. /\ Tail(q) \in Seq(S) /\ Elements(Tail(q)) \subseteq Elements(q)
          /\ OnceOnly(q) => OnceOnly(Tail(q))
          /\ \A s \in Seq(S) : EndOf(q, s) => EndOf(Tail(q), s)
        BY <2>1, QueueDrops
    <2> DEFINE t == Tail(q)
    <2> HIDE DEF t
    <2>4. /\ Append(t, e) \in Seq(S)
          /\ Elements(Append(t, e)) = Elements(t) \union {e}
          /\ OnceOnly(t) /\ (e \in Elements(t) => e.dialog = Saved) => OnceOnly(Append(t, e))
          /\ \A s \in Seq(S) : EndOf(t, s) => EndOf(Append(t, e), Append(s, e))
        BY <2>3, QueueTakes DEF t
    <2> QED
        BY <2>2, <2>3, <2>4 DEF t
<1>2. CASE ~(Len(q) >= QueueSize)
    <2>1. Publish(q, e) = Append(q, e)
        BY <1>2 DEF Publish
    <2> QED
        BY <2>1, QueueTakes
<1> QED
    BY <1>1, <1>2

-----------------------------------------------------------------------------
(* The inductive invariant *)

Copied == UNION Elements(copies)

WatchTables ==
    /\ sent \in Seq(Posts) /\ earlier \subseteq Posts
    /\ outgoing \in Seq(Posts) /\ removed \in Seq(RemovedEvents)
    /\ cache \subseteq Own /\ inHand \subseteq Own
    /\ copies \in Seq(SUBSET Own)

\* A message is published once, and read from the stream before it is cached.
ReadOnce ==
    /\ OnceOnly(outgoing) /\ Elements(outgoing) \subseteq OwnSoFar
    /\ \A m \in cache \union inHand \union Copied :
          m.dialog # Saved /\ m \in OwnSoFar /\ m \notin Elements(outgoing)

\* A message is in one place only: the cache, the deletion at hand, one copy.
OnePlace ==
    /\ cache \intersect inHand = {}
    /\ (cache \union inHand) \intersect Copied = {}
    /\ \A i, j \in DOMAIN copies : i # j => copies[i] \intersect copies[j] = {}

\* What an update names, as the watcher reads it, has been deleted.
Named(event, m) ==
    /\ m.id \in event.ids
    /\ IF event.chat = NoChat THEN m.dialog \notin ChannelChats ELSE m.dialog = event.chat

TrueEvents ==
    /\ inHand \union Copied \subseteq deleted
    /\ \A event \in Elements(removed) : \A m \in Own : Named(event, m) => m \in deleted

WatchInv ==
    /\ WatchTables /\ ReadOnce /\ OnePlace /\ TrueEvents
    /\ EndOf(outgoing, sent)

-----------------------------------------------------------------------------
(* The steps *)

LEMMA WatchStarts == WatchInit => WatchInv
<1> SUFFICES ASSUME WatchInit PROVE WatchInv
    OBVIOUS
<1>1. /\ sent = <<>> /\ earlier = {} /\ outgoing = <<>> /\ removed = <<>>
      /\ cache = {} /\ inHand = {} /\ copies = <<>>
    BY DEF WatchInit
<1>2. Elements(sent) = {} /\ Elements(outgoing) = {} /\ Elements(removed) = {} /\ Copied = {}
    BY <1>1 DEF Elements, Copied
<1>3. WatchTables
    BY <1>1 DEF WatchTables
<1>4. ReadOnce /\ OnePlace /\ TrueEvents
    BY <1>1, <1>2 DEF ReadOnce, OnePlace, TrueEvents, OnceOnly
<1>5. EndOf(outgoing, sent)
    BY <1>1 DEF EndOf
<1> QED
    BY <1>3, <1>4, <1>5 DEF WatchInv

LEMMA PostedKeeps ==
    ASSUME WatchTables, NEW m \in Posts, Posted(m),
           OnceOnly(outgoing), Elements(outgoing) \subseteq OwnSoFar,
           m \in OwnSoFar => m.dialog = Saved,
           EndOf(outgoing, sent)
    PROVE  /\ sent' \in Seq(Posts) /\ earlier' \subseteq Posts /\ outgoing' \in Seq(Posts)
           /\ OnceOnly(outgoing') /\ EndOf(outgoing', sent')
           /\ Elements(outgoing') \subseteq Elements(outgoing) \union {m}
           /\ OwnSoFar' = OwnSoFar \union {m}
           /\ Elements(outgoing') \subseteq OwnSoFar'
<1>0. sent \in Seq(Posts) /\ earlier \subseteq Posts /\ outgoing \in Seq(Posts)
    BY DEF WatchTables
<1>1. CASE watching
    <2>1. sent' = Append(sent, m) /\ outgoing' = Publish(outgoing, m) /\ earlier' = earlier
        BY <1>1 DEF Posted
    <2>2. /\ sent' \in Seq(Posts) /\ Elements(sent') = Elements(sent) \union {m}
        BY <1>0, <2>1, QueueTakes
    <2>3. /\ Publish(outgoing, m) \in Seq(Posts)
          /\ Elements(Publish(outgoing, m)) \subseteq Elements(outgoing) \union {m}
          /\ OnceOnly(outgoing) /\ (m \in Elements(outgoing) => m.dialog = Saved)
                => OnceOnly(Publish(outgoing, m))
          /\ \A s \in Seq(Posts) : EndOf(outgoing, s) => EndOf(Publish(outgoing, m), Append(s, m))
        BY <1>0, PublishKeeps
    <2>4. OwnSoFar' = OwnSoFar \union {m}
        BY <2>1, <2>2 DEF OwnSoFar
    <2> QED
        BY <1>0, <2>1, <2>2, <2>3, <2>4
<1>2. CASE ~watching
    <2>1. earlier' = earlier \union {m} /\ sent' = sent /\ outgoing' = outgoing
        BY <1>2 DEF Posted
    <2>2. OwnSoFar' = OwnSoFar \union {m}
        BY <2>1 DEF OwnSoFar
    <2> QED
        BY <1>0, <2>1, <2>2
<1> QED
    BY <1>1, <1>2

LEMMA OwnerSendsKeeps ==
    ASSUME WatchInv, NEW m \in Own, OwnerSends(m)
    PROVE  WatchInv'
<1>0. WatchTables /\ ReadOnce /\ OnePlace /\ TrueEvents /\ EndOf(outgoing, sent)
    BY DEF WatchInv
<1>1. /\ m \notin OwnSoFar /\ Posted(m) /\ m \in Posts
      /\ removed' = removed /\ cache' = cache /\ inHand' = inHand /\ copies' = copies
      /\ deleted' = deleted
    BY DEF OwnerSends, Posts
<1>2. /\ sent' \in Seq(Posts) /\ earlier' \subseteq Posts /\ outgoing' \in Seq(Posts)
      /\ OnceOnly(outgoing') /\ EndOf(outgoing', sent')
      /\ Elements(outgoing') \subseteq Elements(outgoing) \union {m}
      /\ OwnSoFar' = OwnSoFar \union {m}
      /\ Elements(outgoing') \subseteq OwnSoFar'
    <2>1. OnceOnly(outgoing) /\ Elements(outgoing) \subseteq OwnSoFar
        BY <1>0 DEF ReadOnce
    <2> QED
        BY <1>0, <1>1, <2>1, PostedKeeps
<1>3. Copied' = Copied
    BY <1>1 DEF Copied
<1>4. WatchTables'
    BY <1>0, <1>1, <1>2 DEF WatchTables
<1>5. ReadOnce'
    <2>1. \A x \in cache \union inHand \union Copied :
              x.dialog # Saved /\ x \in OwnSoFar /\ x \notin Elements(outgoing)
        BY <1>0 DEF ReadOnce
    <2>2. \A x \in cache' \union inHand' \union Copied' :
              x.dialog # Saved /\ x \in OwnSoFar' /\ x \notin Elements(outgoing')
        BY <1>1, <1>2, <1>3, <2>1
    <2> QED
        BY <1>2, <2>2 DEF ReadOnce
<1>6. OnePlace'
    BY <1>0, <1>1, <1>3 DEF OnePlace
<1>7. TrueEvents'
    BY <1>0, <1>1, <1>3 DEF TrueEvents
<1> QED
    BY <1>2, <1>4, <1>5, <1>6, <1>7 DEF WatchInv

\* The update that a deletion makes names only what it deletes.
ChatsOf(ms) == {m.dialog : m \in ms} \intersect ChannelChats
UpdateOf(ms) ==
    [chat |-> IF ChatsOf(ms) = {} THEN NoChat ELSE CHOOSE c \in ChatsOf(ms) : TRUE,
     ids |-> {m.id : m \in ms}]

LEMMA UpdateIsTrue ==
    ASSUME NEW ms, ms # {}, ms \subseteq Posts \union Foreign,
           \/ \A m \in ms : m.dialog \notin ChannelChats
           \/ \E c \in ChannelChats : \A m \in ms : m.dialog = c
    PROVE  /\ UpdateOf(ms) \in RemovedEvents
           /\ \A m \in Own : Named(UpdateOf(ms), m) => m \in ms
<1> DEFINE chats == ChatsOf(ms)
           event == UpdateOf(ms)
<1>1. event.chat = (IF chats = {} THEN NoChat ELSE CHOOSE c \in chats : TRUE)
    BY DEF UpdateOf
<1>2. event.ids = {m.id : m \in ms}
    BY DEF UpdateOf
<1>3. event = [chat |-> event.chat, ids |-> event.ids]
    BY DEF UpdateOf
<1>4. chats = {m.dialog : m \in ms} \intersect ChannelChats
    BY DEF ChatsOf
<1> HIDE DEF chats, event
<1>5. \A m \in Posts \ Own : m.dialog = Saved /\ m.id \in Nat /\ m.id >= FirstCopy
    BY DEF Posts, CopyAt, FirstCopy
<1>6. event.ids \subseteq Nat
    BY <1>2, <1>5, WatchAssumption
<1>7. event.chat \in ChannelChats \union {NoChat}
    <2>1. CASE chats = {}
        BY <2>1, <1>1
    <2>2. CASE chats # {}
        <3>1. event.chat \in chats
            BY <2>2, <1>1
        <3> QED
            BY <3>1, <1>4
    <2> QED
        BY <2>1, <2>2
<1>8. event \in RemovedEvents
    BY <1>3, <1>6, <1>7 DEF RemovedEvents
<1>9. ASSUME NEW m \in Own, Named(event, m)
      PROVE  m \in ms
    <2>1. PICK n \in ms : n.id = m.id
        BY <1>2, <1>9 DEF Named
    <2>2. CASE \A x \in ms : x.dialog \notin ChannelChats
        <3>1. event.chat = NoChat
            <4>1. chats = {}
                BY <2>2, <1>4
            <4> QED
                BY <4>1, <1>1
        <3>2. m.dialog \notin ChannelChats
            BY <3>1, <1>9 DEF Named
        <3>3. n \notin Posts \ Own
            <4>1. m.id < FirstCopy /\ m.id \in Nat
                BY <3>2, WatchAssumption
            <4> QED
                BY <4>1, <2>1, <1>5 DEF FirstCopy
        <3>4. {m.dialog, n.dialog} \intersect ChannelChats = {}
            BY <3>2, <2>2
        <3> QED
            BY <3>3, <3>4, <2>1, WatchAssumption
    <2>3. CASE \E c \in ChannelChats : \A x \in ms : x.dialog = c
        <3>1. PICK c \in ChannelChats : \A x \in ms : x.dialog = c
            BY <2>3
        <3>2. chats = {c}
            BY <3>1, <1>4
        <3>3. event.chat = c
            BY <3>2, <1>1
        <3>4. c # NoChat /\ c # Saved
            BY WatchAssumption
        <3>5. m.dialog = c
            BY <3>3, <3>4, <1>9 DEF Named
        <3>6. n \notin Posts \ Own
            BY <3>1, <3>4, <1>5
        <3> QED
            BY <3>1, <3>5, <3>6, <2>1, WatchAssumption
    <2> QED
        BY <2>2, <2>3
<1> QED
    BY <1>8, <1>9 DEF event

LEMMA DeleteKeeps ==
    ASSUME WatchInv, NEW ms, Delete(ms)
    PROVE  WatchInv'
<1>0. WatchTables /\ ReadOnce /\ OnePlace /\ TrueEvents /\ EndOf(outgoing, sent)
    BY DEF WatchInv
<1> DEFINE event == UpdateOf(ms)
<1>1. /\ ms # {} /\ ms \subseteq OwnSoFar \union Foreign
      /\ \/ \A m \in ms : m.dialog \notin ChannelChats
         \/ \E c \in ChannelChats : \A m \in ms : m.dialog = c
      /\ deleted' = deleted \union ms
      /\ removed' = IF watching THEN Publish(removed, event) ELSE removed
      /\ sent' = sent /\ earlier' = earlier /\ outgoing' = outgoing
      /\ cache' = cache /\ inHand' = inHand /\ copies' = copies
    BY DEF Delete, UpdateOf, ChatsOf
<1>2. OwnSoFar \subseteq Posts
    <2>1. sent \in Seq(Posts) /\ earlier \subseteq Posts
        BY <1>0 DEF WatchTables
    <2>2. Elements(sent) \subseteq Posts
        BY <2>1 DEF Elements
    <2> QED
        BY <2>1, <2>2 DEF OwnSoFar
<1>3. /\ event \in RemovedEvents
      /\ \A m \in Own : Named(event, m) => m \in ms
    <2>1. ms \subseteq Posts \union Foreign
        BY <1>1, <1>2
    <2> QED
        BY <1>1, <2>1, UpdateIsTrue
<1> HIDE DEF event
<1>4. /\ removed' \in Seq(RemovedEvents)
      /\ Elements(removed') \subseteq Elements(removed) \union {event}
    <2>1. removed \in Seq(RemovedEvents)
        BY <1>0 DEF WatchTables
    <2>2. CASE watching
        BY <2>1, <2>2, <1>1, <1>3, PublishKeeps
    <2> QED
        BY <2>1, <2>2, <1>1
<1>5. Copied' = Copied /\ OwnSoFar' = OwnSoFar
    BY <1>1 DEF Copied, OwnSoFar
<1>6. WatchTables'
    BY <1>0, <1>1, <1>4 DEF WatchTables
<1>7. ReadOnce'
    BY <1>0, <1>1, <1>5 DEF ReadOnce
<1>8. OnePlace'
    BY <1>0, <1>1, <1>5 DEF OnePlace
<1>9. TrueEvents'
    <2>1. \A e \in Elements(removed) : \A m \in Own : Named(e, m) => m \in deleted
        BY <1>0 DEF TrueEvents
    <2>2. \A e \in Elements(removed') : \A m \in Own : Named(e, m) => m \in deleted'
        BY <1>1, <1>3, <1>4, <2>1
    <2>3. inHand' \union Copied' \subseteq deleted'
        BY <1>0, <1>1, <1>5 DEF TrueEvents
    <2>4. \A e, m : Named(e, m)' <=> Named(e, m)
        BY DEF Named
    <2> QED
        BY <2>2, <2>3 DEF TrueEvents, Named
<1>10. EndOf(outgoing', sent')
    BY <1>0, <1>1
<1> QED
    BY <1>6, <1>7, <1>8, <1>9, <1>10 DEF WatchInv

LEMMA StopKeeps ==
    ASSUME WatchInv, Stop
    PROVE  WatchInv'
<1>0. WatchTables /\ ReadOnce /\ OnePlace /\ TrueEvents
    BY DEF WatchInv
<1>1. /\ sent' = <<>> /\ earlier' = OwnSoFar /\ outgoing' = <<>> /\ removed' = <<>>
      /\ cache' = {} /\ inHand' = {} /\ copies' = copies /\ deleted' = deleted
    BY DEF Stop
<1>2. Elements(sent') = {} /\ Elements(outgoing') = {} /\ Elements(removed') = {}
    BY <1>1 DEF Elements
<1>3. OwnSoFar' = OwnSoFar /\ Copied' = Copied
    BY <1>1, <1>2 DEF OwnSoFar, Copied
<1>4. OwnSoFar \subseteq Posts
    <2>1. sent \in Seq(Posts) /\ earlier \subseteq Posts
        BY <1>0 DEF WatchTables
    <2>2. Elements(sent) \subseteq Posts
        BY <2>1 DEF Elements
    <2> QED
        BY <2>1, <2>2 DEF OwnSoFar
<1>5. WatchTables'
    BY <1>0, <1>1, <1>4 DEF WatchTables
<1>6. ReadOnce'
    <2>1. OnceOnly(outgoing')
        BY <1>1 DEF OnceOnly
    <2>2. \A m \in Copied : m.dialog # Saved /\ m \in OwnSoFar
        BY <1>0 DEF ReadOnce
    <2> QED
        BY <1>1, <1>2, <1>3, <2>1, <2>2 DEF ReadOnce
<1>7. OnePlace'
    BY <1>0, <1>1, <1>3 DEF OnePlace
<1>8. TrueEvents'
    BY <1>0, <1>1, <1>2, <1>3 DEF TrueEvents
<1>9. EndOf(outgoing', sent')
    BY <1>1 DEF EndOf
<1> QED
    BY <1>5, <1>6, <1>7, <1>8, <1>9 DEF WatchInv

LEMMA TakeOutgoingKeeps ==
    ASSUME WatchInv, TakeOutgoing
    PROVE  WatchInv'
<1>0. WatchTables /\ ReadOnce /\ OnePlace /\ TrueEvents /\ EndOf(outgoing, sent)
    BY DEF WatchInv
<1> DEFINE m == Head(outgoing)
<1>1. /\ outgoing # <<>> /\ cache' = Remembered(m) /\ outgoing' = Tail(outgoing)
      /\ sent' = sent /\ earlier' = earlier /\ deleted' = deleted
      /\ removed' = removed /\ inHand' = inHand /\ copies' = copies
    BY DEF TakeOutgoing
<1>2. /\ outgoing' \in Seq(Posts) /\ m \in Posts
      /\ Elements(outgoing) = Elements(outgoing') \union {m}
      /\ OnceOnly(outgoing') /\ (m \in Elements(outgoing') => m.dialog = Saved)
      /\ EndOf(outgoing', sent')
    <2>1. outgoing \in Seq(Posts) /\ sent \in Seq(Posts)
        BY <1>0 DEF WatchTables
    <2>2. OnceOnly(outgoing)
        BY <1>0 DEF ReadOnce
    <2>3. /\ Tail(outgoing) \in Seq(Posts) /\ Head(outgoing) \in Posts
          /\ Elements(outgoing) = Elements(Tail(outgoing)) \union {Head(outgoing)}
          /\ OnceOnly(outgoing) => /\ OnceOnly(Tail(outgoing))
                                   /\ Head(outgoing) \in Elements(Tail(outgoing))
                                         => Head(outgoing).dialog = Saved
          /\ \A s \in Seq(Posts) : EndOf(outgoing, s) => EndOf(Tail(outgoing), s)
        BY <1>1, <2>1, QueueDrops
    <2> QED
        BY <1>0, <1>1, <2>1, <2>2, <2>3
<1> HIDE DEF m
<1>3. Copied' = Copied /\ OwnSoFar' = OwnSoFar
    BY <1>1 DEF Copied, OwnSoFar
<1>4. /\ m \in OwnSoFar
      /\ m \notin cache \union inHand \union Copied
    BY <1>0, <1>2 DEF ReadOnce
<1>5. cache' \subseteq cache \/ (m.dialog # Saved /\ cache' \subseteq cache \union {m})
    BY <1>1 DEF Remembered
<1>6. m.dialog # Saved => m \in Own /\ m \notin Elements(outgoing')
    BY <1>2 DEF Posts, CopyAt
<1>7. WatchTables'
    BY <1>0, <1>1, <1>2, <1>5, <1>6 DEF WatchTables
<1>8. ReadOnce'
    <2>1. \A x \in cache \union inHand \union Copied :
              x.dialog # Saved /\ x \in OwnSoFar /\ x \notin Elements(outgoing)
        BY <1>0 DEF ReadOnce
    <2>2. \A x \in cache' \union inHand' \union Copied' :
              x.dialog # Saved /\ x \in OwnSoFar' /\ x \notin Elements(outgoing')
        BY <1>1, <1>2, <1>3, <1>4, <1>5, <1>6, <2>1
    <2>3. Elements(outgoing') \subseteq OwnSoFar'
        BY <1>0, <1>2, <1>3 DEF ReadOnce
    <2> QED
        BY <1>2, <2>2, <2>3 DEF ReadOnce
<1>9. OnePlace'
    BY <1>0, <1>1, <1>3, <1>4, <1>5 DEF OnePlace
<1>10. TrueEvents'
    BY <1>0, <1>1, <1>3 DEF TrueEvents
<1> QED
    BY <1>2, <1>7, <1>8, <1>9, <1>10 DEF WatchInv

LEMMA TakeDeletedKeeps ==
    ASSUME WatchInv, TakeDeleted
    PROVE  WatchInv'
<1>0. WatchTables /\ ReadOnce /\ OnePlace /\ TrueEvents /\ EndOf(outgoing, sent)
    BY DEF WatchInv
<1> DEFINE ms == Match(Head(removed))
<1>1. /\ removed # <<>> /\ inHand = {} /\ inHand' = ms /\ cache' = cache \ ms
      /\ removed' = Tail(removed)
      /\ sent' = sent /\ earlier' = earlier /\ deleted' = deleted
      /\ outgoing' = outgoing /\ copies' = copies
    BY DEF TakeDeleted
<1>2. /\ removed' \in Seq(RemovedEvents)
      /\ Elements(removed) = Elements(removed') \union {Head(removed)}
    <2>1. removed \in Seq(RemovedEvents)
        BY <1>0 DEF WatchTables
    <2> QED
        BY <1>1, <2>1, QueueDrops
<1>3. ms \subseteq cache /\ \A m \in ms : Named(Head(removed), m)
    BY DEF Match, Named
<1> HIDE DEF ms
<1>4. Copied' = Copied /\ OwnSoFar' = OwnSoFar
    BY <1>1 DEF Copied, OwnSoFar
<1>5. ms \subseteq Own /\ ms \subseteq deleted
    <2>1. ms \subseteq Own
        BY <1>0, <1>3 DEF WatchTables
    <2> QED
        BY <2>1, <1>0, <1>2, <1>3 DEF TrueEvents
<1>6. WatchTables'
    BY <1>0, <1>1, <1>2, <1>5 DEF WatchTables
<1>7. ReadOnce'
    BY <1>0, <1>1, <1>3, <1>4 DEF ReadOnce
<1>8. OnePlace'
    BY <1>0, <1>1, <1>3, <1>4 DEF OnePlace
<1>9. TrueEvents'
    <2>1. inHand' \union Copied' \subseteq deleted'
        BY <1>0, <1>1, <1>4, <1>5 DEF TrueEvents
    <2>2. \A e \in Elements(removed') : \A m \in Own : Named(e, m) => m \in deleted'
        BY <1>0, <1>1, <1>2 DEF TrueEvents
    <2> QED
        BY <2>1, <2>2 DEF TrueEvents, Named
<1>10. EndOf(outgoing', sent')
    BY <1>0, <1>1
<1> QED
    BY <1>6, <1>7, <1>8, <1>9, <1>10 DEF WatchInv

LEMMA CopyKeeps ==
    ASSUME WatchInv, NEW dialog, Copy(dialog)
    PROVE  WatchInv'
<1>0. WatchTables /\ ReadOnce /\ OnePlace /\ TrueEvents /\ EndOf(outgoing, sent)
    BY DEF WatchInv
<1> DEFINE p == [dialog |-> Saved, id |-> FirstCopy + Len(copies)]
           g == Group(dialog)
<1>1. /\ copies' = Append(copies, g) /\ Posted(p) /\ inHand' = inHand \ g
      /\ cache' = cache /\ removed' = removed /\ deleted' = deleted
    BY DEF Copy
<1>2. copies \in Seq(SUBSET Own) /\ g \subseteq inHand /\ g \in SUBSET Own
    BY <1>0 DEF WatchTables, Group
<1>3. p \in Posts /\ p.dialog = Saved
    <2>1. p = CopyAt(Len(copies)) /\ Len(copies) \in Nat
        BY <1>2 DEF CopyAt
    <2> QED
        BY <2>1 DEF Posts
<1> HIDE DEF p, g
<1>4. /\ sent' \in Seq(Posts) /\ earlier' \subseteq Posts /\ outgoing' \in Seq(Posts)
      /\ OnceOnly(outgoing') /\ EndOf(outgoing', sent')
      /\ Elements(outgoing') \subseteq Elements(outgoing) \union {p}
      /\ OwnSoFar' = OwnSoFar \union {p}
      /\ Elements(outgoing') \subseteq OwnSoFar'
    <2>1. OnceOnly(outgoing) /\ Elements(outgoing) \subseteq OwnSoFar
        BY <1>0 DEF ReadOnce
    <2> QED
        BY <1>0, <1>1, <1>3, <2>1, PostedKeeps
<1>5. copies' \in Seq(SUBSET Own) /\ Elements(copies') = Elements(copies) \union {g}
    BY <1>1, <1>2, QueueTakes
<1>6. Copied' = Copied \union g
    BY <1>5 DEF Copied
<1>7. WatchTables'
    BY <1>0, <1>1, <1>4, <1>5 DEF WatchTables
<1>8. ReadOnce'
    <2>1. \A x \in cache \union inHand \union Copied :
              x.dialog # Saved /\ x \in OwnSoFar /\ x \notin Elements(outgoing)
        BY <1>0 DEF ReadOnce
    <2>2. cache' \union inHand' \union Copied' \subseteq cache \union inHand \union Copied
        BY <1>1, <1>2, <1>6
    <2>3. \A x \in cache' \union inHand' \union Copied' :
              x.dialog # Saved /\ x \in OwnSoFar' /\ x \notin Elements(outgoing')
        BY <1>3, <1>4, <2>1, <2>2
    <2> QED
        BY <1>4, <2>3 DEF ReadOnce
<1>9. OnePlace'
    <2>1. /\ cache \intersect inHand = {} /\ (cache \union inHand) \intersect Copied = {}
          /\ \A i, j \in DOMAIN copies : i # j => copies[i] \intersect copies[j] = {}
        BY <1>0 DEF OnePlace
    <2>2. cache' \intersect inHand' = {} /\ (cache' \union inHand') \intersect Copied' = {}
        BY <1>1, <1>2, <1>6, <2>1
    <2>3. /\ DOMAIN copies' = DOMAIN copies \union {Len(copies) + 1}
          /\ copies'[Len(copies) + 1] = g
          /\ \A i \in DOMAIN copies : copies'[i] = copies[i]
        BY <1>1, <1>2
    <2>4. \A i \in DOMAIN copies : copies[i] \subseteq Copied
        BY DEF Copied, Elements
    <2>5. \A i \in DOMAIN copies : copies[i] \intersect g = {}
        BY <2>1, <2>4, <1>2
    <2>6. \A i, j \in DOMAIN copies' : i # j => copies'[i] \intersect copies'[j] = {}
        BY <2>1, <2>3, <2>5
    <2> QED
        BY <2>2, <2>6 DEF OnePlace
<1>10. TrueEvents'
    BY <1>0, <1>1, <1>2, <1>6 DEF TrueEvents, Named
<1> QED
    BY <1>4, <1>7, <1>8, <1>9, <1>10 DEF WatchInv

LEMMA CopyFailsKeeps ==
    ASSUME WatchInv, NEW dialog, CopyFails(dialog)
    PROVE  WatchInv'
<1>0. WatchTables /\ ReadOnce /\ OnePlace /\ TrueEvents /\ EndOf(outgoing, sent)
    BY DEF WatchInv
<1>1. /\ inHand' \subseteq inHand /\ sent' = sent /\ earlier' = earlier /\ deleted' = deleted
      /\ outgoing' = outgoing /\ removed' = removed /\ cache' = cache /\ copies' = copies
    BY DEF CopyFails, LeftAfter
<1>2. Copied' = Copied /\ OwnSoFar' = OwnSoFar
    BY <1>1 DEF Copied, OwnSoFar
<1>3. WatchTables'
    BY <1>0, <1>1 DEF WatchTables
<1>4. ReadOnce'
    BY <1>0, <1>1, <1>2 DEF ReadOnce
<1>5. OnePlace'
    BY <1>0, <1>1, <1>2 DEF OnePlace
<1>6. TrueEvents'
    BY <1>0, <1>1, <1>2 DEF TrueEvents
<1>7. EndOf(outgoing', sent')
    BY <1>0, <1>1
<1> QED
    BY <1>3, <1>4, <1>5, <1>6, <1>7 DEF WatchInv

LEMMA NoWatchStep ==
    ASSUME WatchInv,
           UNCHANGED <<sent, earlier, deleted, outgoing, removed, cache, inHand, copies>>
    PROVE  WatchInv'
<1>1. Copied' = Copied /\ OwnSoFar' = OwnSoFar
    BY DEF Copied, OwnSoFar
<1>2. WatchTables' /\ ReadOnce' /\ OnePlace' /\ TrueEvents'
    BY <1>1 DEF WatchInv, WatchTables, ReadOnce, OnePlace, TrueEvents
<1> QED
    BY <1>2 DEF WatchInv

LEMMA WatchSteps == WatchInv /\ [WatchNext]_watchVars => WatchInv'
<1> SUFFICES ASSUME WatchInv, [WatchNext]_watchVars PROVE WatchInv'
    OBVIOUS
<1>1. ASSUME NEW m \in Own, OwnerSends(m) PROVE WatchInv'
    BY <1>1, OwnerSendsKeeps
<1>2. ASSUME NEW ms \in SUBSET (OwnSoFar \union Foreign), Delete(ms) PROVE WatchInv'
    BY <1>2, DeleteKeeps
<1>3. CASE Start
    BY <1>3, NoWatchStep DEF Start
<1>4. CASE Stop
    BY <1>4, StopKeeps
<1>5. CASE TakeOutgoing
    BY <1>5, TakeOutgoingKeeps
<1>6. CASE TakeDeleted
    BY <1>6, TakeDeletedKeeps
<1>7. ASSUME NEW dialog \in Dialogs, Copy(dialog) \/ CopyFails(dialog) PROVE WatchInv'
    BY <1>7, CopyKeeps, CopyFailsKeeps
<1>8. CASE UNCHANGED watchVars
    BY <1>8, NoWatchStep DEF watchVars
<1> QED
    BY <1>1, <1>2, <1>3, <1>4, <1>5, <1>6, <1>7, <1>8 DEF WatchNext, CopyStep

LEMMA WatchInvariance == WatchSpec => []WatchInv
<1> QED
    BY WatchStarts, WatchSteps, PTL DEF WatchSpec

-----------------------------------------------------------------------------
(* The theorems *)

\* A copy is of messages of ours that were deleted, and no message is copied
\* twice: _match, the cache that _remember fills and the pop that empties it.
THEOREM CopiesTellTheTruth == WatchSpec => []CopiesAreTrue
<1>1. WatchInv => CopiesAreTrue
    <2> SUFFICES ASSUME WatchInv PROVE CopiesAreTrue
        OBVIOUS
    <2>0. WatchTables /\ OnePlace /\ TrueEvents
        BY DEF WatchInv
    <2>1. copies \in Seq(SUBSET Own)
        BY <2>0 DEF WatchTables
    <2>2. \A i \in DOMAIN copies : copies[i] \subseteq Own
        BY <2>1
    <2>3. \A i \in DOMAIN copies : copies[i] \subseteq Copied
        BY DEF Copied, Elements
    <2>4. Copied \subseteq deleted
        BY <2>0 DEF TrueEvents
    <2> QED
        BY <2>0, <2>2, <2>3, <2>4 DEF CopiesAreTrue, OnePlace
<1> QED
    BY <1>1, WatchInvariance, PTL

\* What the watcher still has to read of the outgoing stream is its end:
\* EventBus.publish drops the oldest event of a full queue and no other.
THEOREM SlowReaderLosesTheOldest == WatchSpec => []NewestAreKept
<1>1. WatchInv => NewestAreKept
    <2> SUFFICES ASSUME WatchInv PROVE NewestAreKept
        OBVIOUS
    <2>0. WatchTables /\ EndOf(outgoing, sent)
        BY DEF WatchInv
    <2>1. sent \in Seq(Posts) /\ outgoing \in Seq(Posts)
        BY <2>0 DEF WatchTables
    <2>2. Len(sent) \in Nat /\ Len(outgoing) \in Nat /\ Len(outgoing) <= Len(sent)
        BY <2>0, <2>1 DEF EndOf
    <2> DEFINE n == Len(sent) - Len(outgoing)
               u == SubSeq(sent, n + 1, Len(sent))
    <2>3. n \in 0..Len(sent) /\ n \in Nat
        BY <2>2
    <2>4. u = [i \in 1..(Len(sent) + 1 - (n + 1)) |-> sent[i + (n + 1) - 1]]
        BY <2>1, <2>3
    <2>5. Len(sent) + 1 - (n + 1) = Len(outgoing)
        BY <2>2
    <2>6. DOMAIN outgoing = 1..Len(outgoing) /\ outgoing = [i \in 1..Len(outgoing) |-> outgoing[i]]
        BY <2>1
    <2>7. \A i \in 1..Len(outgoing) : outgoing[i] = sent[i + (n + 1) - 1]
        <3> TAKE i \in 1..Len(outgoing)
        <3>1. outgoing[i] = sent[i + n]
            BY <2>0, <2>6 DEF EndOf
        <3>2. i + n = i + (n + 1) - 1
            BY <2>2, <2>3
        <3> QED
            BY <3>1, <3>2
    <2> HIDE DEF n
    <2>8. u = outgoing
        BY <2>4, <2>5, <2>6, <2>7
    <2> QED
        BY <2>3, <2>8 DEF NewestAreKept
<1> QED
    BY <1>1, WatchInvariance, PTL
=============================================================================
