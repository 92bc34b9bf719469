------------------------------ MODULE MCStores ------------------------------
(***************************************************************************)
(* What lies between the client and storage.db, each part at a small       *)
(* instance: the message store, the storage every table is reached         *)
(* through, and the engines that keep their state in tables (heartbeat,    *)
(* moderation, nudges, inbound translation).  Each has tables of its own,  *)
(* so that one run explores them one after the other: focus is the part    *)
(* whose steps are taken.  The message store is explored twice, with one   *)
(* reader of a private dialog that is long and translated, and with two    *)
(* readers of a short channel whose older pages the client caches.         *)
(***************************************************************************)
EXTENDS MCMessageStore, MCTranslation, StorageLayer, Heartbeat, Moderation, Nudges

VARIABLE focus

MCMaxId == [p \in Peers |-> IF p \in Channels THEN 2 ELSE 3]

\* Two rules of chat 1, where the account may punish, and one of chat 2,
\* where it may not and where the rules are edited.
MCRule == [name |-> 1, chat |-> 1, enabled |-> TRUE, suspect |-> FALSE,
           newWithin |-> 0, rate |-> 0, actions |-> {"delete"}]
MCRules ==
    {[MCRule EXCEPT !.rate = 2, !.actions = {"mute", "delete"}],
     [MCRule EXCEPT !.name = 2, !.suspect = TRUE, !.newWithin = 1, !.actions = {"ban"}],
     [MCRule EXCEPT !.chat = 2, !.suspect = TRUE, !.actions = {"warn", "delete"}]}
MCEdited == {r \in MCRules : r.chat = 2}
MCRights == [c \in Chats |-> IF c = 1 THEN {"delete", "ban"} ELSE {}]

StoresInit ==
    /\ focus \in {"private", "channel", "storage", "beat", "mod", "nudge", "translation"}
    /\ Init /\ StoreInit /\ BeatInit /\ ModInit /\ NudgeInit /\ TranslationInit
    /\ focus # "storage" => ids = {}

Others(f) == /\ UNCHANGED focus
             /\ f # "messages" => UNCHANGED vars
             /\ f # "storage" => UNCHANGED storeVars
             /\ f # "beat" => UNCHANGED beatVars
             /\ f # "mod" => UNCHANGED modVars
             /\ f # "nudge" => UNCHANGED nudgeVars
             /\ f # "translation" => UNCHANGED translationVars

\* Only the dialogs P are used, by at most n readers at a time, for pages of l.
Within(P, n, l) ==
    /\ \A p \in Peers \ P : top'[p] = 0
    /\ \A r \in Readers : op'[r] # NoCall => op'[r].peer \in P /\ op'[r].limit = l
    /\ Cardinality({r \in Readers : op'[r] # NoCall}) <= n

PrivateStep ==
    /\ focus = "private" /\ Next /\ Within(Peers \ Channels, 1, 2) /\ UNCHANGED cached
    /\ Others("messages")
ChannelStep ==
    /\ focus = "channel" /\ Next /\ Within(Channels, 2, 1) /\ UNCHANGED owed
    /\ Others("messages")
StorageStep == focus = "storage" /\ StoreNext /\ Others("storage")
BeatStep == focus = "beat" /\ BeatNext /\ Others("beat")
ModStep == focus = "mod" /\ ModNext /\ Others("mod")
NudgeStep == focus = "nudge" /\ NudgeNext /\ Others("nudge")
TranslationStep == focus = "translation" /\ TranslationNext /\ Others("translation")

StoresNext ==
    PrivateStep \/ ChannelStep \/ StorageStep \/ BeatStep \/ ModStep \/ NudgeStep
    \/ TranslationStep

StoresSpec ==
    StoresInit /\ [][StoresNext]_<<focus, vars, storeVars, beatVars, modVars,
                                   nudgeVars, translationVars>>
=============================================================================
