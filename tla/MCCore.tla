------------------------------- MODULE MCCore -------------------------------
(***************************************************************************)
(* The parts of core/ that a client process keeps in memory or in its      *)
(* session directory, each at a small instance.  They share no state, so   *)
(* that one run explores them one after the other: focus is the part whose *)
(* steps are taken.  Nothing of the others is due in their initial states, *)
(* and their fairness holds trivially.                                     *)
(***************************************************************************)
EXTENDS TTLCache, SessionFiles, Login, DeletionWatcher

VARIABLE focus

\* Messages of a private dialog, a group and a channel, numbered alike.
MCOwn == {[dialog |-> "peer", id |-> 1], [dialog |-> "group", id |-> 2],
          [dialog |-> "channel", id |-> 3]}
MCForeign == {[dialog |-> "peer", id |-> 3]}

CoreInit ==
    /\ focus \in {"cache", "files", "login", "watcher"}
    /\ Init /\ FilesInit /\ LoginInit /\ WatchInit
    /\ focus # "files" => hardLinks

CacheStep ==
    /\ focus = "cache" /\ Next
    /\ UNCHANGED <<focus, fileVars, loginVars, watchVars>>
FilesStep ==
    /\ focus = "files" /\ FilesNext
    /\ UNCHANGED <<focus, vars, loginVars, watchVars>>
LoginStep ==
    /\ focus = "login" /\ LoginNext
    /\ UNCHANGED <<focus, vars, fileVars, watchVars>>
WatchStep ==
    /\ focus = "watcher" /\ WatchNext
    /\ UNCHANGED <<focus, vars, fileVars, loginVars>>

CoreNext == CacheStep \/ FilesStep \/ LoginStep \/ WatchStep

CoreSpec ==
    /\ CoreInit
    /\ [][CoreNext]_<<focus, vars, fileVars, loginVars, watchVars>>
    /\ Fairness /\ LoginFairness /\ WatchFairness
=============================================================================
