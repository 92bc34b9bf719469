---------------------------- MODULE SessionFiles ----------------------------
(***************************************************************************)
(* SessionStore (core/auth.py): the commands, each a process of its own,   *)
(* write, create, read and remove the session file of one profile.  A      *)
(* write goes to a temporary file and is published under the store's lock; *)
(* where the file system has no hard links, creation checks and replaces   *)
(* instead.  A process may die at any step; the system then gives its lock *)
(* back.  A session is the command that made it; its text is left out.     *)
(***************************************************************************)
EXTENDS Integers, FiniteSets

CONSTANTS
    Commands,   \* the processes
    Keyed       \* those that have SESSION_ENCRYPTION_KEY

Absent == [by |-> "none", enc |-> FALSE]
Free == "free"

ASSUME CommandsAssumption == Free \notin Commands

VARIABLES
    hardLinks, \* whether the file system has hard links
    file,   \* the session file: whose session, encrypted or not
    temps,  \* the temporary files left on disk, by command
    lock,   \* the holder of .session-store.lock
    pc,     \* per command: the step it is at
    want,   \* per command: what it is to write
    loaded, \* per command: whether the load it made found a session it can read
    made    \* history: creations that succeeded, each with the file it met

fileVars == <<hardLinks, file, temps, lock, pc, want, loaded, made>>

FilesInit ==
    /\ hardLinks \in BOOLEAN
    /\ file = Absent /\ temps = {} /\ lock = Free
    /\ pc = [c \in Commands |-> "start"]
    /\ want = [c \in Commands |-> Absent]
    /\ loaded = [c \in Commands |-> FALSE]
    /\ made = {}

OnDisk(c, by) == [by |-> by, enc |-> c \in Keyed]

GoesTo(c, step) == pc' = [pc EXCEPT ![c] = step]

-----------------------------------------------------------------------------
(* The first step of a command: _write_temp *)

\* save: a login, which replaces, or an imported session.
BeginSave(c) ==
    /\ pc[c] = "start"
    /\ GoesTo(c, "save")
    /\ want' = [want EXCEPT ![c] = OnDisk(c, c)]
    /\ temps' = temps \union {c}
    /\ UNCHANGED <<hardLinks, file, lock, loaded, made>>

\* save_if_absent: a new account.
BeginCreate(c) ==
    /\ pc[c] = "start"
    /\ GoesTo(c, "create")
    /\ want' = [want EXCEPT ![c] = OnDisk(c, c)]
    /\ temps' = temps \union {c}
    /\ UNCHANGED <<hardLinks, file, lock, loaded, made>>

\* load: missing or unreadable, readable, or plaintext under a key: rewritten.
Load(c) ==
    /\ pc[c] = "start"
    /\ loaded' = [loaded EXCEPT ![c] = file # Absent /\ (file.enc => c \in Keyed)]
    /\ IF file # Absent /\ c \in Keyed /\ ~file.enc
       THEN /\ want' = [want EXCEPT ![c] = OnDisk(c, file.by)]
            /\ temps' = temps \union {c}
            /\ GoesTo(c, "save")
       ELSE GoesTo(c, "done") /\ UNCHANGED <<want, temps>>
    /\ UNCHANGED <<hardLinks, file, lock, made>>

\* delete: looks first.
BeginRemove(c) ==
    /\ pc[c] = "start"
    /\ GoesTo(c, IF file = Absent THEN "done" ELSE "delete")
    /\ UNCHANGED <<hardLinks, file, temps, lock, want, loaded, made>>

-----------------------------------------------------------------------------
(* Under the lock *)

\* A mutation of LockIsFree: creation looks without the lock.
FaultCreateUnlocked(c) == lock = Free \/ pc[c] = "create"

LockIsFree(c) == lock = Free

\* Each critical section has two steps, the look and the publication.
TakeLock(c) ==
    /\ pc[c] \in {"save", "create", "delete"} /\ LockIsFree(c)
    /\ lock' = c
    /\ GoesTo(c, CASE pc[c] = "save" -> "replace"
                   [] pc[c] = "delete" -> "unlink"
                   [] pc[c] = "create" -> IF hardLinks THEN "link"
                                          ELSE IF file = Absent THEN "publish" ELSE "exists")
    /\ UNCHANGED <<hardLinks, file, temps, want, loaded, made>>

\* The lock after c, which ends its section, fails in it or dies in it.
Unlocked(c) == IF lock = c THEN Free ELSE lock

Released(c) ==
    /\ lock' = Unlocked(c)
    /\ temps' = temps \ {c}
    /\ GoesTo(c, "done")

Replace(c) ==
    /\ pc[c] = "replace"
    /\ file' = want[c]
    /\ Released(c)
    /\ UNCHANGED <<hardLinks, want, loaded, made>>

\* os.link refuses an existing file; os.replace, after the look, does not.
Create(c) ==
    /\ pc[c] \in {"link", "publish"}
    /\ IF pc[c] = "link" /\ file # Absent THEN UNCHANGED <<file, made>>
       ELSE /\ file' = want[c]
            /\ made' = made \union {[by |-> c, met |-> file]}
    /\ Released(c)
    /\ UNCHANGED <<hardLinks, want, loaded>>

CreateRefused(c) ==
    /\ pc[c] = "exists"
    /\ Released(c)
    /\ UNCHANGED <<hardLinks, file, want, loaded, made>>

Unlink(c) ==
    /\ pc[c] = "unlink"
    /\ file' = Absent
    /\ Released(c)
    /\ UNCHANGED <<hardLinks, want, loaded, made>>

\* An error before publication: the temporary file is removed.
WriteFails(c) ==
    /\ pc[c] \in {"save", "create", "replace", "link", "publish"}
    /\ Released(c)
    /\ UNCHANGED <<hardLinks, file, want, loaded, made>>

\* The process dies: the temporary file stays.
Dies(c) ==
    /\ pc[c] \notin {"start", "done"}
    /\ lock' = Unlocked(c)
    /\ GoesTo(c, "done")
    /\ UNCHANGED <<hardLinks, file, temps, want, loaded, made>>

\* The next command of the user.
Again(c) ==
    /\ pc[c] = "done" /\ c \notin temps
    /\ GoesTo(c, "start")
    /\ UNCHANGED <<hardLinks, file, temps, lock, want, loaded, made>>

FilesNext ==
    \E c \in Commands :
        \/ BeginSave(c) \/ BeginCreate(c) \/ Load(c) \/ BeginRemove(c)
        \/ TakeLock(c) \/ Replace(c) \/ Create(c) \/ CreateRefused(c) \/ Unlink(c)
        \/ WriteFails(c) \/ Dies(c) \/ Again(c)

FilesSpec == FilesInit /\ [][FilesNext]_fileVars

-----------------------------------------------------------------------------
(* Properties *)

\* "Without replacing a concurrent creator" (save_session_if_absent): a profile
\* is created only where there is none, whichever way it is published and
\* whoever writes, migrates or removes it meanwhile.
CreatesOnlyNew == \A m \in made : m.met = Absent
=============================================================================
