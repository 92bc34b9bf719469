---------------------------- MODULE ReadThrough ----------------------------
(***************************************************************************)
(* What core/cache.py promises the callers of get_or_fetch, whatever it    *)
(* caches, locks, expires or evicts.  Every key has a history of versions  *)
(* at Telegram; an invalidation of a key says "whatever was read before    *)
(* this moment is out of date".  A read may return any version that is not *)
(* older than the last invalidation the reader could have known of (the    *)
(* one in force when it asked) and that Telegram has really produced.      *)
(***************************************************************************)
EXTENDS Integers

CONSTANTS Keys, Procs, None

VARIABLES
    truth,  \* truth[k]: newest version of k at Telegram
    floor,  \* floor[k]: truth[k] at the last invalidation of k
    asked,  \* for each task in a read: its key, and the floor when it asked
    got     \* got[p]: the version p's last read returned, or None

vars == <<truth, floor, asked, got>>

Init ==
    /\ truth = [k \in Keys |-> 0]
    /\ floor = [k \in Keys |-> 0]
    /\ asked = <<>>
    /\ got = [p \in Procs |-> None]

Change(k) ==
    /\ truth' = [truth EXCEPT ![k] = @ + 1]
    /\ UNCHANGED <<floor, asked, got>>

Invalidate(S) ==
    /\ floor' = [k \in Keys |-> IF k \in S THEN truth[k] ELSE floor[k]]
    /\ UNCHANGED <<truth, asked, got>>

Asking == DOMAIN asked

Ask(p, k) ==
    /\ p \notin Asking
    /\ asked' = [q \in Asking \cup {p} |->
                   IF q = p THEN [key |-> k, floor |-> floor[k]] ELSE asked[q]]
    /\ UNCHANGED <<truth, floor, got>>

Done(p) == asked' = [q \in Asking \ {p} |-> asked[q]]

Return(p) ==
    /\ p \in Asking
    /\ \E v \in asked[p].floor .. truth[asked[p].key] :
         got' = [got EXCEPT ![p] = v]
    /\ Done(p)
    /\ UNCHANGED <<truth, floor>>

\* A read answered in the step that asks (a hit).
AskAndReturn(p, k) ==
    /\ p \notin Asking
    /\ \E v \in floor[k] .. truth[k] : got' = [got EXCEPT ![p] = v]
    /\ UNCHANGED <<truth, floor, asked>>

\* The fetch raised, or the reader was cancelled: nothing is returned.
GiveUp(p) ==
    /\ p \in Asking
    /\ Done(p)
    /\ UNCHANGED <<truth, floor, got>>

Next ==
    \/ \E k \in Keys : Change(k)
    \/ \E S \in SUBSET Keys : Invalidate(S)
    \/ \E p \in Procs, k \in Keys : Ask(p, k) \/ AskAndReturn(p, k)
    \/ \E p \in Procs : Return(p) \/ GiveUp(p)

Spec == Init /\ [][Next]_vars
=============================================================================
