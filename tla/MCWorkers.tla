------------------------------ MODULE MCWorkers ------------------------------
(***************************************************************************)
(* The two engines that act for the user on their own, each at a small     *)
(* instance: the workers of the factory and the ghostwriter.  No process   *)
(* runs both and they share no state, so that one run explores them one    *)
(* after the other: focus is the one whose steps are taken.                *)
(***************************************************************************)
EXTENDS MCReportWorker, Ghostwrite

VARIABLE focus

WorkersInit == focus \in {"factory", "ghost"} /\ Init /\ GhostInit

FactoryStep ==
    /\ focus = "factory" /\ Next
    /\ UNCHANGED <<focus, ghostVars>>
GhostStep ==
    /\ focus = "ghost" /\ GhostNext
    /\ UNCHANGED <<focus, vars>>

WorkersNext == FactoryStep \/ GhostStep

\* Fairness of ReportWorker, owed to its workers only where they run: unlike
\* the ghostwriter they have a step to take in the initial state.
FactoryFairness ==
    \A w \in Workers :
        /\ WF_vars(focus = "factory" /\ Start(w))
        /\ SF_vars(Poll(w))
        /\ SF_vars(FactoryHears(w))
        /\ SF_vars(Acknowledged(w))

WorkersSpec ==
    /\ WorkersInit
    /\ [][WorkersNext]_<<focus, vars, ghostVars>>
    /\ FactoryFairness /\ GhostFairness
=============================================================================
