----------------------------- MODULE TuiSidebar -----------------------------
(***************************************************************************)
(* Start-up of the terminal UI and its dialog list (tui/app.py).  The list *)
(* has two sources, the archive and the rest; the other tabs are           *)
(* projections of the rest.  _startup loads under the tab that is active,  *)
(* waits for the store, opens the gate for tab events and reconciles; from *)
(* then on a tab event reloads in an exclusive worker.  A tab may be       *)
(* picked at any time.  Rows and filters are left out.                     *)
(***************************************************************************)
EXTENDS Naturals

CONSTANTS
    Tabs,      \* one of them "archive"
    WithStore  \* a message store is wired

VARIABLES
    tab,      \* _tab
    loaded,   \* _loaded_tab, "none" before the first load
    phase,    \* of _startup
    started,  \* _started
    scope,    \* the tab a load in progress was asked under
    reload,   \* the worker of the exclusive group "dialogs"
    spinner,  \* lv.loading
    failed,   \* the last reload raised
    broken    \* a worker took the program down

sidebarVars == <<tab, loaded, phase, started, scope, reload, spinner, failed, broken>>

SidebarInit ==
    /\ tab \in Tabs /\ loaded = "none"
    /\ phase = "connecting" /\ started = FALSE
    /\ scope = "none" /\ reload = "idle"
    /\ spinner = TRUE /\ failed = FALSE /\ broken = FALSE

Source(t) == IF t = "archive" THEN "archived" ELSE IF t = "none" THEN "none" ELSE "rest"

\* on_tabs_tab_activated: exclusive, a reload in progress is cancelled and its
\* finally ends the spinner before the new one starts it.
PickTab(t) ==
    /\ ~ broken /\ t # tab
    /\ tab' = t
    /\ IF started THEN reload' = "scheduled" ELSE UNCHANGED reload
    /\ UNCHANGED <<loaded, phase, started, scope, spinner, failed, broken>>

-----------------------------------------------------------------------------
(* _startup *)

\* The client is built and connected, and is authorized or logged in; a profile
\* or the login may be declined, and anything may raise: the program exits.
Connected ==
    /\ phase = "connecting"
    /\ \/ phase' = "loading" /\ scope' = tab /\ UNCHANGED broken
       \/ phase' = "exited" /\ broken' = TRUE /\ UNCHANGED scope
    /\ UNCHANGED <<tab, loaded, started, reload, spinner, failed>>

\* _load_dialogs, with the tab read before the request.
FirstLoad ==
    /\ phase = "loading"
    /\ \/ /\ loaded' = scope
          /\ phase' = IF WithStore THEN "store" ELSE "gate"
          /\ UNCHANGED broken
       \/ phase' = "exited" /\ broken' = TRUE /\ UNCHANGED loaded
    /\ UNCHANGED <<tab, started, scope, reload, spinner, failed>>

\* The list is emptied and the spinner on while the store connects.
StoreConnects ==
    /\ phase = "store"
    /\ phase' = "gate" /\ spinner' = TRUE
    /\ UNCHANGED <<tab, loaded, started, scope, reload, failed, broken>>

\* A mutation of Gate: the list is reconciled before the gate opens.
FaultLateGate == started' = FALSE

\* #118: the gate opens, and with no await in between the active tab is read.
Gate == started' = TRUE

\* _reconcile_after_startup: another source is fetched by a worker, another
\* projection is rendered (and awaited) with what is there.
Reconcile ==
    /\ phase = "gate"
    /\ Gate
    /\ IF Source(tab) # Source(loaded)
       THEN reload' = "scheduled" /\ UNCHANGED spinner
       ELSE UNCHANGED <<reload, spinner>>
    /\ phase' = "rendering"
    /\ UNCHANGED <<tab, loaded, scope, failed, broken>>

Ready ==
    /\ phase = "rendering"
    /\ phase' = "ready" /\ started' = TRUE
    /\ spinner' = (reload # "idle")
    /\ UNCHANGED <<tab, loaded, scope, reload, failed, broken>>

-----------------------------------------------------------------------------
(* The reload worker *)

StartReload ==
    /\ reload = "scheduled"
    /\ reload' = "loading" /\ spinner' = TRUE /\ scope' = tab
    /\ UNCHANGED <<tab, loaded, phase, started, failed, broken>>

\* The snapshot is of the source that was asked for.
LoadedUnder == loaded' = scope

EndReload ==
    /\ reload = "loading"
    /\ reload' = "idle" /\ spinner' = FALSE
    /\ \/ LoadedUnder /\ failed' = FALSE
       \/ failed' = TRUE /\ UNCHANGED loaded
    /\ UNCHANGED <<tab, phase, started, scope, broken>>

SidebarNext ==
    \/ \E t \in Tabs : PickTab(t)
    \/ Connected \/ FirstLoad \/ StoreConnects \/ Reconcile \/ Ready
    \/ StartReload \/ EndReload

SidebarSpec == SidebarInit /\ [][SidebarNext]_sidebarVars

-----------------------------------------------------------------------------
(* Properties *)

\* #110, #112, #118: once nothing is loading, the list is of the source of the
\* tab that is active, whenever the tab was picked, unless the reload failed.
ListIsOfTheTab ==
    phase = "ready" /\ reload = "idle" /\ ~ failed => Source(loaded) = Source(tab)
=============================================================================
