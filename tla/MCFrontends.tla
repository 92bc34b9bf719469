---------------------------- MODULE MCFrontends ----------------------------
(***************************************************************************)
(* The frontends and what they call, each part at a small instance: the    *)
(* client wrapper, the coordinator that hands out send tokens, the web     *)
(* page, the panes of the TUI and the chat REPL.  They talk to one another *)
(* through Telegram alone, so that one run explores them one after the     *)
(* other: focus is the part whose steps are taken.                         *)
(***************************************************************************)
EXTENDS MCOutboundTokens, MCTuiHistory, WebChat, TuiComposer, TuiSidebar, ChatRepl, Client

VARIABLE focus

\* Callers of the coordinator are alike, and so are those of the client.
Alike == {p @@ q : p \in Permutations(MCCallers), q \in Permutations(Requesters)}

FrontendsInit ==
    /\ focus \in {"tokens", "web", "history", "composer", "sidebar", "repl", "client"}
    /\ Init /\ WebInit /\ TuiInit /\ ComposerInit /\ SidebarInit /\ ChatInit /\ ClientInit
    /\ focus # "web" => open = 1
    /\ focus # "composer" => room = 1
    /\ focus # "sidebar" => tab = "all"

Others(f) == /\ UNCHANGED focus
             /\ f # "tokens" => UNCHANGED vars
             /\ f # "web" => UNCHANGED webVars
             /\ f # "history" => UNCHANGED tuiVars
             /\ f # "composer" => UNCHANGED composerVars
             /\ f # "sidebar" => UNCHANGED sidebarVars
             /\ f # "repl" => UNCHANGED chatVars
             /\ f # "client" => UNCHANGED clientVars

TokensStep == focus = "tokens" /\ Next /\ Others("tokens")
WebStep == focus = "web" /\ WebNext /\ Others("web")
HistoryStep == focus = "history" /\ TuiNext /\ Others("history")
ComposerStep == focus = "composer" /\ ComposerNext /\ Others("composer")
SidebarStep == focus = "sidebar" /\ SidebarNext /\ Others("sidebar")
ReplStep == focus = "repl" /\ ChatNext /\ Others("repl")
ClientStep == focus = "client" /\ ClientNext /\ Others("client")

FrontendsNext ==
    TokensStep \/ WebStep \/ HistoryStep \/ ComposerStep \/ SidebarStep \/ ReplStep
    \/ ClientStep

FrontendsSpec ==
    FrontendsInit /\ [][FrontendsNext]_<<focus, vars, webVars, tuiVars, composerVars,
                                         sidebarVars, chatVars, clientVars>>
=============================================================================
