-------------------------------- MODULE MCApp --------------------------------
(***************************************************************************)
(* The window and its tray icon, and the pages with a fetched list, in one *)
(* run of TLC.  They share no state here: each behaviour follows one of    *)
(* them (the focus) while the other stays in its initial state, so the run *)
(* visits the sum of their state spaces.                                   *)
(***************************************************************************)
EXTENDS Shell, Pages

VARIABLE focus

vars == <<focus, shellVars, pageVars>>

Init ==
    /\ focus \in {"shell", "pages"}
    /\ ShellInit /\ PagesInit
    /\ focus # "shell" => ~closeToTray /\ visible /\ tray = "untried"
    /\ focus # "pages" => page = "users" /\ sys

InShell(A) == focus = "shell" /\ A /\ UNCHANGED <<focus, pageVars>>
InPages(A) == focus = "pages" /\ A /\ UNCHANGED <<focus, shellVars>>

Next == InShell(ShellNext) \/ InPages(PagesNext)

\* ShellFairness and PagesFairness: the actions of the component out of focus
\* are never enabled.
Fairness ==
    /\ WF_vars(InShell(UiThread) \/ InPages(Draws))
    /\ WF_vars(InShell(TrayThread))
    /\ SF_vars(InPages(Due /\ FrameBegins(TRUE)))
    /\ SF_vars(InPages(Fetches))
    /\ SF_vars(InPages(Writes))
    /\ SF_vars(InPages(Expire))

LiveSpec == Init /\ [][Next]_vars /\ Fairness
=============================================================================
