---------------------------- MODULE MCProcesses -----------------------------
(***************************************************************************)
(* What is done with processes, in one run of TLC: the groups of the       *)
(* Processes page, the roll-up of a subtree and the tree of the Details    *)
(* page, the Process Properties dialog and its lists, the dump of a        *)
(* process, and the commands. They share no state here: each behaviour     *)
(* follows one of them (the focus) while the others stay in their initial  *)
(* states.                                                                 *)
(***************************************************************************)
EXTENDS ProcessGroups, Inspector, ProcessActions

\* What a process may be: an application's window, a busy helper with a window,
\* a core image.
K(i, p, w, b) == [image |-> i, pub |-> p, window |-> w, busy |-> b]
MCKinds == {K("x", "P", TRUE, FALSE), K("helper", "P", TRUE, TRUE), K("svchost", "", FALSE, FALSE)}

VARIABLE focus

vars == <<focus, groupVars, walkVars, treeVars, inspectorVars, insListVars, dumpVars, actionVars>>

Init ==
    /\ focus \in {"groups", "walk", "tree", "inspector", "lists", "dump", "actions"}
    /\ GroupsInit
    /\ (focus # "walk" => /\ parentOf = [p \in WalkPids |-> NoParent] /\ throttled = [p \in WalkPids |-> FALSE]
                         /\ own = [p \in WalkPids |-> "running"])
    /\ WalkInit
    /\ TreeInit
    /\ (focus # "inspector" => offered = {"general", "list"} /\ paused = FALSE)
    /\ InspectorInit
    /\ (focus # "lists" => lpage = "modules")
    /\ InsListInit
    /\ DumpInit
    /\ ActionInit
    /\ (focus # "actions" => proc[CHOOSE q \in Pids : TRUE] # NoProc)

InGroups(A) == focus = "groups" /\ A /\ UNCHANGED <<focus, walkVars, treeVars, inspectorVars, insListVars, dumpVars, actionVars>>
InWalk(A) == focus = "walk" /\ A /\ UNCHANGED <<focus, groupVars, treeVars, inspectorVars, insListVars, dumpVars, actionVars>>
InTree(A) == focus = "tree" /\ A /\ UNCHANGED <<focus, groupVars, walkVars, inspectorVars, insListVars, dumpVars, actionVars>>
InInspector(A) == focus = "inspector" /\ A /\ UNCHANGED <<focus, groupVars, walkVars, treeVars, insListVars, dumpVars, actionVars>>
InLists(A) == focus = "lists" /\ A /\ UNCHANGED <<focus, groupVars, walkVars, treeVars, inspectorVars, dumpVars, actionVars>>
InDump(A) == focus = "dump" /\ A /\ UNCHANGED <<focus, groupVars, walkVars, treeVars, inspectorVars, insListVars, actionVars>>
InActions(A) == focus = "actions" /\ A /\ UNCHANGED <<focus, groupVars, walkVars, treeVars, inspectorVars, insListVars, dumpVars>>

Next ==
    \/ InGroups(GroupsNext)
    \/ InWalk(WalkNext)
    \/ InTree(TreeNext)
    \/ InInspector(InspectorNext)
    \/ InLists(InsListNext)
    \/ InDump(DumpNext)
    \/ InActions(ActionNext)

Spec == Init /\ [][Next]_vars
=============================================================================
