------------------------------- MODULE MCKeys -------------------------------
(***************************************************************************)
(* The keyboard and the tables in one run of TLC: where the keyboard goes, *)
(* the dialogs, the view of a table whose rows change, and the columns of  *)
(* the process tables and of the Details page. They share no state here:   *)
(* each behaviour follows one of them (the focus) while the others stay in *)
(* their initial states.                                                   *)
(***************************************************************************)
EXTENDS Navigation, Dialogs, TableView, ValueColumns

CONSTANTS cn, cp, cs, cx

\* A page that keeps its selection, the one with panes, and one that does not.
MCAllTabs == <<"processes", "performance", "users">>
\* Columns of the Details page: Name, two numeric ones, and Status.
MCBuiltIn == <<cn, cp, cs, cx>>

VARIABLE focus

vars == <<focus, navVars, dialogVars, tableVars, valueVars, detailsVars>>

Init ==
    /\ focus \in {"keys", "dialogs", "table", "values", "details"}
    /\ NavInit
    /\ (focus # "keys" => nav.tools = 0)
    /\ DialogsInit
    /\ (focus # "table" => tableRows = <<>>)
    /\ TableInit
    /\ (focus # "values" => vstored = CHOOSE f \in Files : TRUE)
    /\ ValueInit
    /\ (focus # "details" => dstored = CHOOSE f \in DetailsFiles : TRUE)
    /\ DetailsColumnsInit

InKeys(A) == focus = "keys" /\ A /\ UNCHANGED <<focus, dialogVars, tableVars, valueVars, detailsVars>>
InDialogs(A) == focus = "dialogs" /\ A /\ UNCHANGED <<focus, navVars, tableVars, valueVars, detailsVars>>
InTable(A) == focus = "table" /\ A /\ UNCHANGED <<focus, navVars, dialogVars, valueVars, detailsVars>>
InValues(A) == focus = "values" /\ A /\ UNCHANGED <<focus, navVars, dialogVars, tableVars, detailsVars>>
InDetails(A) == focus = "details" /\ A /\ UNCHANGED <<focus, navVars, dialogVars, tableVars, valueVars>>

Next ==
    \/ InKeys(NavNext)
    \/ InDialogs(DialogsNext)
    \/ InTable(TableNext)
    \/ InValues(ValueNext)
    \/ InDetails(DetailsColumnsNext)

Spec == Init /\ [][Next]_vars
=============================================================================
