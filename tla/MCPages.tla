------------------------------ MODULE MCPages -------------------------------
(***************************************************************************)
(* The pages that list processes, in one run of TLC: the rows and the      *)
(* selection of the Processes and Details pages, the menu of a row with    *)
(* the dialogs it opens, the sessions of the Users page, and the icons in  *)
(* front of the names. They share no state here: each behaviour follows    *)
(* one of them (the focus) while the others stay in their initial states.  *)
(***************************************************************************)
EXTENDS ProcessList, RowMenu, UsersPage, IconCache

\* Two processes run the same program.
MCProgramOf ==
    [p \in MPids |-> CASE p = 1 -> "a" [] p = 2 -> "b" [] p = 3 -> "a" [] OTHER -> NoPath]
\* Sessions 1 and 2 belong to one user.
MCUserOf(s) == IF s = 3 THEN 2 ELSE 1

VARIABLE focus

vars == <<focus, listVars, menuVars, usersVars, iconVars>>

Init ==
    /\ focus \in {"list", "menu", "users", "icons"}
    /\ (focus # "list" => lpage = "details")
    /\ ListInit
    /\ (focus # "menu" => mpage = "details")
    /\ MenuInit
    /\ (focus # "users" => /\ members = [p \in UserPids |-> CHOOSE m \in [sid : {NoSid}, user : Users, app : Programs, load : Measures] : TRUE]
                          /\ listing = CHOOSE l \in Listings : TRUE)
    /\ UsersInit
    /\ IconInit

InList(A) == focus = "list" /\ A /\ UNCHANGED <<focus, menuVars, usersVars, iconVars>>
InMenu(A) == focus = "menu" /\ A /\ UNCHANGED <<focus, listVars, usersVars, iconVars>>
InUsers(A) == focus = "users" /\ A /\ UNCHANGED <<focus, listVars, menuVars, iconVars>>
InIcons(A) == focus = "icons" /\ A /\ UNCHANGED <<focus, listVars, menuVars, usersVars>>

Next ==
    \/ InList(ListNext)
    \/ InMenu(MenuNext)
    \/ InUsers(UsersNext)
    \/ InIcons(IconNext)

Spec == Init /\ [][Next]_vars
=============================================================================
