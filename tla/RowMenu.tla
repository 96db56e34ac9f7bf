------------------------------- MODULE RowMenu -------------------------------
(***************************************************************************)
(* The context menus of the Processes and Details rows and the dialogs they *)
(* open (tabs/processes.rs context_menu, scheduling_menu_items; tabs/       *)
(* details.rs context_menu, priority_submenu, affinity_dialog and           *)
(* uac_virtualization_dialog; the batch commands of app.rs).                *)
(*                                                                         *)
(* On the Processes page the processes of one Crew are one collapsed row;   *)
(* every other process, and every process on Details, is a row of its own.  *)
(* A menu or a dialog stays open while snapshots come: what a command goes  *)
(* to is resolved when it is clicked.  Saved rules belong to a program.     *)
(***************************************************************************)
EXTENDS Integers, FiniteSets, FiniteSetsExt, Sequences, SequencesExt

CONSTANTS MPids,        \* PIDs, positive numbers
          Crew,         \* the PIDs of the application shown as one row
          ProgramOf,    \* PID -> program, the path of its image
          NoPath,       \* the program of a process whose path is not known
          Classes,      \* priority classes
          Cpus,         \* processors
          MaxStamp,     \* bound on snapshots
          Nil           \* nothing

ASSUME MenuAssumption ==
  /\ MPids \subseteq Nat \ {0} /\ IsFiniteSet(MPids) /\ Crew \subseteq MPids /\ Crew # {}
  /\ DOMAIN ProgramOf = MPids /\ MaxStamp \in Nat \ {0}

VARIABLES mpage,      \* "processes" or "details"
          msnap,      \* PID -> start, 0 absent
          mstamp,     \* number of the snapshot
          picked,     \* the selection: identities of rows
          menuOn,     \* the row the menu is open on: identity and snapshot, or Nil
          sent,       \* the last command: verb, identities, and the scope it was chosen for
          mrules,     \* process_rules: program -> [prio, mask], Nil none
          affinity,   \* AffinityDialog, or Nil
          uac         \* pending_uac_virtualization, or Nil

menuVars == <<mpage, msnap, mstamp, picked, menuOn, sent, mrules, affinity, uac>>

-----------------------------------------------------------------------------
MIds(S) == {[pid |-> p, start |-> msnap[p]] : p \in {x \in S : msnap[x] # 0}}

MLive(id) == msnap[id.pid] = id.start

\* The head of the crew's row: its lowest PID still there.
Captain == LET up == {p \in Crew : msnap[p] # 0} IN IF up = {} THEN 0 ELSE Min(up)

IsCrewRow(p) == mpage = "processes" /\ p = Captain /\ Cardinality(MIds(Crew)) > 1

\* The PIDs that have a row.
RowPids == {p \in MPids : msnap[p] # 0 /\ (mpage = "processes" /\ Cardinality(MIds(Crew)) > 1 => p \notin Crew \/ p = Captain)}

\* details_focus_targets, termination_targets: what one row stands for.
StandsFor(p) == IF IsCrewRow(p) THEN MIds(Crew) ELSE MIds({p})

\* The menu applies to the selection if it was opened inside one of several rows.
Batch == Cardinality(picked) > 1 /\ \E id \in picked : id.pid = menuOn.id.pid

\* live_selection_targets: the selected rows themselves.
SelectedIds == {id \in picked : MLive(id)}

\* termination_targets_for_selection: what they stand for.
SelectedMembers == (UNION {StandsFor(id.pid) : id \in {x \in SelectedIds : x.pid \in RowPids}}) \cup SelectedIds

MenuInit ==
  /\ mpage \in {"processes", "details"}
  /\ msnap = [p \in MPids |-> 1]
  /\ mstamp = 1
  /\ picked = {}
  /\ menuOn = Nil
  /\ sent = [verb |-> "none", ids |-> {}, rows |-> {}]
  /\ mrules = [g \in Range(ProgramOf) |-> [prio |-> Nil, mask |-> {}]]
  /\ affinity = Nil
  /\ uac = Nil

\* A process exits or has its PID reused; dead rows leave the selection, and a
\* menu goes with the row it hangs on.
MenuSnapshot ==
  /\ mstamp < MaxStamp
  /\ \E p \in MPids, s \in {0, mstamp + 1} : msnap' = [msnap EXCEPT ![p] = s]
  /\ mstamp' = mstamp + 1
  /\ picked' = {id \in picked : msnap'[id.pid] = id.start}
  /\ menuOn' = IF menuOn = Nil THEN Nil ELSE IF msnap'[menuOn.id.pid] = menuOn.id.start THEN menuOn ELSE Nil
  /\ UNCHANGED <<mpage, sent, mrules, affinity, uac>>

NoDialog == affinity = Nil /\ uac = Nil

PickRows ==
  /\ NoDialog /\ menuOn = Nil
  /\ picked' \in {MIds(S) : S \in SUBSET RowPids}
  /\ UNCHANGED <<mpage, msnap, mstamp, menuOn, sent, mrules, affinity, uac>>

\* A right click outside the selection moves it to the row.
OpenMenu ==
  /\ NoDialog /\ menuOn = Nil
  /\ \E p \in RowPids :
       /\ menuOn' = [id |-> [pid |-> p, start |-> msnap[p]], at |-> mstamp]
       /\ picked' = IF \E id \in picked : id.pid = p THEN picked ELSE MIds({p})
  /\ UNCHANGED <<mpage, msnap, mstamp, sent, mrules, affinity, uac>>

CloseMenu ==
  /\ menuOn # Nil
  /\ menuOn' = Nil
  /\ UNCHANGED <<mpage, msnap, mstamp, picked, sent, mrules, affinity, uac>>

\* A command reaches its targets; with none left it only says so.
Command(verb, ids) ==
  /\ menuOn' = Nil
  /\ sent' = IF ids = {} THEN sent
             ELSE [verb |-> verb, ids |-> ids, rows |-> IF Batch THEN picked ELSE {menuOn.id}]
  /\ UNCHANGED <<mpage, msnap, mstamp, picked>>

\* End task: a batch, a collapsed row's members, or the process.
EndTargets == IF Batch THEN IF mpage = "processes" THEN SelectedMembers ELSE SelectedIds ELSE StandsFor(menuOn.id.pid)

MenuEnd ==
  /\ menuOn # Nil /\ Command("end", EndTargets)
  /\ UNCHANGED <<mrules, affinity, uac>>

\* End process tree is rooted at the concrete row.
MenuTree ==
  /\ menuOn # Nil /\ Command("tree", IF Batch THEN SelectedIds ELSE {menuOn.id})
  /\ UNCHANGED <<mrules, affinity, uac>>

\* Efficiency mode and Suspend: a batch switches the selected rows' own
\* processes, a collapsed row every member. On Details the efficiency tick is
\* always of the one row.
SwitchTargets(verb) ==
  IF verb = "efficiency" /\ mpage = "details" THEN {menuOn.id}
  ELSE IF Batch THEN SelectedIds ELSE StandsFor(menuOn.id.pid)

MenuSwitch ==
  /\ menuOn # Nil
  /\ \E verb \in {"efficiency", "suspend"} :
       /\ menuOn' = Nil
       /\ sent' = IF SwitchTargets(verb) = {} THEN sent
                  ELSE [verb |-> verb, ids |-> SwitchTargets(verb),
                        rows |-> IF verb = "efficiency" /\ mpage = "details" THEN {menuOn.id}
                                 ELSE IF Batch THEN picked ELSE {menuOn.id}]
  /\ UNCHANGED <<mpage, msnap, mstamp, picked, mrules, affinity, uac>>

-----------------------------------------------------------------------------
(* Priority and affinity, for the processes and for their program. *)

\* scope and action_targets
Scope == IF Batch THEN IF mpage = "processes" THEN SelectedMembers ELSE SelectedIds ELSE StandsFor(menuOn.id.pid)

\* The saved rule is offered for one program only, never for a batch.
RuleKey ==
  LET progs == {ProgramOf[id.pid] : id \in Scope}
  IN  IF Batch \/ Cardinality(progs) # 1 THEN Nil
      ELSE IF progs = {NoPath} THEN Nil ELSE CHOOSE g \in progs : TRUE

\* A class is chosen; the program's rule follows it if it has one.
MenuPriority ==
  /\ menuOn # Nil
  /\ \E c \in Classes :
       /\ Command("priority", Scope)
       /\ mrules' = IF Scope = {} \/ RuleKey = Nil THEN mrules
                    ELSE IF mrules[RuleKey].prio = Nil THEN mrules
                    ELSE [mrules EXCEPT ![RuleKey].prio = c]
  /\ UNCHANGED <<affinity, uac>>

\* "Save for this program": the class its processes have now, or no rule.
MenuSaveRule ==
  /\ menuOn # Nil /\ RuleKey # Nil
  /\ \E c \in Classes : mrules' = [mrules EXCEPT ![RuleKey].prio = IF @ = Nil THEN c ELSE Nil]
  /\ UNCHANGED <<mpage, msnap, mstamp, picked, menuOn, sent, affinity, uac>>

\* open_affinity_dialog: the mask is asked for in the background.
MenuAffinity ==
  /\ menuOn # Nil
  /\ affinity' = IF Scope = {} THEN Nil
                 ELSE LET key == IF Cardinality(Scope) = 1 THEN RuleKey ELSE Nil
                      IN  [targets |-> Scope, key |-> key, mask |-> Nil, failed |-> FALSE, at |-> mstamp,
                           save |-> IF key = Nil THEN FALSE ELSE mrules[key].mask # {}]
  /\ menuOn' = Nil
  /\ UNCHANGED <<mpage, msnap, mstamp, picked, sent, mrules, uac>>

\* The answer, or the refusal, is taken by the next frame of the dialog.
AffinityLoads ==
  /\ affinity # Nil
  /\ affinity.mask = Nil /\ ~affinity.failed
  /\ affinity' \in {[affinity EXCEPT !.mask = Cpus], [affinity EXCEPT !.failed = TRUE]}
  /\ UNCHANGED <<mpage, msnap, mstamp, picked, menuOn, sent, mrules, uac>>

\* Processors are ticked, all, none or one by one; the rule is ticked.
AffinityEdits ==
  /\ affinity # Nil
  /\ affinity.mask # Nil
  /\ \E mask \in SUBSET Cpus, save \in BOOLEAN :
       /\ save => affinity.key # Nil
       /\ affinity' = [affinity EXCEPT !.mask = mask, !.save = save]
  /\ UNCHANGED <<mpage, msnap, mstamp, picked, menuOn, sent, mrules, uac>>

\* apply_enabled
MayApply == affinity.mask \notin {Nil, {}} /\ ~affinity.failed

AffinityApply ==
  /\ affinity # Nil
  /\ MayApply
  /\ sent' = [verb |-> "affinity", ids |-> affinity.targets, rows |-> affinity.mask]
  /\ mrules' = IF affinity.key = Nil THEN mrules
               ELSE [mrules EXCEPT ![affinity.key].mask = IF affinity.save THEN affinity.mask ELSE {}]
  /\ affinity' = Nil
  /\ UNCHANGED <<mpage, msnap, mstamp, picked, menuOn, uac>>

AffinityCancel ==
  /\ affinity # Nil
  /\ affinity' = Nil
  /\ UNCHANGED <<mpage, msnap, mstamp, picked, menuOn, sent, mrules, uac>>

-----------------------------------------------------------------------------
\* UAC virtualization is asked about first, for the row's process.
MenuUac ==
  /\ menuOn # Nil /\ mpage = "details"
  /\ uac' = IF MLive(menuOn.id) THEN menuOn.id ELSE Nil
  /\ menuOn' = Nil
  /\ UNCHANGED <<mpage, msnap, mstamp, picked, sent, mrules, affinity>>

UacConfirmUnchecked ==
  /\ uac # Nil
  /\ sent' = [verb |-> "uac", ids |-> {uac}, rows |-> {uac}]
  /\ uac' = Nil
  /\ UNCHANGED <<mpage, msnap, mstamp, picked, menuOn, mrules, affinity>>

\* Confirmed: once more only if the process is still there.
UacConfirm ==
  /\ uac # Nil
  /\ sent' = IF MLive(uac) THEN [verb |-> "uac", ids |-> {uac}, rows |-> {uac}] ELSE sent
  /\ uac' = Nil
  /\ UNCHANGED <<mpage, msnap, mstamp, picked, menuOn, mrules, affinity>>

UacCancel ==
  /\ uac # Nil
  /\ uac' = Nil
  /\ UNCHANGED <<mpage, msnap, mstamp, picked, menuOn, sent, mrules, affinity>>

MenuNext ==
  \/ MenuSnapshot \/ PickRows \/ OpenMenu \/ CloseMenu
  \/ MenuEnd \/ MenuTree \/ MenuSwitch
  \/ MenuPriority \/ MenuSaveRule \/ MenuAffinity \/ AffinityLoads \/ AffinityEdits \/ AffinityApply \/ AffinityCancel
  \/ MenuUac \/ UacConfirm \/ UacCancel

MenuSpec == MenuInit /\ [][MenuNext]_menuVars

-----------------------------------------------------------------------------
\* What a command goes to is alive in the newest snapshot when it is clicked,
\* however long the menu or the question was open. (The affinity dialog keeps
\* the identities it was opened for; the back end checks them.)
SentIsLive == [][sent' # sent /\ sent'.verb # "affinity" => \A id \in sent'.ids : MLive(id)]_menuVars

\* A switch moves every process the chosen rows stand for: the tick a collapsed
\* row shows is that of any member. "A group labelled Resume because one member is
\* suspended must resume that member, not just the head" (processes.rs:1327).
RowsSwitchedWhole ==
  [][(sent' # sent /\ sent'.verb \in {"efficiency", "suspend"}) => UNION {StandsFor(id.pid) : id \in sent'.rows} \subseteq sent'.ids]_menuVars

\* A saved rule changes only with a choice made for processes of that one
\* program: a menu for a mixed group or a selection never writes the rule of
\* the row it happened to be opened on.
RuleForItsProgram ==
  [][\A g \in DOMAIN mrules : mrules'[g] # mrules[g] =>
       LET scope == IF affinity # Nil THEN affinity.targets ELSE Scope
       IN  /\ \A id \in scope : ProgramOf[id.pid] = g
           /\ affinity = Nil => ~Batch]_menuVars

\* The row menu: a command goes to processes that live and were shown, and a saved rule
\* is for the program of its row.
MenuSafe ==
  /\ SentIsLive /\ RuleForItsProgram

=============================================================================
