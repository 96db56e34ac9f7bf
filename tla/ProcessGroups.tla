---------------------------- MODULE ProcessGroups ----------------------------
(***************************************************************************)
(* The rows of the Processes page (tm-app/src/tabs/processes.rs).  Every    *)
(* process is put into a section, Apps, Background or Windows, and many     *)
(* are folded into one row "App [N]" whose End task ends all N of them, so  *)
(* the grouping decides what a click destroys.                              *)
(*                                                                         *)
(* A process is its parent PID (0: none on record), its start, and its      *)
(* kind: image, publisher ("": unknown), whether it owns a visible window   *)
(* and whether it is busy.  A parent link may be stale: its PID may have a  *)
(* younger owner.  The snapshot is walked by start, then PID.               *)
(***************************************************************************)
EXTENDS Integers, Sequences, FiniteSets, SequencesExt, FiniteSetsExt

CONSTANTS PPids,         \* PIDs, positive numbers
          Kinds,         \* kinds of process: image, pub, window, busy
          PBirths,       \* start times
          CoreImages,    \* images of the operating system (classify.rs)
          SvcHost,       \* the one that is grouped all the same
          Surfaces,      \* images that launch independent programs
          ShellImage,    \* the desktop shell
          Launchers,     \* images of application launchers
          HelperImages,  \* images that look like helpers
          NoProcess      \* no process, no row

ASSUME GroupsAssumption ==
  /\ PPids \subseteq Nat \ {0} /\ PBirths \subseteq Nat
  /\ \A k \in Kinds : k.window \in BOOLEAN /\ k.busy \in BOOLEAN

VARIABLES ptable,    \* PID -> process, or NoProcess
          opened,    \* PIDs of expanded groups
          chosen     \* the selected row: its PID, and the single process it was,
                     \* 0 when it was a group

groupVars == <<ptable, opened, chosen>>

-----------------------------------------------------------------------------
Alive(t) == {p \in PPids : t[p] # NoProcess}

IsSystem(t, p) == t[p].kind.image \in CoreImages

HasLink(t, p) == t[p].parent \in Alive(t) \ {p}

Fits(t, p) == HasLink(t, p) /\ t[t[p].parent].born <= t[p].born

SameImage(t, p, q) == t[p].kind.image = t[q].kind.image

SamePublisher(t, p, q) == t[p].kind.pub # "" /\ t[p].kind.pub = t[q].kind.pub

LooksHelper(t, p) == t[p].kind.image \in HelperImages

\* plausibly_same_application(a, b)
SameApplication(t, a, b) ==
  \/ SameImage(t, a, b)
  \/ LooksHelper(t, b) /\ (t[a].kind.image \in Launchers \/ SamePublisher(t, a, b))

\* joins_family(root, kid)
Joins(t, r, k) ==
  \/ SameImage(t, r, k)
  \/ /\ SamePublisher(t, r, k) /\ LooksHelper(t, k)
     /\ ~t[k].kind.window /\ ~t[k].kind.busy
     /\ ~IsSystem(t, r) /\ ~IsSystem(t, k) /\ t[r].kind.image \notin Surfaces

\* The closure of S under a step, in as many rounds as there are processes.
Closed(S, Step(_)) == FoldLeft(LAMBDA acc, i : acc \cup UNION {Step(x) : x \in acc}, S, [i \in 1..Cardinality(PPids) |-> i])

-----------------------------------------------------------------------------
(* derive_display_groups. *)

\* One step up from the window towards the application that owns it.
OwnerStep(t, p) ==
  IF /\ Fits(t, p)
     /\ ~IsSystem(t, t[p].parent) /\ t[t[p].parent].kind.image \notin Surfaces
     /\ SameApplication(t, t[p].parent, p)
  THEN {t[p].parent} ELSE {}

\* The walk stops at a process it has already seen.
AppRootOf(t, p) ==
  LET path == FoldLeft(LAMBDA acc, i : LET up == OwnerStep(t, Last(acc))
                                       IN  IF up = {} \/ up \subseteq Range(acc) THEN acc
                                           ELSE Append(acc, CHOOSE x \in up : TRUE),
                       <<p>>, [i \in 1..Cardinality(PPids) |-> i])
  IN  Last(path)

AppRoots(t) == {AppRootOf(t, p) : p \in {x \in Alive(t) : t[x].kind.window /\ ~IsSystem(t, x)}}

Owned(t, R, p) ==
  IF t[p].kind.image = ShellImage THEN {}
  ELSE {k \in Alive(t) : t[k].parent = p /\ Fits(t, k) /\ k \notin R /\ ~IsSystem(t, k)}

AppMembers(t, R) == Closed(R, LAMBDA p : Owned(t, R, p))

\* is_external_family_member: no ancestor within the family shares the image.
External(t, A, p) ==
  ~\E q \in Closed({p}, LAMBDA x : IF Fits(t, x) /\ t[x].parent \in A THEN {t[x].parent} ELSE {}) \ {p} :
      SameImage(t, p, q)

\* promote_busy_external_tasks: busy foreign tasks leave the application's row,
\* and take their own windowless descendants along.
Promoted(t, R, A) ==
  Closed({p \in A \ R : ~t[p].kind.window /\ t[p].kind.busy /\ External(t, A, p)},
         LAMBDA p : {k \in A \ R : t[k].parent = p /\ Fits(t, k) /\ ~t[k].kind.window})

\* The three sections of the page.
Sections(t) ==
  LET R    == AppRoots(t)
      A    == AppMembers(t, R)
      apps == A \ Promoted(t, R, A)
      sys  == {p \in Alive(t) : IsSystem(t, p)}
  IN  [roots |-> R, apps |-> apps, windows |-> sys, background |-> Alive(t) \ (apps \cup sys)]

-----------------------------------------------------------------------------
\* display_children_map: links inside one section, application roots cut. The
\* start times are not looked at here.
Kids(t, R, S, p) == {k \in S : t[k].parent = p /\ k # p /\ p \in S /\ k \notin R}

Earlier(t, a, b) == t[a].born < t[b].born \/ (t[a].born = t[b].born /\ a < b)

InOrder(t, S) == SetToSortSeq(S, LAMBDA a, b : Earlier(t, a, b))

TreeOf(t, R, S, p) == Closed({p}, LAMBDA x : Kids(t, R, S, x))

\* tree_roots: unlinked members, then one for each component left over.
TreeRoots(t, R, S) ==
  FoldLeft(LAMBDA acc, p : IF \E r \in acc : p \in TreeOf(t, R, S, r) THEN acc ELSE acc \cup {p},
           {p \in S : \A q \in S : p \notin Kids(t, R, S, q)}, InOrder(t, S))

\* emit_tree: one row per root of the Apps section.
AppRows(t, R, S) == {[head |-> r, members |-> TreeOf(t, R, S, r)] : r \in TreeRoots(t, R, S)}

\* application_family: what joins the head, over links that joined.
Family(t, R, S, p) == Closed({p}, LAMBDA x : {k \in Kids(t, R, S, x) : Joins(t, p, k)})

\* Heads in the order of the walk: a member already swallowed makes no family.
Families(t, R, S) ==
  FoldLeft(LAMBDA acc, p :
             LET fam == Family(t, R, S, p)
             IN  IF p \in acc.swallowed \/ fam = {p} THEN acc
                 ELSE [heads |-> acc.heads \cup {p}, swallowed |-> acc.swallowed \cup (fam \ {p})],
           [heads |-> {}, swallowed |-> {}], InOrder(t, S))

RunKeyed(t, p) == (~IsSystem(t, p) \/ t[p].kind.image = SvcHost) /\ ~t[p].kind.window
                  /\ t[p].parent # 0 /\ t[p].parent # p

\* sibling_run_key: repeat runs of one image under one parent, present or not.
RunOf(t, free, p) ==
  IF ~RunKeyed(t, p) THEN {p}
  ELSE {q \in free : RunKeyed(t, q) /\ t[q].parent = t[p].parent /\ SameImage(t, p, q)}

FlatRowsRunsOnly(t, R, S) ==
  LET F    == Families(t, R, S)
      free == S \ (F.heads \cup F.swallowed)
  IN  {[head |-> p, members |-> Family(t, R, S, p)] : p \in F.heads \ F.swallowed} \cup
      {[head |-> Min(RunOf(t, free, p)), members |-> RunOf(t, free, p)] : p \in {q \in free : RunKeyed(t, q)}}

\* emit_flat_with_family_groups.
FlatRows(t, R, S) ==
  LET F    == Families(t, R, S)
      free == S \ (F.heads \cup F.swallowed)
  IN  {[head |-> p, members |-> Family(t, R, S, p)] : p \in F.heads \ F.swallowed} \cup
      {[head |-> p, members |-> RunOf(t, free, p)] : p \in {q \in free : q = Min(RunOf(t, free, q))}}

\* build_display_rows: the top-level rows of the three sections.
Rows(t) ==
  UNION {AppRows(t, s.roots, s.apps) \cup UNION {FlatRows(t, s.roots, S) : S \in {s.background, s.windows}} :
         s \in {Sections(t)}}

\* An expanded group shows each member on a row of its own below its head.
IsGroup(r) == Cardinality(r.members) > 1

OpenGroup(r, o) == IsGroup(r) /\ r.head \in o

Singles(rows, o) == UNION {r.members : r \in {x \in rows : OpenGroup(x, o) \/ ~IsGroup(x)}}

-----------------------------------------------------------------------------
(* End task: termination_targets_for_selection for one selected process.      *)

\* The selected row's members if it is a collapsed group, else the process.
Targets(t, o, p) ==
  LET shut == {r \in Rows(t) : r.head = p /\ ~OpenGroup(r, o)}
  IN  IF shut # {} THEN UNION {r.members : r \in shut} ELSE {p}

-----------------------------------------------------------------------------
GroupsInit ==
  /\ ptable = [p \in PPids |-> NoProcess]
  /\ opened = {}
  /\ chosen = NoProcess

\* A snapshot brings a process (bound: only before the first click on a row); one
\* that names itself as its parent is treated like one that names nobody.
ProcessAppears ==
  \E p \in PPids, q \in PPids \cup {0}, b \in PBirths, k \in Kinds :
    /\ ptable[p] = NoProcess /\ q # p /\ chosen = NoProcess /\ opened = {}
    /\ ptable' = [ptable EXCEPT ![p] = [parent |-> q, born |-> b, kind |-> k]]
    /\ UNCHANGED <<opened, chosen>>

\* A selection whose process is gone is dropped (retain_live).
ProcessVanishes ==
  \E p \in Alive(ptable) :
    /\ ptable' = [ptable EXCEPT ![p] = NoProcess]
    /\ chosen' = IF chosen = NoProcess THEN chosen ELSE IF chosen.pid = p THEN NoProcess ELSE chosen
    /\ UNCHANGED opened

\* toggle_expanded, from the chevron of a group row.
ToggleGroup(rows) ==
  \E r \in {x \in rows : IsGroup(x)} :
    /\ opened' = IF r.head \in opened THEN opened \ {r.head} ELSE opened \cup {r.head}
    /\ UNCHANGED <<ptable, chosen>>

\* A click on a row: a collapsed group, or one process.
ChooseGroup(rows) ==
  \E r \in {x \in rows : IsGroup(x) /\ x.head \notin opened} :
    /\ chosen' = [pid |-> r.head, single |-> 0]
    /\ UNCHANGED <<ptable, opened>>

ChooseSingle(rows) ==
  \E p \in Singles(rows, opened) :
    /\ chosen' = [pid |-> p, single |-> p]
    /\ UNCHANGED <<ptable, opened>>

OnRows(rows) == ToggleGroup(rows) \/ ChooseGroup(rows) \/ ChooseSingle(rows)
GroupsNext == ProcessAppears \/ ProcessVanishes \/ OnRows(Rows(ptable))

GroupsSpec == GroupsInit /\ [][GroupsNext]_groupVars

-----------------------------------------------------------------------------
\* No link leads to a process that is walked later.
LinksHold(t) == \A p \in Alive(t) : HasLink(t, p) => Earlier(t, t[p].parent, p)

\* No process belongs to two rows: ending one task never takes a process that
\* the list shows as part of another (family heads, runs and tree roots).
RowsApart(rows) ==
  \A r, s \in rows : r # s => r.members \cap s.members = {}

\* Every process is in the list, whatever is folded into what, as long as no
\* parent link points at a process created later.
EveryProcessListed(rows) ==
  LinksHold(ptable) => UNION {r.members : r \in rows} = Alive(ptable)

\* The same without the condition: "every process gets its own row".
EveryProcessListedAlways ==
  UNION {r.members : r \in Rows(ptable)} = Alive(ptable)

\* A window is never hidden in Background: a process with a visible window that
\* is not a core image is listed under Apps.
WindowsAreApps ==
  {p \in Alive(ptable) : ptable[p].kind.window /\ ~IsSystem(ptable, p)} \subseteq Sections(ptable).apps

\* What End task ends for a process chosen on a row of its own, when its group
\* was folded since and another member stands for it, is that process alone.
ChildStaysSingle(rows) ==
  (chosen # NoProcess /\ chosen.single # 0 /\ ~\E r \in rows : r.head = chosen.pid)
    => Targets(ptable, opened, chosen.pid) = {chosen.single}

\* The same for every process chosen on a row of its own.
SingleStaysSingle ==
  (chosen # NoProcess /\ chosen.single # 0) => Targets(ptable, opened, chosen.pid) = {chosen.single}

-----------------------------------------------------------------------------
(***************************************************************************)
(* subtree_rollups: what a collapsed row says of the processes under it,   *)
(* computed by an explicit stack so that a deep or damaged parent chain    *)
(* cannot exhaust the real one.  One action is one pop of the stack.       *)
(***************************************************************************)

CONSTANTS WalkPids, NoParent

Statuses == {"running", "suspended", "hung"}

VARIABLES
    parentOf, throttled, own,    \* the snapshot: parents, efficiency mode, status
    pending, stack,              \* roots still to visit; the frames
    finished, entered,           \* done and in_progress
    eco, status                  \* the results so far

snapVars == <<parentOf, throttled, own>>
walkVars == <<snapVars, pending, stack, finished, entered, eco, status>>

KidsOf(p) == {q \in WalkPids \ {p} : parentOf[q] = p}

\* The processes above p.  A reused PID can close a ring of parents.
Above(p) ==
    LET RECURSIVE up(_, _)
        up(q, seen) == IF q = NoParent \/ q \in seen THEN seen ELSE up(parentOf[q], seen \cup {q})
    IN  up(parentOf[p], {})

WalkInit ==
    /\ parentOf \in [WalkPids -> WalkPids \cup {NoParent}]
    /\ throttled \in [WalkPids -> BOOLEAN] /\ own \in [WalkPids -> Statuses]
    /\ pending = SetToSeq(WalkPids) /\ stack = <<>>
    /\ finished = {} /\ entered = {}
    /\ eco = [p \in {} |-> FALSE] /\ status = [p \in {} |-> "running"]

\* The outer loop: the next process that no walk has reached yet.
NextRoot ==
    /\ stack = <<>> /\ pending # <<>>
    /\ pending' = Tail(pending)
    /\ stack' = IF Head(pending) \in finished THEN <<>>
                ELSE <<[op |-> "enter", pid |-> Head(pending)]>>
    /\ UNCHANGED <<snapVars, finished, entered, eco, status>>

Record(p, e, s) ==
    /\ eco' = [q \in DOMAIN eco \cup {p} |-> IF q = p THEN e ELSE eco[q]]
    /\ status' = [q \in DOMAIN status \cup {p} |-> IF q = p THEN s ELSE status[q]]
    /\ finished' = finished \cup {p} /\ entered' = entered \ {p}

\* Mutation: the frame that combines is put above the children's.
FramesCombineFirst(p, kids) ==
    [i \in 1..Len(kids) |-> [op |-> "enter", pid |-> kids[i]]] \o <<[op |-> "combine", pid |-> p]>>
Frames(p, kids) ==
    <<[op |-> "combine", pid |-> p]>> \o [i \in 1..Len(kids) |-> [op |-> "enter", pid |-> kids[i]]]

Enter ==
    /\ stack # <<>> /\ Last(stack).op = "enter"
    /\ LET p == Last(stack).pid
           rest == Front(stack)
       IN  IF p \in finished \cup entered
             THEN stack' = rest /\ UNCHANGED <<finished, entered, eco, status>>
           ELSE IF KidsOf(p) = {}
             THEN stack' = rest /\ Record(p, throttled[p], own[p])
           ELSE /\ stack' = rest \o Frames(p, SetToSeq(KidsOf(p) \ (finished \cup entered)))
                /\ entered' = entered \cup {p}
                /\ UNCHANGED <<finished, eco, status>>
    /\ UNCHANGED <<snapVars, pending>>

Rolled(p) ==
    IF \E k \in KidsOf(p) \cap finished : status[k] = "hung" THEN "hung"
    ELSE IF own[p] # "hung" /\ \E k \in KidsOf(p) \cap finished : status[k] = "suspended"
           THEN "suspended" ELSE own[p]

RolledEco(p) == throttled[p] \/ \E k \in KidsOf(p) \cap finished : eco[k]

Combine ==
    /\ stack # <<>> /\ Last(stack).op = "combine"
    /\ LET p == Last(stack).pid
       IN  Record(p, RolledEco(p), Rolled(p))
    /\ stack' = Front(stack)
    /\ UNCHANGED <<snapVars, pending>>

WalkNext == NextRoot \/ Enter \/ Combine
WalkSpec == WalkInit /\ [][WalkNext]_walkVars

-----------------------------------------------------------------------------
(* Properties.                                                              *)

Below0(p) == {q \in WalkPids : p \in Above(q)} \cup {p}
Worst(S) ==
    IF "hung" \in S THEN "hung" ELSE IF "suspended" \in S THEN "suspended" ELSE "running"

\* A finished process carries the leaf exactly when it or something below it
\* runs in efficiency mode, and the worst status of its whole subtree, in
\* whatever order the roots and the children came; only a process on a ring of
\* parents may know less (Subtree).
RollupExact ==
    \A p \in finished : p \notin Above(p) =>
        /\ eco[p] = \E q \in Below0(p) : throttled[q]
        /\ status[p] = Worst({own[q] : q \in Below0(p)})

\* Even then every process gets a result before the walk ends, and what it has
\* of its own is never lost.
WalkComplete ==
    pending = <<>> /\ stack = <<>> =>
        /\ finished = WalkPids /\ entered = {}
        /\ \A p \in WalkPids : throttled[p] => eco[p]


-----------------------------------------------------------------------------
(***************************************************************************)
(* The rows of the Details page in tree order (tm-app/src/tabs/details.rs,  *)
(* build_rows).  A process names its parent by PID, so a link may be stale: *)
(* the parent may be gone, its PID may have a younger owner, and where the  *)
(* start times do not tell, links may even form a cycle.                    *)
(*                                                                         *)
(* `table` is any process table a snapshot may hold: PIDs are 1..MaxPid, a  *)
(* parent of 0 is none, a start of 0 is unknown.                            *)
(***************************************************************************)

CONSTANTS MaxPid,     \* processes of a snapshot (bound)
          Births,     \* start times, 0 for an unknown one
          Gone        \* no process with this PID

ASSUME TreeAssumption == MaxPid \in Nat /\ 0 \in Births /\ Births \subseteq Nat

VARIABLES table,      \* PID -> parent and start, or Gone
          matches,    \* PIDs the search matches
          searching,  \* the search box is not empty
          folded      \* PIDs the user collapsed

treeVars == <<table, matches, searching, folded>>

TreePids == 1..MaxPid

Present(t) == {p \in TreePids : t[p] # Gone}

-----------------------------------------------------------------------------

\* is_plausible_parent: no process is younger than its child; an unknown start
\* is no evidence.
Plausible(t, q, p) == t[q].born = 0 \/ t[p].born = 0 \/ t[q].born <= t[p].born

\* The PIDs met going up from p, over links that exist whether plausible or not.
Climb(t, S) == S \cup {t[p].parent : p \in {x \in S : t[x].parent \in Present(t)}}

Ancestors(t, S) == Climb(t, Climb(t, Climb(t, S)))

\* Matches, and while searching everything above them.
Members(t, hit, search) ==
  IF ~search THEN Present(t) ELSE Ancestors(t, hit \cap Present(t))

ChildrenOf(t, M, q) ==
  {p \in M : t[p].parent = q /\ q # p /\ q \in M /\ Plausible(t, q, p)}

\* Creation order, then PID (sort_processes in tree order).
Older(t, a, b) == t[a].born < t[b].born \/ (t[a].born = t[b].born /\ a < b)

Ordered(t, S) == SetToSortSeq(S, LAMBDA a, b : Older(t, a, b))

Grow(t, M, S) == S \cup UNION {ChildrenOf(t, M, q) : q \in S}

\* mark_tree_component.
Component(t, M, q) == Grow(t, M, Grow(t, M, Grow(t, M, {q})))

NaturalRoots(t, M) == {p \in M : \A q \in M : p \notin ChildrenOf(t, M, q)}

\* A cycle has no root of its own: the first member in the snapshot's order that
\* is not covered yet stands for it (any order: the table comes from a hash map).
Roots(t, M) ==
  FoldLeft(LAMBDA R, p : IF \E q \in R : p \in Component(t, M, q) THEN R ELSE R \cup {p},
           NaturalRoots(t, M), SetToSeq(M))

\* The depth first walk, with its stack of <<process, depth>>.
RECURSIVE Walk(_, _, _, _, _)
Walk(t, M, open, todo, rows) ==
  IF todo = <<>> THEN rows
  ELSE LET p    == Head(todo)[1]
           d    == Head(todo)[2]
           done == {rows[i].pid : i \in 1..Len(rows)} \cup {p}
           kids == Ordered(t, ChildrenOf(t, M, p) \ done)
           row  == [pid |-> p, depth |-> d, children |-> kids # <<>>]
       IN  IF p \in {rows[i].pid : i \in 1..Len(rows)}
           THEN Walk(t, M, open, Tail(todo), rows)
           ELSE Walk(t, M, open,
                     (IF p \in open THEN [i \in 1..Len(kids) |-> <<kids[i], d + 1>>] ELSE <<>>) \o Tail(todo),
                     Append(rows, row))

\* A collapsed process is open all the same while a search is on.
OpenRows(M, f, search) == IF search THEN M ELSE M \ f

BuildRows(t, hit, search, f) ==
  LET M == Members(t, hit, search)
      R == Ordered(t, Roots(t, M))
  IN  Walk(t, M, OpenRows(M, f, search), [i \in 1..Len(R) |-> <<R[i], 0>>], <<>>)

-----------------------------------------------------------------------------
TreeInit ==
  /\ table = [p \in TreePids |-> Gone]
  /\ matches = {}
  /\ searching = FALSE
  /\ folded = {}

\* A snapshot brings a process, with any parent PID on record but its own, which
\* counts as none, or drops one.
Appears ==
  \E p \in TreePids, q \in 0..MaxPid, b \in Births :
    /\ table[p] = Gone /\ q # p
    /\ table' = [table EXCEPT ![p] = [parent |-> q, born |-> b]]
    /\ UNCHANGED <<matches, searching, folded>>

Vanishes ==
  \E p \in Present(table) :
    /\ table' = [table EXCEPT ![p] = Gone]
    /\ UNCHANGED <<matches, searching, folded>>

Types ==
  /\ searching' \in BOOLEAN
  /\ matches' \in IF searching' THEN SUBSET TreePids ELSE {{}}
  /\ UNCHANGED <<table, folded>>

\* toggle_expanded, ExpandAll and CollapseAll.
FoldRows ==
  /\ folded' \in {{}, folded \cup Present(table)} \cup
                 {IF p \in folded THEN folded \ {p} ELSE folded \cup {p} : p \in TreePids}
  /\ UNCHANGED <<table, matches, searching>>

TreeNext == Appears \/ Vanishes \/ Types \/ FoldRows

TreeSpec == TreeInit /\ [][TreeNext]_treeVars

-----------------------------------------------------------------------------
TreeRows == BuildRows(table, matches, searching, folded)

FoldedAbove(p) ==
  \E q \in folded \ {p} : p \in Component(table, Present(table), q)

\* No process is lost and none is shown twice, whatever the links are: every
\* matching process, with all that is above it, has exactly one row, and without
\* a search only what lies under a collapsed process is missing.
EveryProcessOnce(rows) ==
  LET pids == {rows[i].pid : i \in 1..Len(rows)}
  IN  /\ Len(rows) = Cardinality(pids)
      /\ IF searching THEN pids = Members(table, matches, TRUE)
         ELSE pids \subseteq Present(table) /\ \A p \in Present(table) \ pids : FoldedAbove(p)

\* A row is never nested under a stranger: the nearest row above it that is one
\* level up is its recorded parent, and is not younger than it.
UnderItsParent(rows) ==
  \A i \in 1..Len(rows) :
        rows[i].depth > 0 =>
          LET up == Max({j \in 1..i - 1 : rows[j].depth < rows[i].depth})
              c  == table[rows[i].pid]
              q  == table[rows[up].pid]
          IN  /\ rows[up].depth = rows[i].depth - 1
              /\ c.parent = rows[up].pid
              /\ c.born # 0 /\ q.born # 0 => q.born <= c.born

\* The chevron tells the truth: an open row that has one is followed by a child,
\* a row without one by no deeper row.
ChevronTruthful(rows) ==
  \A i \in 1..Len(rows) :
        (i < Len(rows) /\ rows[i + 1].depth > rows[i].depth) <=>
        (rows[i].children /\ (searching \/ rows[i].pid \notin folded))

\* Lists over damaged parent links: every process has one row in each of them, End task
\* on a single row ends that process, a window is never in Background, a collapsed row
\* says what is under it, and the tree follows plausible parents.
ListSound ==
  \A rows \in {Rows(ptable)}, tree \in {TreeRows} :
      /\ RowsApart(rows) /\ EveryProcessListed(rows) /\ WindowsAreApps /\ ChildStaysSingle(rows)
      /\ RollupExact /\ WalkComplete
      /\ EveryProcessOnce(tree) /\ UnderItsParent(tree) /\ ChevronTruthful(tree)
=============================================================================
