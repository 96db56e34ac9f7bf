---------------------------- MODULE ValueColumns ----------------------------
(***************************************************************************)
(* The header of the process-shaped tables: the numeric columns the user   *)
(* drags into an order of their own (tm-app/src/tabs/value_columns.rs), the *)
(* header that takes the gestures (widgets/tablekit.rs, TmTable::header)    *)
(* and what the Processes and Users pages persist of it.                    *)
(*                                                                         *)
(* A logical column indexes every row's values and the totals; a display   *)
(* slot is where it is painted.  The first FixedCols columns never move.   *)
(* Columns are counted from 0, as in the code.                             *)
(***************************************************************************)
EXTENDS Integers, Sequences, FiniteSets, SequencesExt, FiniteSetsExt

CONSTANTS FixedCols,    \* label column and Status
          ValueCols,    \* numeric columns
          Unknown,      \* a column id this build does not know
          Untouched,    \* nothing is stored
          MinW, MaxW    \* narrowest and widest column (bounds on widths)

ASSUME ValueColumnsAssumption ==
  FixedCols \in Nat /\ ValueCols \in Nat \ {0} /\ MinW \in Nat /\ MaxW \in Nat /\ MinW < MaxW

VARIABLES vorder,       \* display order of the numeric block, of logical indices
          vsort,        \* logical sort column and direction
          active,       \* logical column the header's roving stop is on
          dragging,     \* display slot a drag started at, or -1
          vstored       \* settings: col_order, table_sort, col_widths

valueVars == <<vorder, vsort, active, dragging, vstored>>

Logical == 0..FixedCols + ValueCols - 1

Movable == FixedCols..FixedCols + ValueCols - 1

DefaultOrder == [i \in 1..ValueCols |-> i - 1]

DefaultW == MinW + 1

-----------------------------------------------------------------------------
(* value_columns.rs. *)

LogicalCol(ord, d) == IF d < FixedCols THEN d ELSE FixedCols + ord[d - FixedCols + 1]

DisplayCol(ord, l) ==
  IF l < FixedCols THEN l ELSE FixedCols + (CHOOSE i \in 1..Len(ord) : ord[i] = l - FixedCols) - 1

MoveColumn(ord, from, to) ==
  IF from \notin Movable \/ to \notin Movable \/ from = to THEN ord
  ELSE InsertAt(RemoveAt(ord, from - FixedCols + 1), to - FixedCols + 1, ord[from - FixedCols + 1])

\* Keep the first of each known id, and append the columns the file predates.

ApplySaved(ids) ==
  LET known == SelectSeq(ids, LAMBDA id : id # Unknown)
      once  == FoldLeft(LAMBDA acc, id : IF Contains(acc, id) THEN acc ELSE Append(acc, id), <<>>, known)
  IN  once \o SelectSeq(DefaultOrder, LAMBDA li : ~Contains(once, li))

\* The column a header cell or a row's cell at display slot d belongs to.
SlotOf(ord, d) == LogicalCol(ord, d)

\* Widths are stored per column id; one out of range is ignored.
Width(st, l) == IF st.widths # Untouched /\ st.widths[l] \in MinW..MaxW THEN st.widths[l] ELSE DefaultW

ClampW(w) == Max({MinW, Min({MaxW, w})})

-----------------------------------------------------------------------------
(* What the pages persist and restore (app.rs). *)

PersistOrder(st, ord) == [st EXCEPT !.order = IF ord = DefaultOrder THEN Untouched ELSE ord]

\* The sort is stored under the id of the column, never its display slot.
PersistSort(st, ord, l, up) == [st EXCEPT !.sort = [col |-> l, up |-> up]]

RestoredOrder(st) == IF st.order = Untouched THEN DefaultOrder ELSE ApplySaved(st.order)

RestoredSort(st) ==
  IF st.sort = Untouched \/ st.sort.col = Unknown THEN [col |-> 0, up |-> TRUE] ELSE st.sort

\* A file from another build, or edited by hand.
Files ==
  [order  : {Untouched, <<>>, <<Unknown, ValueCols - 1>>, <<1, 1, 0>>},
   sort   : {Untouched, [col |-> Unknown, up |-> FALSE]},
   widths : {Untouched, [l \in Logical |-> MaxW + 1]}]

LoadLayout(st) ==
  /\ vstored' = st
  /\ vorder' = RestoredOrder(st)
  /\ vsort' = RestoredSort(st)
  /\ active' = 0
  /\ dragging' = -1

ValueInit ==
  /\ vstored \in Files
  /\ vorder = RestoredOrder(vstored)
  /\ vsort = RestoredSort(vstored)
  /\ active = 0
  /\ dragging = -1

-----------------------------------------------------------------------------
(* Gestures on the header. *)

\* Left and Right move the roving stop; it is remembered by column id.
HeaderStep ==
  \E step \in {-1, 1} :
    LET at == DisplayCol(vorder, active)
        to == Max({0, Min({at + step, FixedCols + ValueCols - 1})})
    IN  /\ active' = SlotOf(vorder, to)
        /\ UNCHANGED <<vorder, vsort, dragging, vstored>>

\* A finished reorder is taken by the page, which rewrites and stores its order.
Reordered(from, to) ==
  /\ vorder' = MoveColumn(vorder, from, to)
  /\ vstored' = IF vorder' = vorder THEN vstored ELSE PersistOrder(vstored, vorder')
  /\ UNCHANGED vsort

\* Mutation: the active column stays in its slot.
ActiveAfterBySlot(from) == SlotOf(vorder', from)
ActiveAfter(from) == active

\* Alt and an arrow carry the active column one slot on.
HeaderReorder ==
  \E step \in {-1, 1} :
    LET from == DisplayCol(vorder, active)
    IN  /\ from \in Movable /\ from + step \in Movable
        /\ Reordered(from, from + step)
        /\ active' = ActiveAfter(from)
        /\ UNCHANGED dragging

DragStarts ==
  /\ dragging = -1
  /\ dragging' \in Movable
  /\ UNCHANGED <<vorder, vsort, active, vstored>>

\* The slot under the pointer, clamped into the movable range.
DropSlot(x) == Max({FixedCols, Min({x, FixedCols + ValueCols - 1})})

DragEnds ==
  /\ dragging # -1
  /\ \E x \in -1..FixedCols + ValueCols : Reordered(dragging, DropSlot(x))
  /\ dragging' = -1
  /\ UNCHANGED active

\* Enter, Space or a click on a header cell: a numeric column starts downwards.
HeaderClicks ==
  \E d \in Logical :
    LET l  == LogicalCol(vorder, d)
        up == IF vsort.col = l THEN ~vsort.up ELSE l < FixedCols
    IN  /\ vsort' = [col |-> l, up |-> up]
        /\ vstored' = PersistSort(vstored, vorder, l, up)
        /\ active' = l
        /\ UNCHANGED <<vorder, dragging>>

\* A separator is dragged, double-clicked (the measured width) or moved by keys.
HeaderResizes ==
  \E d \in Logical, w \in {MinW - 1, MaxW + 1} :
    LET l == LogicalCol(vorder, d)
    IN  /\ vstored' = [vstored EXCEPT !.widths = [c \in Logical |-> IF c = l THEN ClampW(w) ELSE Width(vstored, c)]]
        /\ UNCHANGED <<vorder, vsort, active, dragging>>

\* The program starts again with what the settings hold.
LayoutReloaded == LoadLayout(vstored)

ValueNext ==
  \/ HeaderStep \/ HeaderReorder \/ DragStarts \/ DragEnds
  \/ HeaderClicks \/ HeaderResizes \/ LayoutReloaded

ValueSpec == ValueInit /\ [][ValueNext]_valueVars

-----------------------------------------------------------------------------
\* Every numeric column is in the block exactly once and the fixed ones never
\* leave their place, whatever a file of another build said and however the
\* columns were dragged: a column can neither disappear nor tear the heat band.
EveryColumnOnce ==
  /\ Len(vorder) = ValueCols /\ Range(vorder) = 0..ValueCols - 1
  /\ \A l \in Logical : LogicalCol(vorder, DisplayCol(vorder, l)) = l

\* A restart shows the table as it was left: the order and the sort column and
\* direction survive every sequence of drags, key moves, clicks and resizes.
LayoutSurvives ==
  /\ RestoredOrder(vstored) = vorder
  /\ RestoredSort(vstored) = vsort

\* A column moved by the keyboard stays the active one, so that the next key
\* carries the same column on and not the one it changed places with.
KeysCarryOneColumn ==
  [][(vorder' # vorder /\ dragging' = dragging /\ active \in Movable) => active' = active]_valueVars

-----------------------------------------------------------------------------
(***************************************************************************)
(* Which columns the Details page shows, in which order, and by which one   *)
(* it sorts (tm-app/src/tabs/details.rs, State and select_columns_dialog),  *)
(* and what the settings file keeps of it.                                  *)
(*                                                                         *)
(* The Name column alone offers a third order, the parent and child tree.  *)
(* Only what differs from the built-in layout is stored, so the file may   *)
(* name columns this build does not have, or hide all of them.             *)
(***************************************************************************)

CONSTANTS BuiltIn,        \* the columns in the built-in order
          DefaultVisible, \* the columns shown by default
          NumericCols,    \* columns that sort downwards at the first click
          NameCol,        \* the column that offers the tree
          GhostCol,       \* an id this build does not know
          NotStored       \* nothing is stored

DCols == Range(BuiltIn)

ASSUME DetailsColumnsAssumption ==
  /\ IsInjective(BuiltIn) /\ NameCol \in DefaultVisible
  /\ DefaultVisible \subseteq DCols /\ NumericCols \subseteq DCols \ {NameCol} /\ GhostCol \notin DCols

VARIABLES dorder,     \* display order, hidden columns included
          dvisible,   \* the columns shown
          dsort,      \* sort column and order: "asc", "desc" or "tree"
          dstored     \* settings: col_visible, col_order, table_sort, the tree flag

detailsVars == <<dorder, dvisible, dsort, dstored>>

-----------------------------------------------------------------------------
FirstVisible(ord, vis) == SelectSeq(ord, LAMBDA c : c \in vis)[1]

Rank(ord, vis, c) == CHOOSE i \in 1..Len(SelectSeq(ord, LAMBDA x : x \in vis)) :
                       SelectSeq(ord, LAMBDA x : x \in vis)[i] = c

\* SortOrder::next: the order after a click on the column already sorted by.
NextOrder(dir, tree) ==
  CASE dir = "asc"             -> "desc"
    [] dir = "desc" /\ tree    -> "tree"
    [] dir = "desc" /\ ~tree   -> "asc"
    [] dir = "tree"            -> "asc"

\* SortOrder::from_saved: the tree flag counts only for the Name column.
FromSaved(c, asc, tree) == IF tree /\ c = NameCol THEN "tree" ELSE IF asc THEN "asc" ELSE "desc"

SortWithin(ord, vis, s) == IF s.col \in vis THEN s ELSE [col |-> FirstVisible(ord, vis), dir |-> "asc"]

-----------------------------------------------------------------------------
(* apply_saved_prefs and apply_saved_sort. *)

RestoredDOrder(st) ==
  IF st.order = NotStored THEN BuiltIn
  ELSE LET once == FoldLeft(LAMBDA acc, c : IF c = GhostCol \/ Contains(acc, c) THEN acc ELSE Append(acc, c),
                            <<>>, st.order)
       IN  once \o SelectSeq(BuiltIn, LAMBDA c : ~Contains(once, c))

\* A file that hides everything is not obeyed.
RestoredVisible(st) ==
  LET next == (DefaultVisible \ {c \in DOMAIN st.visible : ~st.visible[c]}) \cup
              {c \in DCols \cap DOMAIN st.visible : st.visible[c]}
  IN  IF next = {} THEN DefaultVisible ELSE next

RestoredDSort(st) ==
  LET ord  == RestoredDOrder(st)
      vis  == RestoredVisible(st)
      name == IF st.sort = NotStored THEN [col |-> NameCol, asc |-> TRUE] ELSE st.sort
  IN  IF name.col \in vis THEN [col |-> name.col, dir |-> FromSaved(name.col, name.asc, st.tree)]
      ELSE SortWithin(ord, vis, [col |-> NameCol, dir |-> "asc"])

\* persist_column_prefs: only what differs from the built-in layout is kept.
PersistPrefs(st, ord, vis) ==
  [st EXCEPT !.visible = [c \in (vis \ DefaultVisible) \cup (DefaultVisible \ vis) |-> c \in vis],
             !.order   = IF ord = BuiltIn THEN NotStored ELSE ord]

PersistDSort(st, s) ==
  [st EXCEPT !.sort = [col |-> s.col, asc |-> s.dir # "desc"], !.tree = (s.dir = "tree")]

-----------------------------------------------------------------------------
\* Files a session may find: none, of another build, or edited by hand.
DetailsFiles ==
  [visible : {<<>>, [c \in DCols |-> FALSE], [c \in {GhostCol, BuiltIn[Len(BuiltIn)]} |-> TRUE], [c \in {NameCol} |-> FALSE]},
   order   : {NotStored, <<GhostCol, BuiltIn[2], BuiltIn[2]>>},
   sort    : {NotStored, [col |-> BuiltIn[2], asc |-> FALSE]},
   tree    : BOOLEAN]

DetailsColumnsInit ==
  /\ dstored \in DetailsFiles
  /\ dorder = RestoredDOrder(dstored)
  /\ dvisible = RestoredVisible(dstored)
  /\ dsort = RestoredDSort(dstored)

\* The last visible column stays, and the sort leaves a column that is hidden.
SetVisible(c, on) ==
  /\ dvisible' = IF on THEN dvisible \cup {c} ELSE IF dvisible = {c} THEN dvisible ELSE dvisible \ {c}
  /\ dsort' = IF dsort.col = c THEN SortWithin(dorder, dvisible', dsort) ELSE dsort

\* A check box of the dialog: the layout is stored, and the sort with it.
ToggleColumn ==
  \E c \in DCols :
    /\ SetVisible(c, c \notin dvisible)
    /\ dstored' = PersistDSort(PersistPrefs(dstored, dorder, dvisible'), dsort')
    /\ UNCHANGED dorder

Swapped(ord, a, b) ==
  [i \in DOMAIN ord |-> IF ord[i] = a THEN b ELSE IF ord[i] = b THEN a ELSE ord[i]]

\* move_visible: a column changes places with the next visible one.
MoveVisible ==
  \E c \in dvisible, delta \in {-1, 1} :
    LET vis == SelectSeq(dorder, LAMBDA x : x \in dvisible)
        to  == Rank(dorder, dvisible, c) + delta
    IN  /\ to \in 1..Len(vis)
        /\ dorder' = Swapped(dorder, c, vis[to])
        /\ dstored' = PersistPrefs(dstored, dorder', dvisible)
        /\ UNCHANGED <<dvisible, dsort>>

\* clicked_column: any other column than Name leaves the tree.
ClickColumn ==
  \E c \in dvisible :
    /\ dsort' = [col |-> c,
                 dir |-> IF dsort.col = c THEN NextOrder(dsort.dir, c = NameCol)
                         ELSE IF c \in NumericCols THEN "desc" ELSE "asc"]
    /\ dstored' = PersistDSort(dstored, dsort')
    /\ UNCHANGED <<dorder, dvisible>>

\* The View menu: into the tree and out of it, even while Name is hidden.
TreeView ==
  /\ dsort' = [col |-> NameCol, dir |-> IF dsort.dir = "tree" THEN "asc" ELSE "tree"]
  /\ dstored' = PersistDSort(dstored, dsort')
  /\ UNCHANGED <<dorder, dvisible>>

DetailsReloaded ==
  /\ dorder' = RestoredDOrder(dstored)
  /\ dvisible' = RestoredVisible(dstored)
  /\ dsort' = RestoredDSort(dstored)
  /\ UNCHANGED dstored

DetailsColumnsNext == ToggleColumn \/ MoveVisible \/ ClickColumn \/ TreeView \/ DetailsReloaded

DetailsColumnsSpec == DetailsColumnsInit /\ [][DetailsColumnsNext]_detailsVars

-----------------------------------------------------------------------------
\* The table stays usable whatever the file says and whatever is hidden: at
\* least one column is shown, every column has one place in the order, the sort
\* column is visible or is Name (the View menu sorts by Name without showing it)
\* and only the Name column shows the tree.
TableUsable ==
  /\ dvisible # {} /\ dvisible \subseteq DCols
  /\ Len(dorder) = Len(BuiltIn) /\ Range(dorder) = DCols
  /\ dsort.col \in dvisible \cup {NameCol}
  /\ dsort.dir = "tree" => dsort.col = NameCol

\* The user's layout survives a restart: visibility and order always, and the
\* sort wherever the stored one names a column that is shown (a file without a
\* sort stands for the Name column).
DetailsSurvive ==
  /\ RestoredDOrder(dstored) = dorder
  /\ RestoredVisible(dstored) = dvisible
  /\ (IF dstored.sort = NotStored THEN NameCol ELSE dstored.sort.col) \in dvisible =>
       RestoredDSort(dstored) = dsort

\* Moving a column leaves the relative order of all the other visible columns
\* alone, however many hidden ones lie between (order.swap over the full list).
OthersKeepOrder ==
  [][(dorder' # dorder /\ dvisible' = dvisible) =>
       \E c, e \in dvisible :
         SelectSeq(dorder', LAMBDA x : x \in dvisible \ {c, e}) = SelectSeq(dorder, LAMBDA x : x \in dvisible \ {c, e})
         /\ Rank(dorder', dvisible, c) = Rank(dorder, dvisible, e)
         /\ Rank(dorder', dvisible, e) = Rank(dorder, dvisible, c) /\ c # e]_detailsVars

\* The columns: each is there once, at least one is visible and the sort names a visible
\* one, the layout survives a restart and a file of another version, a key moves one
\* column, and hiding one leaves the others in order.
LayoutSound ==
  /\ []EveryColumnOnce /\ []LayoutSurvives /\ []TableUsable /\ []DetailsSurvive
  /\ KeysCarryOneColumn /\ OthersKeepOrder
=============================================================================
