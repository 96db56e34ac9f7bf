----------------------------- MODULE ProcessList -----------------------------
(***************************************************************************)
(* The selection of the Processes and Details pages (tm-app/src/selection.rs*)
(* and the show functions of tabs/processes.rs and tabs/details.rs): rows   *)
(* are rebuilt under it at every snapshot, PIDs are reused under it, and    *)
(* what it names is what End task, Suspend and the menus act on.            *)
(*                                                                         *)
(* A process is a PID and a start; a snapshot tells either the start or     *)
(* that it cannot be read.  The processes form one application headed by    *)
(* Chief: on the Processes page a group row, with the members' own rows      *)
(* below it while it is expanded; on the Details page the members, or the   *)
(* head alone while it is collapsed.  Each action is one frame of the page  *)
(* with at most one gesture in it.                                          *)
(***************************************************************************)
EXTENDS Integers, Sequences, FiniteSets, SequencesExt, FiniteSetsExt

CONSTANTS LPids,         \* PIDs, positive numbers
          Chief,          \* the head of the application
          Found,         \* PIDs a typed search matches
          Opaque,        \* PIDs whose start cannot be read
          MaxSnaps,      \* bound on snapshots
          MaxChurn,      \* bound on the processes that change from one to the next
          MaxGen,        \* bound on expansions
          Nobody         \* no identity, no cache, no dialog

ASSUME ListAssumption ==
  /\ LPids \subseteq Nat \ {0} /\ Chief \in LPids /\ Found \subseteq LPids /\ Opaque \subseteq LPids
  /\ MaxSnaps \in Nat \ {0} /\ MaxChurn \in Nat /\ MaxGen \in Nat

VARIABLES lpage,     \* the page shown
          lsnap,     \* PID -> start, 0 absent, -1 unreadable
          stamp,     \* number of the snapshot, its timestamp
          lview,     \* sort direction, search typed, head expanded, view_generation
          lcache,    \* the page's Cache: key and rows
          sel,       \* items, primary, anchor
          lastPos,   \* last_selected_pos, 0 none
          jump,      \* pending_details_focus: identities and the snapshot they are of
          parked,    \* pending_process_end: identities, and the snapshot it was opened at
          overtaken  \* the selection is a jump's that a newer snapshot overtook

listVars == <<lpage, lsnap, stamp, lview, lcache, sel, lastPos, jump, parked, overtaken>>

-----------------------------------------------------------------------------
(* Rows. *)

Listed(s) == {p \in LPids : s[p] # 0}

Id(s, p) == [pid |-> p, start |-> s[p]]

IdRow(s, p, agg) == [id |-> Id(s, p), agg |-> agg]

\* The members that pass the search, sorted.
SortedMembers(s, v) ==
  SetToSortSeq({p \in Listed(s) : v.typed => p \in Found}, LAMBDA a, b : IF v.up THEN a < b ELSE b < a)

\* build_display_rows and build_rows on one application. Below an expanded group
\* row comes the representative's own row, then the rest as sorted.
ListRows(page, s, v) ==
  LET mem  == SortedMembers(s, v)
      own  == [i \in DOMAIN mem |-> IdRow(s, mem[i], FALSE)]
      rest == SelectSeq(own, LAMBDA r : r.id.pid # Chief)
      fold == Chief \in Range(mem) /\ Len(mem) > 1
  IN  IF page = "processes" /\ fold
      THEN <<IdRow(s, Chief, TRUE)>> \o (IF v.open THEN <<IdRow(s, Chief, FALSE)>> \o rest ELSE <<>>)
      ELSE IF page = "details" /\ fold /\ ~v.open /\ ~v.typed THEN <<IdRow(s, Chief, FALSE)>>
      ELSE own

\* The cache's key: timestamp, search, sort and view generation.
KeyOf(n, v) == <<n, v.up, v.typed, v.gen>>

ListKey == KeyOf(stamp, lview)

\* The rows of a frame: the cache's while its key holds.
FrameRows == IF lcache = Nobody THEN ListRows(lpage, lsnap, lview)
             ELSE IF lcache.key = ListKey THEN lcache.rows
             ELSE ListRows(lpage, lsnap, lview)

\* row_is_selectable: an expanded group's head stands for no process.
Selectable(r) == ~(r.agg /\ lview.open)

IdsOf(rs) == [i \in DOMAIN rs |-> rs[i].id]

KeyOrder(rows) == IdsOf(SelectSeq(rows, Selectable))

\* selectable_identities, row_identities: each identity once, at its first row.
ClickOrder(rows) ==
  FoldLeft(LAMBDA acc, r : IF Contains(acc, r.id) THEN acc ELSE Append(acc, r.id), <<>>, rows)

-----------------------------------------------------------------------------
(* selection.rs. *)

NoSel == [items |-> <<>>, primary |-> Nobody, anchor |-> Nobody]

LastOf(s) == IF s = <<>> THEN Nobody ELSE s[Len(s)]

FirstOf(s) == IF s = <<>> THEN Nobody ELSE s[1]

PosOf(order, id) == IF Contains(order, id) THEN IndexFirstSubSeq(<<id>>, order) ELSE 0

SelectSingle(id) == [items |-> <<id>>, primary |-> id, anchor |-> id]

SelectExact(ids) == [items |-> ids, primary |-> FirstOf(ids), anchor |-> FirstOf(ids)]

SelectAll(order) == [items |-> order, primary |-> LastOf(order), anchor |-> FirstOf(order)]

\* Display order; what the view does not contain keeps its place at the end.
SortTo(ids, order) ==
  SelectSeq(order, LAMBDA id : Contains(ids, id)) \o SelectSeq(ids, LAMBDA id : ~Contains(order, id))

Toggled(x, id, order) ==
  IF Contains(x.items, id)
  THEN LET rest == SelectSeq(x.items, LAMBDA i : i # id)
       IN  [items |-> rest, primary |-> IF x.primary = id THEN LastOf(rest) ELSE x.primary, anchor |-> id]
  ELSE [items |-> SortTo(Append(x.items, id), order), primary |-> id, anchor |-> id]

SelectRange(x, id, order) ==
  LET from == PosOf(order, x.anchor)
      to   == PosOf(order, id)
  IN  IF x.anchor = Nobody \/ from = 0 \/ to = 0 THEN SelectSingle(id)
      ELSE [x EXCEPT !.items = SubSeq(order, Min({from, to}), Max({from, to})), !.primary = id]

\* identity_is_live: an unreadable start vouches for any.
IsLive(s, id) == s[id.pid] # 0 /\ (s[id.pid] = -1 \/ s[id.pid] = id.start)

RetainLiveByPid(x, s) == [x EXCEPT !.items = SelectSeq(@, LAMBDA id : s[id.pid] # 0)]

RetainLive(x, s) ==
  LET items   == SelectSeq(x.items, LAMBDA id : IsLive(s, id))
      Gone(i) == IF i = Nobody THEN FALSE ELSE ~IsLive(s, i)
      primary == IF Gone(x.primary) THEN LastOf(items) ELSE x.primary
  IN  [items |-> items, primary |-> primary, anchor |-> IF Gone(x.anchor) THEN primary ELSE x.anchor]

-----------------------------------------------------------------------------
ListInit ==
  /\ lpage \in {"processes", "details"}
  /\ lsnap = [p \in LPids |-> IF p \in Opaque THEN -1 ELSE 1]
  /\ stamp = 1
  /\ lview = [up |-> TRUE, typed |-> FALSE, open |-> TRUE, gen |-> 0]
  /\ lcache = Nobody
  /\ sel = NoSel
  /\ lastPos = 0
  /\ jump = Nobody
  /\ parked = Nobody
  /\ overtaken = FALSE

\* poll_engine takes a new snapshot: processes stay, exit, or have their PID
\* reused; the selection is told at once.
NewSnapshot ==
  /\ stamp < MaxSnaps
  /\ stamp' = stamp + 1
  /\ \E keep, new \in SUBSET LPids :
       /\ keep \subseteq Listed(lsnap) /\ new \cap keep = {}
       /\ Cardinality(LPids \ keep) <= MaxChurn
       /\ lsnap' = [p \in LPids |-> IF p \in keep THEN lsnap[p]
                                    ELSE IF p \notin new THEN 0
                                    ELSE IF p \in Opaque THEN -1 ELSE stamp + 1]
  /\ sel' = RetainLive(sel, lsnap')
  /\ overtaken' = FALSE
  /\ UNCHANGED <<lpage, lview, lcache, lastPos, jump, parked>>

\* The search box, and the Details page's own filter (both in the key).
TypeSearch ==
  /\ parked = Nobody
  /\ lview' = [lview EXCEPT !.typed = ~@]
  /\ UNCHANGED <<lpage, lsnap, stamp, lcache, sel, lastPos, jump, parked, overtaken>>

\* A frame: the rows it shows become the cache, and with the content focused
\* an empty selection falls back to the row at the last position.
Seated(order, focused) ==
  IF focused /\ sel.items = <<>> /\ order # <<>> THEN SelectSingle(order[Max({1, Min({lastPos, Len(order)})})]) ELSE sel

ListFrame(rows, x, v) ==
  /\ parked = Nobody /\ jump = Nobody
  /\ sel' = x
  /\ lview' = v
  /\ lcache' = [key |-> ListKey, rows |-> rows]
  /\ UNCHANGED <<lpage, lsnap, stamp, jump, parked, overtaken>>

\* A frame in which a row is clicked, right-clicked or toggled in and out.
Clicks ==
  \E rows \in {FrameRows} : \E order \in {ClickOrder(rows)} :
  \E r \in {x \in Range(rows) : Selectable(x)}, x \in {"replace", "toggle", "range", "menu"} :
    /\ ListFrame(rows,
                 CASE x = "replace" -> SelectSingle(r.id)
                   [] x = "toggle"  -> Toggled(sel, r.id, order)
                   [] x = "range"   -> SelectRange(sel, r.id, order)
                   [] x = "menu"    -> IF \E i \in Range(sel.items) : i.pid = r.id.pid THEN sel ELSE SelectSingle(r.id),
                 lview)
    /\ lastPos' = IF sel.primary = Nobody THEN 0 ELSE PosOf(KeyOrder(rows), sel.primary)

\* moved_index: from the selected row, or from the edge.
Moved(n, at, nav) ==
  CASE nav = "next"  -> IF at = 0 THEN 1 ELSE Min({at + 1, n})
    [] nav = "prev"  -> IF at = 0 THEN n ELSE Max({at - 1, 1})
    [] nav = "first" -> 1
    [] nav = "last"  -> n

\* A frame with the content focused: nothing, Space, Ctrl+A, or a movement,
\* with Shift or without.
Keys ==
  \E rows \in {FrameRows} : \E order \in {KeyOrder(rows)} : \E x \in {Seated(order, TRUE)} :
  \E at \in {IF x.primary = Nobody THEN 0 ELSE PosOf(order, x.primary)} :
      /\ \E g \in {"none", "space", "all", "next", "prev", "first", "last"}, shift \in BOOLEAN :
           /\ shift => g \in {"next", "prev", "first", "last"}
           /\ ListFrame(rows,
                       CASE g = "none"  -> x
                       [] g = "space" -> IF at = 0 THEN x ELSE Toggled(x, order[at], order)
                       [] g = "all"   -> SelectAll(order)
                       [] OTHER       -> IF order = <<>> THEN x
                                         ELSE LET id == order[Moved(Len(order), at, g)]
                                              IN  IF shift THEN SelectRange(x, id, order) ELSE SelectSingle(id),
                     lview)
      /\ lastPos' = at

\* A click on a column: the sort is part of the key.
SortClick ==
  /\ ListFrame(FrameRows, sel, [lview EXCEPT !.up = ~@])
  /\ lastPos' = lastPos

\* toggle_expanded from the chevron: the expansion is not in the key, so the
\* view generation is counted up.
ToggleOpen ==
  /\ lview.gen < MaxGen
  /\ ListFrame(FrameRows, sel, [lview EXCEPT !.open = ~@, !.gen = @ + 1])
  /\ lastPos' = lastPos

-----------------------------------------------------------------------------
(* The jump from a row of the Processes page to Details. *)

FocusTargets(r) == IF r.agg THEN SetToSeq({Id(lsnap, p) : p \in Listed(lsnap)}) ELSE <<r.id>>

\* Double-click, Enter, or Go to details; the page is switched at once.
GoToDetails ==
  /\ lpage = "processes" /\ parked = Nobody
  /\ \E r \in Range(FrameRows) : jump' = [ids |-> FocusTargets(r), at |-> stamp]
  /\ lpage' = "details"
  /\ lview' = [up |-> TRUE, typed |-> lview.typed, open |-> TRUE, gen |-> 0]
  /\ lcache' = Nobody
  /\ lastPos' = 0
  /\ UNCHANGED <<lsnap, stamp, sel, parked, overtaken>>

\* The next frame of Details selects what was asked for and clears the search.
TakeJump ==
  /\ jump # Nobody /\ lpage = "details" /\ parked = Nobody
  /\ sel' = SelectExact(jump.ids)
  /\ lview' = [lview EXCEPT !.typed = FALSE]
  /\ lcache' = [key |-> KeyOf(stamp, lview'), rows |-> ListRows(lpage, lsnap, lview')]
  /\ jump' = Nobody
  /\ overtaken' = (jump.at # stamp)
  /\ UNCHANGED <<lpage, lsnap, stamp, lastPos, parked>>

-----------------------------------------------------------------------------
(* End task. *)

\* live_selection_targets
LiveTargets == {id \in Range(sel.items) : IsLive(lsnap, id)}

\* End task on several rows asks first, and keeps what it asked about; with
\* nothing left to end the selection is cleared.
EndSelected ==
  /\ parked = Nobody /\ jump = Nobody /\ sel.items # <<>>
  /\ IF LiveTargets = {} THEN sel' = NoSel /\ UNCHANGED parked
     ELSE /\ UNCHANGED sel
          /\ parked' = [ids |-> LiveTargets, at |-> stamp, sent |-> {}]
  /\ UNCHANGED <<lpage, lsnap, stamp, lview, lcache, lastPos, jump, overtaken>>

\* Confirmed: the parked identities are sent, whatever the page shows by then.
ConfirmEnd ==
  /\ parked # Nobody
  /\ parked.sent = {}
  /\ parked' = [parked EXCEPT !.sent = parked.ids]
  /\ UNCHANGED <<lpage, lsnap, stamp, lview, lcache, sel, lastPos, jump, overtaken>>

\* The dialog is gone: cancelled, or the request is on its way.
EndDialogGone ==
  /\ parked # Nobody
  /\ parked' = Nobody
  /\ UNCHANGED <<lpage, lsnap, stamp, lview, lcache, sel, lastPos, jump, overtaken>>

ListNext ==
  \/ NewSnapshot \/ TypeSearch \/ Clicks \/ Keys \/ SortClick \/ ToggleOpen
  \/ GoToDetails \/ TakeJump \/ EndSelected \/ ConfirmEnd \/ EndDialogGone

ListSpec == ListInit /\ [][ListNext]_listVars

-----------------------------------------------------------------------------
\* "Always one of items", and no process twice: the commands for one row act
\* on a selected row, and the count in their label is the number of processes.
SelectionSound ==
  /\ (sel.items = <<>>) = (sel.primary = Nobody)
  /\ sel.primary # Nobody => Contains(sel.items, sel.primary)
  /\ IsInjective(sel.items)

\* The rows of a cache whose key still holds are the rows of the snapshot and
\* of the view: a frame never shows, or acts on, rows of an older one.
ListFresh ==
  IF lcache = Nobody THEN TRUE
  ELSE lcache.key = ListKey => lcache.rows = ListRows(lpage, lsnap, lview)

Painted == {p \in Listed(lsnap) : \E id \in Range(sel.items) : id.pid = p}

\* Rows are painted as selected by PID alone, commands go to full identities:
\* a painted row is one the commands act on, and a recycled PID never inherits
\* the highlight. (A jump that a newer snapshot overtook is the exception,
\* until the next snapshot: its identities are of the older one.)
PaintedIsActedOn == ~overtaken => Painted = {id.pid : id \in LiveTargets}

\* A confirmed End task names no process that started after it was asked.
ConfirmedIsAsked == parked # Nobody => \A id \in parked.sent : id.start <= parked.at

\* A Shift-click takes its range from one list and the keys from another, and
\* an expanded group's head is in the first one too: they order the processes
\* alike, so a range never takes in a row outside what is shown between its ends.
RangeAsShown == \A rows \in {FrameRows} : ClickOrder(rows) = KeyOrder(rows)

\* What the user sees selected is what a command acts on: ranges are as shown, the list
\* is never that of an older key, a painted row is one acted on, and a confirmed End
\* task names no process that started after it was asked.
SelectionTrue ==
  /\ RangeAsShown /\ SelectionSound /\ ListFresh /\ PaintedIsActedOn /\ ConfirmedIsAsked
=============================================================================
