------------------------------ MODULE TableView ------------------------------
(***************************************************************************)
(* How a table keeps its place while the list under it is rebuilt          *)
(* (tm-app/src/widgets/tablekit.rs, AnchorState and scrolled_rows).         *)
(*                                                                         *)
(* Rows are identities.  Heights are counted in half rows: a row is RowH   *)
(* high and the viewport ViewH, which need not be a whole number of rows.  *)
(* A frame lays the table out: a pending request to bring a row into view  *)
(* decides the offset, else, when the model was rebuilt, the rows that     *)
(* were on screen decide it, and egui clamps it to the content.            *)
(***************************************************************************)
EXTENDS Integers, Sequences, FiniteSets, SequencesExt, FiniteSetsExt

CONSTANTS RowKeys,      \* identities of rows
          ViewH,        \* height of the viewport, in half rows
          NoRowKey,        \* no row
          MaxRowEdits      \* edits of the list between two frames (bound)

RowH == 2

ASSUME TableAssumption ==
  /\ ViewH \in Nat /\ ViewH >= RowH /\ MaxRowEdits \in Nat
  /\ IsFiniteSet(RowKeys) /\ NoRowKey \notin RowKeys

VARIABLES tableRows,    \* the row model, top to bottom
          offset,       \* vertical scroll offset of the last frame
          remembered,   \* AnchorState: base index, offset, identities
          prefer,       \* identity of the primary selected row
          wanted,       \* row a gesture asked to bring into view
          edits         \* edits since the last frame

tableVars == <<tableRows, offset, remembered, prefer, wanted, edits>>

-----------------------------------------------------------------------------
(* Geometry. Indices are zero based, as in the code.                        *)

CeilRows == (ViewH + RowH - 1) \div RowH

Clamped(o, n) == Max({0, Min({o, Max({0, n * RowH - ViewH})})})

\* Where a row is in a model, or -1.
PosIn(rs, k) == IF k \in Range(rs) THEN IndexFirstSubSeq(<<k>>, rs) - 1 ELSE -1

InView(i, o) == i * RowH >= o /\ i * RowH + RowH <= o + ViewH

\* The rows a frame remembers: the viewport and one row more.
Remember(rs, o) ==
  LET base == Min({o \div RowH, Max({0, Len(rs) - 1})})
      n    == Min({CeilRows + 1, Len(rs) - base})
  IN  [base |-> base, at |-> o, keys |-> SubSeq(rs, base + 1, base + n)]

-----------------------------------------------------------------------------
(* AnchorState::restored_offset.                                            *)

Surviving(mem, rs) == {j \in 1..Len(mem.keys) : mem.keys[j] \in Range(rs)}

ShiftOf(mem, rs, j) == PosIn(rs, mem.keys[j]) - (mem.base + j - 1)

Votes(mem, rs, s) == Cardinality({j \in Surviving(mem, rs) : ShiftOf(mem, rs, j) = s})

\* The shift more than half of the surviving rows agree on, else none.
CommonShift(mem, rs) ==
  LET S == {ShiftOf(mem, rs, j) : j \in Surviving(mem, rs)}
      W == {s \in S : Votes(mem, rs, s) * 2 > Cardinality(Surviving(mem, rs))}
  IN  IF W = {} THEN 0 ELSE CHOOSE s \in W : TRUE

Tracked(mem, rs, k) == k \in Range(mem.keys) /\ k \in Range(rs)

\* The selected row's own shift wins when the common one would hide it.
FinalShift(mem, rs, k) ==
  LET s == CommonShift(mem, rs)
  IN  IF Tracked(mem, rs, k) /\ ~InView(PosIn(rs, k), mem.at + s * RowH)
      THEN ShiftOf(mem, rs, IndexFirstSubSeq(<<k>>, mem.keys))
      ELSE s

RestoredOffsetWholeRows(mem, rs, k, o) ==
  IF Surviving(mem, rs) = {} THEN o ELSE (mem.base + FinalShift(mem, rs, k)) * RowH

RestoredOffset(mem, rs, k, o) ==
  LET s == FinalShift(mem, rs, k)
  IN  IF mem.keys = <<>> THEN o
      ELSE IF mem.at = 0 THEN 0
      ELSE IF Surviving(mem, rs) = {} \/ s = 0 \/ s > CeilRows \/ -s > CeilRows THEN o
      ELSE mem.at + s * RowH

\* The offset that brings row i into view with the least movement.
FocusOffset(i, n, o) ==
  Clamped(IF i * RowH < o THEN i * RowH
          ELSE IF i * RowH + RowH > o + ViewH THEN i * RowH + RowH - ViewH
          ELSE o, n)

-----------------------------------------------------------------------------
TableInit ==
  /\ tableRows \in {<<>>} \cup {SetToSeq(RowKeys)}
  /\ offset = 0
  /\ remembered = [base |-> 0, at |-> 0, keys |-> <<>>]
  /\ prefer = NoRowKey
  /\ wanted = NoRowKey
  /\ edits = 0

\* The model is rebuilt: a row comes, goes, or takes another place.
Edited(rs) ==
  /\ edits < MaxRowEdits
  /\ edits' = edits + 1
  /\ tableRows' = rs
  /\ prefer' = IF prefer \in Range(rs) THEN prefer ELSE NoRowKey
  /\ UNCHANGED <<offset, remembered, wanted>>

RowComes == \E k \in RowKeys \ Range(tableRows), i \in 1..Len(tableRows) + 1 : Edited(InsertAt(tableRows, i, k))

RowGoes == \E i \in 1..Len(tableRows) : Edited(RemoveAt(tableRows, i))

RowMoves == \E i, j \in 1..Len(tableRows) :
              i # j /\ Edited(InsertAt(RemoveAt(tableRows, i), j, tableRows[i]))

\* scrolled_rows: one frame of the table.
TableFrame ==
  LET asked == wanted \in Range(tableRows)
      o     == IF asked THEN FocusOffset(PosIn(tableRows, wanted), Len(tableRows), offset)
               ELSE IF edits > 0 THEN RestoredOffset(remembered, tableRows, prefer, offset)
               ELSE offset
  IN  /\ offset' = Clamped(o, Len(tableRows))
      /\ remembered' = Remember(tableRows, Clamped(o, Len(tableRows)))
      /\ edits' = 0
      /\ wanted' = NoRowKey
      /\ UNCHANGED <<tableRows, prefer>>

\* The wheel or the scroll bar, on a frame without a rebuild.
UserScrolls ==
  /\ edits = 0
  /\ \E o \in 0..Clamped(Len(tableRows) * RowH, Len(tableRows)) :
       /\ o # offset
       /\ offset' = o
       /\ remembered' = Remember(tableRows, o)
  /\ UNCHANGED <<tableRows, prefer, wanted, edits>>

\* A click selects a row that is on screen.
PickRow ==
  /\ edits = 0
  /\ prefer' \in {k \in Range(tableRows) : InView(PosIn(tableRows, k), offset)}
  /\ UNCHANGED <<tableRows, offset, remembered, wanted, edits>>

\* A key, or a jump from another page, asks for a row wherever it is.
RequestRowScroll ==
  /\ wanted = NoRowKey
  /\ \E k \in RowKeys : wanted' = k /\ prefer' = IF k \in Range(tableRows) THEN k ELSE prefer
  /\ UNCHANGED <<tableRows, offset, remembered, edits>>

TableNext == RowComes \/ RowGoes \/ RowMoves \/ TableFrame \/ UserScrolls \/ PickRow \/ RequestRowScroll

TableSpec == TableInit /\ [][TableNext]_tableVars

-----------------------------------------------------------------------------
TableTypeOK ==
  /\ tableRows \in Seq(RowKeys) /\ IsInjective(tableRows)
  /\ offset \in Nat /\ (edits = 0 => offset <= Max({0, Len(tableRows) * RowH - ViewH}))
  /\ prefer \in RowKeys \cup {NoRowKey}
  /\ wanted \in RowKeys \cup {NoRowKey}
  /\ edits \in 0..MaxRowEdits

Shifts(mem, rs) == {ShiftOf(mem, rs, j) : j \in Surviving(mem, rs)}

\* An insertion or a removal above the viewport does not move what the user is
\* looking at: when every remembered row that is still there moved by the same
\* number of rows, no more than a screenful, the frame after the rebuild shows
\* each of them where it was, up to the end of the list (restored_offset).
\* Only a table parked at its top, or a row asked for, is exempt.
EditsAboveDoNotMove ==
  [][(edits > 0 /\ edits' = 0 /\ wanted \notin Range(tableRows) /\ remembered.at > 0) =>
       \A s \in Shifts(remembered, tableRows) :
         (Shifts(remembered, tableRows) = {s} /\ s \in -CeilRows..CeilRows) =>
            offset' = Clamped(remembered.at + s * RowH, Len(tableRows))]_tableVars

\* The rebuild never takes the selected row off the screen: if it was fully
\* visible, is still in the list and moved no more than a screenful, and the
\* rows around it moved no more than that either, the next frame shows it.
SelectionStaysInView ==
  [][(/\ edits > 0 /\ edits' = 0 /\ wanted \notin Range(tableRows) /\ remembered.at > 0
      /\ Tracked(remembered, tableRows, prefer)
      /\ InView(remembered.base + PosIn(remembered.keys, prefer), remembered.at)
      /\ Shifts(remembered, tableRows) \subseteq -CeilRows..CeilRows) =>
        InView(PosIn(tableRows, prefer), offset')]_tableVars

\* A table parked at its top stays there whatever arrives, so the head of a live
\* order can be watched (the "parked at the very top" rule).
TopStaysTop ==
  [][(edits > 0 /\ edits' = 0 /\ wanted \notin Range(tableRows) /\ remembered.keys # <<>> /\ remembered.at = 0)
       => offset' = 0]_tableVars

\* A request to bring a row into view is served by the next frame, wherever the
\* row is by then (request_row_scroll, take_row_scroll, focus_offset).
RequestShown ==
  [][(wanted \in Range(tableRows) /\ wanted' = NoRowKey) => InView(PosIn(tableRows, wanted), offset')]_tableVars

\* A table whose rows change between frames: rows that come or go above do not move the
\* view, a selected row in view stays in view, the top stays the top, and a requested
\* row is shown.
ViewSteady ==
  /\ []TableTypeOK /\ EditsAboveDoNotMove /\ SelectionStaysInView /\ TopStaysTop
  /\ RequestShown
=============================================================================
