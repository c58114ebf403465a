------------------------------- MODULE Screen -------------------------------
(***************************************************************************)
(* What `wh tui` draws, as rectangles of cells: where every line, title,   *)
(* settings row, key cap and message goes for a view, in the order they    *)
(* are drawn, later over earlier; the lines of the key lattice; and where  *)
(* the program would write outside the buffer.  A view is the size of the  *)
(* terminal and what draw() reads of the application.  Of a text its       *)
(* length counts, or the lengths of its words where it is wrapped.         *)
(***************************************************************************)
EXTENDS Integers, FiniteSets, SequencesExt

CONSTANTS
  Sizes,    \* terminal sizes, <<columns, rows>>
  Boards    \* boards: rows of <<column, key>>, and how many keysets of each kind

ASSUME ScreenAssumption ==
  /\ Sizes \subseteq Nat \X Nat
  /\ \A b \in Boards : DOMAIN b = {"rows", "ap", "rt"} /\ b.ap \in Nat /\ b.rt \in Nat

TABS          == <<"ActuationPoint", "RapidTrigger", "Mapping", "Switches", "Advanced">>
ADVANCED_TABS == <<"General", "Gamepad", "Device", "Share">>

TitleLength ==
  [ActuationPoint |-> 15, RapidTrigger |-> 13, Mapping |-> 7, Switches |-> 8, Advanced |-> 8,
   General |-> 7, Gamepad |-> 7, Device |-> 6, Share |-> 5]

\* The lengths of the words of each text that is wrapped.
LOCKED_BANNER == <<5, 7, 9, 2, 3, 8, 7, 2, 4, 3, 4, 5, 3, 3, 2, 7, 6>>
StatusWords ==
  [none |-> <<>>,
   unknown   |-> <<5, 12, 5, 5, 8>>,
   timedOut  |-> <<5, 1, 4, 5, 4, 6, 3, 2, 5>>,
   rereading |-> <<5, 10, 3, 6, 5, 5, 5, 2, 7>>]
GAMEPAD_STUB    == <<1, 7, 8, 3, 3, 5, 2, 2, 3>>
SHARE_STUB      == <<1, 7, 7, 2, 3, 5, 2, 2, 3>>
too_narrow_text == <<8, 3, 6, 3, 3, 3, 7, 2, 5, 3, 7>>

LogoAndHeader == 24   \* the rows above the tab row that hold text
TabRow        == 25
BodyTop       == TabRow + 1
LEFT_WIDTH    == 64
MATRIX_GUTTER == 2
CAP_HEIGHT    == 4
FooterLength  == 36

Views ==
  [size : Sizes, tab : {TABS[i] : i \in 1..5}, sub : {ADVANCED_TABS[i] : i \in 1..4},
   locked : BOOLEAN, status : DOMAIN StatusWords, board : Boards]

Columns(v) == v.size[1]
Height(v)  == v.size[2]

Least(a, b)    == IF a < b THEN a ELSE b
Greatest(a, b) == IF a < b THEN b ELSE a
Monus(a, b)    == Greatest(a - b, 0)     \* saturating_sub
Total(s)       == FoldLeft(LAMBDA a, b : a + b, 0, s)

Rect(x, y, w, h) == [x |-> x, y |-> y, w |-> w, h |-> h]
RightOf(r) == r.x + r.w
BelowOf(r) == r.y + r.h

Meet(r, s) ==
  /\ Greatest(r.x, s.x) < Least(RightOf(r), RightOf(s))
  /\ Greatest(r.y, s.y) < Least(BelowOf(r), BelowOf(s))

Inside(r, s) ==
  r.x >= s.x /\ r.y >= s.y /\ RightOf(r) <= RightOf(s) /\ BelowOf(r) <= BelowOf(s)

Frame(v) == Rect(0, 0, Columns(v), Height(v))

\* A widget writes what its text and the frame leave of its row.
Line(v, x, y, length, width) ==
  Rect(x, y, Least(Least(length, width), Monus(Columns(v), x)), IF y < Height(v) THEN 1 ELSE 0)

-----------------------------------------------------------------------------
(* Wrapping.                                                               *)

\* Words are put on a line as long as they fit; the lines are their lengths.
wrap_stub(words, width) ==
  FoldLeft(LAMBDA lines, w :
             IF lines # <<>> /\ Last(lines) + 1 + w <= width
             THEN Append(Front(lines), Last(lines) + 1 + w)
             ELSE Append(lines, w),
           <<>>, words)

-----------------------------------------------------------------------------
(* The key matrix.                                                         *)

\* In quarters of a standard cap.
cap_units(key) ==
  CASE key = "backspace"                    -> 8
    [] key \in {"tab", "backslash"}         -> 6
    [] key \in {"capslock", "rshift"}       -> 7
    [] key \in {"enter", "lshift"}          -> 9
    [] key = "space"                        -> 25
    [] key \in {"lctrl", "lgui", "lalt"}    -> 5
    [] OTHER                                -> 4

\* Six columns a unit, to the nearest one.
Boundary(quarters) == (3 * quarters + 1) \div 2

\* The keys of a row, by column, and where each begins and the last one ends.
Keys(row) ==
  LET sorted == SetToSortSeq(ToSet(row), LAMBDA a, b : a[1] < b[1])
  IN  [i \in DOMAIN sorted |-> sorted[i][2]]

unit_boundaries(keys) ==
  LET units == [i \in 1..(Len(keys) + 1) |-> Total([j \in 1..(i - 1) |-> cap_units(keys[j])])]
  IN  [i \in DOMAIN units |-> Boundary(units[i])]

FilledRows(board) == SelectSeq(board.rows, LAMBDA row : row # <<>>)

RowWidth(row) == Boundary(Total([j \in DOMAIN row |-> cap_units(row[j][2])])) + 1

needed_width(board) ==
  FoldLeft(Greatest, 0, [i \in DOMAIN FilledRows(board) |-> RowWidth(FilledRows(board)[i])])

\* Rows share their horizontal borders and caps their vertical ones; a row that
\* does not fit the height ends the matrix, and an empty one takes no room.
CapRows(area, board) ==
  LET rows   == FilledRows(board)
      top(n) == area.y + (CAP_HEIGHT - 1) * (n - 1)
      drawn  == IF needed_width(board) > area.w THEN {}
                ELSE {n \in DOMAIN rows : top(n) + CAP_HEIGHT <= BelowOf(area)}
  IN  [n \in drawn |->
         LET keys == Keys(rows[n])
             at   == unit_boundaries(keys)
         IN  [i \in DOMAIN keys |->
                [key |-> keys[i],
                 at  |-> Rect(area.x + at[i], top(n), at[i + 1] - at[i] + 1, CAP_HEIGHT)]]]

render_matrix(area, board) ==
  LET rows == CapRows(area, board)
  IN  FlattenSeq([n \in 1..Cardinality(DOMAIN rows) |-> rows[n]])

\* The first match: the cap above, or to the left, has the shared border.
key_at(caps, x, y) ==
  LET hits == {i \in DOMAIN caps : Meet(Rect(x, y, 1, 1), caps[i].at)}
  IN  IF hits = {} THEN "none" ELSE caps[CHOOSE i \in hits : \A j \in hits : i <= j].key

-----------------------------------------------------------------------------
(* The lines of the lattice.  A glyph is the set of the directions its     *)
(* strokes take from the middle of the cell: "l", "r", "u" and "d".        *)

\* The border of one cap, when no other one shares it.
BlockGlyph(r, x, y) ==
  LET level == y \in {r.y, BelowOf(r) - 1}
      plumb == x \in {r.x, RightOf(r) - 1}
  IN  (IF level /\ x > r.x             THEN {"l"} ELSE {})
        \cup (IF level /\ x < RightOf(r) - 1 THEN {"r"} ELSE {})
        \cup (IF plumb /\ y > r.y            THEN {"u"} ELSE {})
        \cup (IF plumb /\ y < BelowOf(r) - 1 THEN {"d"} ELSE {})

Extent(row) == row[1].at.x .. (RightOf(Last(row).at) - 1)
row_boundaries(row) == UNION {{row[i].at.x, RightOf(row[i].at) - 1} : i \in DOMAIN row}

\* What a row alone leaves in a cell: of two caps that share it, the later one.
RowGlyph(row, x, y) ==
  LET hits == {i \in DOMAIN row : x \in row[i].at.x .. (RightOf(row[i].at) - 1)}
  IN  IF hits = {} THEN {}
      ELSE BlockGlyph(row[CHOOSE i \in hits : \A j \in hits : i >= j].at, x, y)

\* The outer edge of the first row or the last: each inner seam gets a junction.
fix_row_edge_corners(row, x, y, stem) ==
  IF \E i \in 1..(Len(row) - 1) : x = RightOf(row[i].at) - 1
  THEN {"l", "r", stem} ELSE RowGlyph(row, x, y)

\* The line two rows share, lower row drawn last: a column of both is redrawn.
merge_shared_border(upper, lower, x, y) ==
  LET both == Extent(upper) \cap Extent(lower)
      any  == Extent(upper) \cup Extent(lower)
  IN  IF x \notin both
      THEN IF x \in Extent(lower) THEN RowGlyph(lower, x, y) ELSE RowGlyph(upper, x, y)
      ELSE IF \A c \in any : x <= c THEN {"u", "d", "r"}
      ELSE IF \A c \in any : x >= c THEN {"u", "d", "l"}
      ELSE {"l", "r"} \cup (IF x \in row_boundaries(upper) THEN {"u"} ELSE {})
                      \cup (IF x \in row_boundaries(lower) THEN {"d"} ELSE {})

\* What is in a cell once the whole matrix is drawn.
Glyph(rows, x, y) ==
  LET n == Len(rows)
      holding == {i \in 1..n : y \in rows[i][1].at.y .. (BelowOf(rows[i][1].at) - 1)}
  IN  CASE holding = {} -> {}
        [] Cardinality(holding) = 2 ->
             LET i == CHOOSE i \in holding : i + 1 \in holding
             IN  merge_shared_border(rows[i], rows[i + 1], x, y)
        [] y = rows[1][1].at.y -> fix_row_edge_corners(rows[1], x, y, "d")
        [] y = BelowOf(rows[n][1].at) - 1 -> fix_row_edge_corners(rows[n], x, y, "u")
        [] OTHER -> RowGlyph(rows[CHOOSE i \in holding : TRUE], x, y)

-----------------------------------------------------------------------------
(* draw(): where everything goes.                                          *)

ShowMatrix(v) == v.tab = "Advanced" => v.sub = "General"
LeftWidth(v)  == IF ShowMatrix(v) THEN Least(Columns(v), LEFT_WIDTH) ELSE Columns(v)
BodyHeight(v) == Monus(Monus(Height(v), 1), BodyTop)
BodyEnd(v)    == BodyTop + BodyHeight(v)

MatrixArea(v) ==
  LET x == LeftWidth(v) + MATRIX_GUTTER
  IN  Rect(x, BodyTop, Monus(Columns(v), x), BodyHeight(v))

\* One row of titles, the selected one in brackets, two spaces between them.
TitleRow(titles, selected, y) ==
  LET width == [i \in DOMAIN titles |->
                  TitleLength[titles[i]] + (IF titles[i] = selected THEN 2 ELSE 0)]
      left(i) == Total([j \in 1..(i - 1) |-> width[j] + 2])
  IN  [i \in DOMAIN titles |-> [is |-> titles[i], at |-> Rect(left(i), y, width[i], 1)]]

\* What a click is looked up in.
tab_rects(v)      == TitleRow(TABS, v.tab, TabRow)
advanced_rects(v) == IF v.tab = "Advanced" THEN TitleRow(ADVANCED_TABS, v.sub, BodyTop) ELSE <<>>

\* The rows of labels above the settings: of Mapping, the lengths of its two.
Labels(v) == IF v.tab = "Mapping" THEN <<20, 56>> ELSE <<>>

RowCount(v) ==
  CASE v.tab = "ActuationPoint" -> 2 + v.board.ap
    [] v.tab = "RapidTrigger"   -> 4 + v.board.rt
    [] v.tab = "Mapping"        -> 0
    [] v.tab = "Switches"       -> 2
    [] v.sub = "General"        -> 14
    [] v.sub = "Gamepad"        -> 5
    [] v.sub = "Device"         -> 3
    [] v.sub = "Share"          -> 2

FirstRow(v) == BodyTop + Len(Labels(v)) + (IF v.tab = "Advanced" THEN 1 ELSE 0)
RowsShown(v) == Least(RowCount(v), Monus(BodyEnd(v), FirstRow(v)))
AfterRows(v) == FirstRow(v) + RowsShown(v)

\* The stub lines of the sub-tabs without a matrix, as far as the body goes.
render_stub(v) ==
  LET stub  == CASE ShowMatrix(v) \/ v.locked -> <<>>
                 [] v.sub = "Gamepad"         -> GAMEPAD_STUB
                 [] v.sub = "Share"           -> SHARE_STUB
                 [] OTHER                     -> <<>>
      lines == wrap_stub(stub, Columns(v))
  IN  SubSeq(lines, 1, Least(Len(lines), Monus(BodyEnd(v), AfterRows(v))))

NoteRow(v) == AfterRows(v) + Len(render_stub(v))

\* The prompt or stub beside the tabs: as wide as the matrix, if there is one.
Prompted(v) == ShowMatrix(v) /\ ~v.locked
PromptWidth(v) ==
  LET needed == needed_width(v.board)
  IN  IF needed > 0 THEN Least(needed, MatrixArea(v).w) ELSE MatrixArea(v).w

\* render_prompt writes the cells itself, wherever the frame ends.
Panics(v) ==
  /\ Prompted(v) /\ v.tab \in {"ActuationPoint", "RapidTrigger"}
  /\ PromptWidth(v) > 0 /\ TabRow >= Height(v)

MatrixRendered(v) ==
  ShowMatrix(v) /\ needed_width(v.board) <= MatrixArea(v).w /\ MatrixArea(v).h > 0

Refused(v) == ShowMatrix(v) /\ ~MatrixRendered(v) /\ needed_width(v.board) > 0

Caps(v) == IF MatrixRendered(v) THEN render_matrix(MatrixArea(v), v.board) ELSE <<>>

\* Seeded fault: the message is as wide as the frame, matrix or not.
MessageWidthFull(v) == Columns(v)

MessageWidth(v) == IF MatrixRendered(v) THEN LeftWidth(v) ELSE Columns(v)

\* The banner or the note, then the refusal.
Message(v) ==
  wrap_stub(IF v.locked THEN LOCKED_BANNER ELSE StatusWords[v.status], MessageWidth(v))
    \o wrap_stub(IF Refused(v) THEN too_narrow_text ELSE <<>>, MessageWidth(v))

\* Below the settings, or pushed up over them.
MessageStart(v) ==
  IF NoteRow(v) + Len(Message(v)) <= BodyEnd(v) THEN NoteRow(v)
  ELSE Greatest(Monus(BodyEnd(v), Len(Message(v))), BodyTop)

render_message_block(v) ==
  LET start == MessageStart(v)
      width == MessageWidth(v)
  IN  [i \in 1..Least(Len(Message(v)), Monus(BodyEnd(v), start)) |->
         Rect(0, start + i - 1, width, 1)]

\* All that is drawn, in order.
Layers(v) ==
  LET titles(rects) ==
        [i \in DOMAIN rects |->
           [is |-> rects[i].is,
            at |-> Line(v, rects[i].at.x, rects[i].at.y, rects[i].at.w, Columns(v))]]
      layer(what, rects) == [i \in DOMAIN rects |-> [is |-> what, at |-> rects[i]]]
      first == FirstRow(v)
      stub  == render_stub(v)
      caps  == Caps(v)
  IN  layer("header", <<Rect(0, 0, Columns(v), Least(LogoAndHeader, Height(v)))>>)
      \o titles(tab_rects(v))
      \o layer("label", [i \in DOMAIN Labels(v) |->
                           Line(v, 0, BodyTop + i - 1, Labels(v)[i], LeftWidth(v))])
      \o titles(advanced_rects(v))
      \o layer("row", [i \in 1..RowsShown(v) |-> Rect(0, first + i - 1, LeftWidth(v), 1)])
      \o layer("stub", [i \in DOMAIN stub |->
                          Line(v, 0, AfterRows(v) + i - 1, stub[i], Columns(v))])
      \o layer("prompt", IF Prompted(v)
                         THEN <<Rect(MatrixArea(v).x, TabRow, PromptWidth(v), 1)>> ELSE <<>>)
      \o layer("cap", [i \in DOMAIN caps |-> caps[i].at])
      \o layer("message", render_message_block(v))
      \o layer("footer", <<Line(v, 0, Monus(Height(v), 1), FooterLength, Columns(v))>>)

-----------------------------------------------------------------------------
(* What a good frame is.                                                   *)

TitlesOf(v) == {tab_rects(v)[i].is : i \in DOMAIN tab_rects(v)}
                 \cup {advanced_rects(v)[i].is : i \in DOMAIN advanced_rects(v)}

\* Nothing is drawn over a title, a cap or a line of the message.
NothingHidden(v) ==
  LET layers == Layers(v)
      keep   == TitlesOf(v) \cup {"cap", "message"}
      kept   == {i \in DOMAIN layers : layers[i].is \in keep}
      later(i, j) == i < j /\ ~(layers[i].is = "cap" /\ layers[j].is = "cap")
  IN  \A i \in kept : \A j \in DOMAIN layers :
        later(i, j) => ~Meet(layers[i].at, layers[j].at)

\* A cap is on the pane of the matrix, clear of everything else, and shares
\* nothing but borders with other caps, so that a click inside it finds it.
CapsClear(v) ==
  LET caps     == Caps(v)
      others   == SelectSeq(Layers(v), LAMBDA l : l.is # "cap")
      inner(r) == Rect(r.x + 1, r.y + 1, r.w - 2, r.h - 2)
  IN  \A i \in DOMAIN caps :
        /\ Inside(caps[i].at, MatrixArea(v)) /\ Inside(caps[i].at, Frame(v))
        /\ \A n \in DOMAIN others : ~Meet(others[n].at, caps[i].at)
        /\ \A j \in DOMAIN caps \ {i} : ~Meet(inner(caps[i].at), caps[j].at)
        /\ key_at(caps, inner(caps[i].at).x, inner(caps[i].at).y) = caps[i].key

\* Every word of the message is there.
MessageWhole(v) ==
  /\ Len(render_message_block(v)) = Len(Message(v))
  /\ \A i \in DOMAIN Message(v) : Message(v)[i] <= MessageWidth(v)

\* Where a line of the lattice leaves a cell, it goes on in the next one, and
\* it leaves no cell for the outside.
LatticeJoins(area, board) ==
  LET drawn == CapRows(area, board)
      rows  == [n \in 1..Cardinality(DOMAIN drawn) |-> drawn[n]]
      xs    == UNION {Extent(rows[n]) : n \in DOMAIN rows}
      ys    == UNION {rows[n][1].at.y .. (BelowOf(rows[n][1].at) - 1) : n \in DOMAIN rows}
  IN  \A x \in xs \cup {area.x - 1}, y \in ys \cup {area.y - 1} :
        LET here == Glyph(rows, x, y)
        IN  /\ "r" \in here <=> "l" \in Glyph(rows, x + 1, y)
            /\ "d" \in here <=> "u" \in Glyph(rows, x, y + 1)

WholeMatrix(v) == Len(Caps(v)) = Total([n \in DOMAIN v.board.rows |-> Len(v.board.rows[n])])

\* The matrix as a whole, or the whole sentence that it does not fit.
MatrixOrSentence(v) ==
  ShowMatrix(v) => WholeMatrix(v) \/ (Refused(v) /\ MessageWhole(v))
=============================================================================
