----------------------------- MODULE MCTerminal -----------------------------
(* Instances of Terminal: a board whose rows share no inner border, one of   *)
(* them empty and one out of order, and a board that reports no rows; sizes  *)
(* on both sides of every limit of the layout.                               *)
EXTENDS Terminal

Row1 == << <<2, "1">>, <<0, "esc">>, <<5, "backspace">> >>
Row2 == << <<0, "tab">>, <<1, "q">>, <<3, "backslash">> >>
Row3 == << <<0, "capslock">>, <<4, "enter">> >>
MCBoards == { [rows |-> <<Row1, Row2, <<>>, Row3>>, ap |-> 1, rt |-> 0],
              [rows |-> <<>>, ap |-> 0, rt |-> 0] }

MCKeyed  == { b \in MCBoards : b.rows # <<>> }

\* 91 columns are enough for the matrix, 37 rows for all of it.
MCSizes  == { <<80, 24>>, <<91, 37>>, <<90, 34>>, <<100, 30>>, <<50, 31>> }
MCShort  == { <<80, 24>> }

Key(code, kind) == [type |-> "key", code |-> code, kind |-> kind]
Click(x, y)     == [type |-> "mouse", kind |-> "left down", at |-> <<x, y>>]

PickerCodes == {"up", "down", "pagedown", "pageup", "home", "end", "space", "a", "enter", "q"}
TuiCodes    == {"q", "left", "right", "up", "down"}

MCTyped ==
  [picker |-> {Key(c, "press") : c \in PickerCodes}
              \cup {Key("space", "repeat"), Key("space", "release"), Key("enter", "release")},
   tui    |-> {Key(c, "press") : c \in TuiCodes} \cup {Key("right", "release")}
              \cup {Click(18, 25), Click(55, 25), Click(10, 26), Click(29, 26)}
              \cup {[type |-> "mouse", kind |-> "moved", at |-> <<0, 25>>]}]

MCUniverses == { <<>>, <<7, 4, 9>> }
=============================================================================
