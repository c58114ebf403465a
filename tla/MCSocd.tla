------------------------------- MODULE MCSocd -------------------------------
(* Instances of Socd: four keys, for two pairs and for a third key that     *)
(* claims a paired one.                                                     *)
EXTENDS Socd

M(touch, advanced) == [touch |-> touch, advanced |-> advanced]
Brd(modes, rows) == [mode |-> modes, row |-> rows]

MCKeys == 1..4

\* No pairs, one key in another advanced mode; one pair that 2 wins; a pair and
\* a third key flagged with a row left over from a pair with one of the two, as
\* a restore leaves it; a key paired with one the board lacks.
MCBoards ==
  { Brd(<<M(0, 0), M(1, 0), M(3, 9), M(1, 0)>>, <<NoRow, NoRow, NoRow, NoRow>>),
    Brd(<<M(1, 8), M(0, 8), M(0, 0), M(1, 0)>>, <<<<1, 2, 2>>, <<2, 1, 1>>, <<3, 4, 0>>, <<4, 3, 0>>>>),
    Brd(<<M(1, 8), M(0, 8), M(1, 8), M(0, 0)>>, <<<<1, 2, 0>>, <<2, 1, 0>>, <<3, 1, 0>>, NoRow>>),
    Brd(<<M(1, 8), M(0, 0), M(0, 0), M(0, 0)>>, <<<<1, 9, 0>>, NoRow, NoRow, NoRow>>) }

PairUp(a, b, wins, dry) == [op |-> "pair", a |-> a, b |-> b, wins |-> wins, dry |-> dry]
Unpair(keys, dry)       == [op |-> "unpair", keys |-> keys, dry |-> dry]

MCCommands ==
  { PairUp(1, 2, 2, FALSE), PairUp(3, 1, 3, FALSE), PairUp(4, 3, LastInput, FALSE),
    PairUp(2, 4, 4, TRUE),
    Unpair(<<1>>, FALSE), Unpair(<<2, 1, 3>>, FALSE), Unpair(<<4, 2>>, FALSE),
    Unpair(<<3>>, TRUE), [op |-> "list"], [op |-> "restore"] }
=============================================================================
