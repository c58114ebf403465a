----------------------------- MODULE MCBulkWrite -----------------------------
(* Instances of BulkWrite: three keys, two profiles, a report of five       *)
(* records, which ends in the middle of a key of three or four records.     *)
EXTENDS BulkWrite

Key(touch, rest, ap, rt, apks, rtks) ==
  [mode |-> [touch |-> touch, rest |-> rest], ap |-> ap, press |-> rt, release |-> rt,
   apks |-> apks, rtks |-> rtks]

MCKeys == {1, 2, 3}
MCTravels == {1, 2}

BoardA == <<Key(4, 0, 1, 1, 1, 0), Key(0, 1, 1, 1, 0, 1), Key(1, 0, 2, 1, 2, 0)>>
BoardB == <<Key(3, 1, 2, 2, 0, 1), Key(2, 0, 2, 2, 2, 0), Key(0, 0, 1, 1, 0, 2)>>

Held(t, b) == [travel |-> t, keys |-> b]
MCInitial == { <<Held(1, BoardA), Held(2, BoardB)>> }

Snap(p, t, keys) == [profile |-> p, travel |-> t, keys |-> keys]

\* Another board of the first profile; one without a profile; one with a key
\* the board lacks; an old one, without keysets, of two keys.
MCFiles ==
  { Snap(1, 2, BoardB), Snap(None, 2, BoardB), Snap(2, 1, Append(BoardA, BoardA[1])),
    Snap(2, 1, <<Key(0, 0, 1, 1, None, None), Key(3, 1, 1, 1, None, None)>>) }

Cmd(op) == [op |-> op]
SetRt(keys, rt, dry)  == [op |-> "set rt", keys |-> keys, rt |-> rt, dry |-> dry]
SetMm(t, dry)         == [op |-> "set mm", travel |-> t, dry |-> dry]
RestoreFile(f)        == [op |-> "restore", last |-> FALSE, file |-> f]
RestoreLast           == [op |-> "restore", last |-> TRUE]
Profile(p)            == [op |-> "profile", profile |-> p]

MCCommands ==
  {SetRt({1, 2, 3}, <<2, 1>>, FALSE), SetRt({2, 3}, <<1, 2>>, FALSE), SetRt({1}, <<2, 2>>, TRUE)}
    \cup {SetMm(2, FALSE), SetMm(2, TRUE)}
    \cup {RestoreFile(f) : f \in MCFiles}
    \cup {RestoreLast, Cmd("backup")}
    \cup {Profile(p) : p \in {1, 2}}
=============================================================================
