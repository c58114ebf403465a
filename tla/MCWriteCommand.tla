--------------------------- MODULE MCWriteCommand ---------------------------
(* Small instances of WriteCommand for TLC. *)
EXTENDS Announce, TLC

Key(touch, ap, rt, apks, rtks) ==
  [mode |-> [touch |-> touch, rest |-> 0], ap |-> ap, press |-> rt, release |-> rt,
   apks |-> apks, rtks |-> rtks]

MCKeys3 == {1, 2, 3}
MCKeys2 == {1, 2}
MCTravels == {1, 2}

Cmd(op, kind, keys, i, value, dry) ==
  [op |-> op, kind |-> kind, keys |-> keys, index |-> i, value |-> value, dry |-> dry]

\* Three keys, each any of these: indices with gaps, the largest index live,
\* keysets over one key, two keys and the whole board, and every touch nibble
\* the code tells apart.
KeyStates ==
  { Key(0, 1, 1, 0, 0), Key(1, 2, 1, 2, 0), Key(3, 2, 2, 1, 1),
    Key(4, 1, 2, 0, 2), Key(2, 1, 1, 3, 2), Key(7, 1, 2, 0, 3) }

Boards3 == [MCKeys3 -> KeyStates]

Commands3 ==
  LET sels == {{1}, {1, 2}, {1, 2, 3}}
  IN  {Cmd("create", "ap", s, 0, v, FALSE) : s \in sels, v \in {<<1, 1>>, None}}
      \cup {Cmd("create", "rt", s, 0, v, FALSE) : s \in sels, v \in {<<1, 2>>, None}}
      \cup {Cmd("keyset set", "ap", {}, i, <<1, 1>>, FALSE) : i \in {0, 1, 2}}
      \cup {Cmd("keyset set", "rt", {}, i, <<2, 1>>, FALSE) : i \in {1, 2}}
      \cup {Cmd("delete", kd, {}, i, None, FALSE) : kd \in Kinds, i \in {1, 2}}
      \cup {Cmd("delete", "ap", {}, 1, <<2, 2>>, FALSE)}
      \cup {Cmd("remove", kd, s, 0, None, FALSE) : kd \in Kinds, s \in sels}
      \cup {Cmd("rt off", "rt", s, 0, v, FALSE) : s \in sels, v \in {<<1, 2>>, None}}
      \cup {Cmd("set ap", "ap", s, 0, <<2, 2>>, d) : s \in sels, d \in BOOLEAN}
      \cup {Cmd("ap base", "ap", {}, 0, <<2, 2>>, FALSE)}

\* Two keys, for the hands: a keyset over key 1 and a free key, with rapid
\* trigger off and on; a report that one key's four records fill.
Boards2 == { <<Key(0, 1, 1, 2, 0), Key(3, 1, 1, 0, 1)>> }

Commands2 ==
  { Cmd("create", "rt", {1, 2}, 0, <<2, 2>>, FALSE),
    Cmd("rt off", "rt", {2}, 0, None, FALSE),
    Cmd("ap base", "ap", {}, 0, <<2, 2>>, FALSE) }
=============================================================================
