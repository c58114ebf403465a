----------------------------- MODULE SocdProofs -----------------------------
(***************************************************************************)
(* For every matrix, board, command line and number of commands, whichever *)
(* roundtrip fails and whatever the firmware does with a frame: what       *)
(* `wh socd list` prints is true, nothing is reported that is not so, and  *)
(* no command ends a pair it does not name.                                *)
(*                                                                         *)
(* A plan is a sequence of frames and checks; the invariants say what is   *)
(* still ahead in it and what the board holds for what is behind.          *)
(***************************************************************************)
EXTENDS Socd, FiniteSetTheorems, SequenceTheorems, WellFoundedInduction, TLAPS

Steps == [do : {"pair", "paired", "clear", "cleared", "restore", "restored"}, key : Keys]

TypeOK ==
  /\ board \in Boards /\ start \in Boards
  /\ backups \in Seq([mode : [Keys -> Mode], was : Boards])
  /\ \A n \in 1..Len(backups) : backups[n].mode = backups[n].was.mode
  /\ pc \in {"idle", "read", "backup", "write"}
  /\ cmd \in SocdCommands \cup {None} /\ (pc # "idle" => cmd \in SocdCommands)
  /\ steps \in Seq(Steps)
  /\ calm \in BOOLEAN /\ obeyed \in BOOLEAN

\* The commands that write, from the plan to the verdict.
Working == pc \in {"backup", "write"} \/ outcome = "verified"

\* An outcome is known at the end, and a list is printed of the board as it is.
OutcomeLast ==
  /\ outcome # "none" => pc = "idle"
  /\ pc \in {"read", "backup"} => board = start
  /\ outcome = "listed" => Coherent(board)
  /\ outcome = "verified" => steps = <<>> /\ cmd \in SocdCommands
  /\ Working => cmd.op # "list"

\* What was accepted, on the board the command began with.
AcceptedAtStart ==
  Working =>
    /\ cmd.op # "restore" => Coherent(start)
    /\ cmd.op = "pair" => cmd.a \notin Flagged(start) /\ cmd.b \notin Flagged(start)
    /\ cmd.op = "unpair" => ToSet(cmd.keys) \subseteq Flagged(start)

Row == WritePair(cmd.a, cmd.b, cmd.wins)

PairedBoard == Paired(start, Row)

PairPlan == <<Step("pair", cmd.a), Step("paired", cmd.a), Step("paired", cmd.b)>>

\* A pair command's board is the one it began with or the one asked for, the
\* touch mode of the first key apart, and the first check tells them apart.
PairOnItsWay ==
  Working /\ cmd.op = "pair" =>
    /\ steps \in {PairPlan, Tail(PairPlan), Tail(Tail(PairPlan)), <<>>}
    /\ board \in {start, PairedBoard, [PairedBoard EXCEPT !.mode[cmd.a].touch = 0]}
    /\ steps = PairPlan => board = start
    /\ steps \in {Tail(Tail(PairPlan)), <<>>} => board # start
    /\ obeyed => board \in {start, PairedBoard}
    /\ calm /\ steps # PairPlan => board = PairedBoard

\* In a plan of frames and their checks, every frame is followed by its check.
FramesAreChecked(s, doing, done, keys) ==
  /\ \A n \in 1..Len(s) : s[n].do \in {doing, done} /\ s[n].key \in keys
  /\ \A n \in 1..Len(s) : s[n].do = doing => \E m \in (n + 1)..Len(s) : s[m] = Step(done, s[n].key)

ChecksHaveFrames(s, doing, done) ==
  \A n \in 1..Len(s) : s[n].do = done => \E m \in 1..(n - 1) : s[m] = Step(doing, s[n].key)

Has(s, what, k) == \E n \in 1..Len(s) : s[n] = Step(what, k)

Ahead(what, k) == Has(steps, what, k)

\* A plan for the keys, as it is made.
Plan(s, doing, done, keys) ==
  /\ s \in Seq(Steps)
  /\ FramesAreChecked(s, doing, done, keys) /\ ChecksHaveFrames(s, doing, done)
  /\ \A k \in keys : Has(s, done, k)

\* The keys of the pairs an unpair names.
Gone == UNION {Setting(start.row[k]).keys : k \in ToSet(cmd.keys)}

\* An unpair's keys are cleared or have their check ahead, no other key is
\* touched, and a key that is still flagged is as it was.
UnpairOnItsWay ==
  Working /\ cmd.op = "unpair" =>
    /\ FramesAreChecked(steps, "clear", "cleared", Gone)
    /\ \A k \in Keys : k \notin Gone \/ k \in Flagged(board) =>
         board.mode[k] = start.mode[k] /\ board.row[k] = start.row[k]
    /\ \A k \in Gone : board.mode[k] = ClearedMode(k) \/ Ahead("cleared", k)
    /\ calm => \A n \in 1..Len(steps) : steps[n].do = "cleared" =>
         \/ board.mode[steps[n].key] = ClearedMode(steps[n].key)
         \/ \E m \in 1..(n - 1) : steps[m] = Step("clear", steps[n].key)

\* A restored key has the mode saved or has its check ahead.
RestoreOnItsWay ==
  Working /\ cmd.op = "restore" =>
    /\ backups # <<>>
    /\ FramesAreChecked(steps, "restore", "restored", Keys)
    /\ pc = "backup" => \A k \in Keys : Ahead("restored", k)
    /\ pc # "backup" => /\ Len(backups) >= 2
                        /\ \A k \in Keys : board.mode[k] = Source.mode[k] \/ Ahead("restored", k)

\* As long as nothing fails and nothing is restored, the board is coherent
\* between the commands.
CalmIsCoherent ==
  calm => /\ pc # "write" => Coherent(board)
          /\ outcome \notin {"inconsistent", "mismatch"}
          /\ pc # "idle" => cmd.op # "restore"

SInv ==
  /\ TypeOK /\ OutcomeLast /\ AcceptedAtStart
  /\ PairOnItsWay /\ UnpairOnItsWay /\ RestoreOnItsWay /\ CalmIsCoherent

-----------------------------------------------------------------------------
(* Rows and pairings.                                                      *)

\* The two spellings of a pairing.
LEMMA RowParts ==
  ASSUME NEW k \in Keys, NEW row, IsRow(k, row)
  PROVE  /\ row # NoRow /\ row[1] = k /\ row[2] \in Nat /\ row[2] # k /\ row[2] # 0 /\ row[3] \in 0..2
         /\ row = <<k, row[2], row[3]>>
         /\ Setting(row) = [keys |-> {k, row[2]},
                            wins |-> IF row[3] = 0 THEN 0 ELSE IF row[3] = 1 THEN k ELSE row[2]]
         /\ Rebased(row) = <<row[2], k, IF row[3] = 0 THEN 0 ELSE 3 - row[3]>>
<1>1. row \in Nat \X Nat \X (0..2) /\ row[1] = k /\ row[2] # k /\ row[2] # 0
      BY DEF IsRow
<1>2. row = <<row[1], row[2], row[3]>> /\ row[2] \in Nat /\ row[3] \in 0..2
      BY <1>1
<1>3. row # NoRow
      BY <1>1 DEF NoRow
<1>4. row[3] = 0 \/ row[3] = 1 \/ row[3] = 2
      BY <1>2
<1>5. Setting(row).wins = IF row[3] = 0 THEN 0 ELSE IF row[3] = 1 THEN k ELSE row[2]
      BY <1>1, <1>4 DEF Setting, LastInput
<1> QED BY <1>1, <1>2, <1>3, <1>5 DEF Setting, Rebased, LastInput

\* A pairing re-based is a row of the partner's with the same setting, and it is
\* the only one.
LEMMA RebasedRow ==
  ASSUME NEW k \in Keys, NEW row, IsRow(k, row), row[2] \in Keys
  PROVE  /\ IsRow(row[2], Rebased(row)) /\ Setting(Rebased(row)) = Setting(row)
         /\ Rebased(row)[2] = k /\ Rebased(Rebased(row)) = row
<1>1. k \in Nat \ {0}
      BY SocdAssumption
<1> DEFINE r == Rebased(row)  p == row[3]
<1>2. /\ row[2] \in Nat /\ row[2] # k /\ row[2] # 0 /\ p \in 0..2 /\ row = <<k, row[2], p>>
      /\ r = <<row[2], k, IF p = 0 THEN 0 ELSE 3 - p>>
      BY RowParts
<1>3. (IF p = 0 THEN 0 ELSE 3 - p) \in 0..2
      BY <1>2
<1>4. r \in Nat \X Nat \X (0..2) /\ r[1] = row[2] /\ r[2] = k /\ r[3] = IF p = 0 THEN 0 ELSE 3 - p
      BY <1>1, <1>2, <1>3
<1>5. IsRow(row[2], r)
      BY <1>1, <1>2, <1>4 DEF IsRow
<1>6. Setting(r) = Setting(row)
  <2>1. Setting(r) = [keys |-> {row[2], k}, wins |-> IF r[3] = 0 THEN 0 ELSE IF r[3] = 1 THEN row[2] ELSE k]
        BY <1>4, <1>5, RowParts
  <2>2. Setting(row) = [keys |-> {k, row[2]}, wins |-> IF p = 0 THEN 0 ELSE IF p = 1 THEN k ELSE row[2]]
        BY RowParts
  <2>3. p = 0 \/ p = 1 \/ p = 2
        BY <1>2
  <2>4. (IF r[3] = 0 THEN 0 ELSE IF r[3] = 1 THEN row[2] ELSE k) = IF p = 0 THEN 0 ELSE IF p = 1 THEN k ELSE row[2]
        BY <2>3, <1>4
  <2>5. {k, row[2]} = {row[2], k}
        OBVIOUS
  <2> QED BY <2>1, <2>2, <2>4, <2>5
<1>7. Rebased(r) = row
  <2>1. Rebased(r) = <<k, row[2], IF r[3] = 0 THEN 0 ELSE 3 - r[3]>>
        BY <1>4, <1>5, RowParts
  <2>2. (IF r[3] = 0 THEN 0 ELSE 3 - r[3]) = p
        BY <1>2, <1>4
  <2> QED BY <1>2, <2>1, <2>2
<1> QED BY <1>4, <1>5, <1>6, <1>7

LEMMA SettingsAgree ==
  ASSUME NEW j \in Keys, NEW k \in Keys, NEW q, NEW row, IsRow(j, q), IsRow(k, row),
         row[2] = j, Setting(q) = Setting(row)
  PROVE  q = Rebased(row)
<1>1. j \in Nat \ {0} /\ k \in Nat \ {0}
      BY SocdAssumption
<1>2. /\ q = <<j, q[2], q[3]>> /\ q[2] # j /\ q[3] \in 0..2
      /\ Setting(q).keys = {j, q[2]}
      /\ Setting(q).wins = IF q[3] = 0 THEN 0 ELSE IF q[3] = 1 THEN j ELSE q[2]
      BY RowParts
<1>3. /\ row[2] # k /\ row[3] \in 0..2 /\ Setting(row).keys = {k, j}
      /\ Setting(row).wins = IF row[3] = 0 THEN 0 ELSE IF row[3] = 1 THEN k ELSE j
      /\ Rebased(row) = <<j, k, IF row[3] = 0 THEN 0 ELSE 3 - row[3]>>
      BY RowParts
<1>4. {j, q[2]} = {k, j} /\ j # k
      BY <1>2, <1>3
<1>5. q[2] = k
      BY <1>2, <1>4
<1>6. q[3] = IF row[3] = 0 THEN 0 ELSE 3 - row[3]
  <2>1. (q[3] = 0 \/ q[3] = 1 \/ q[3] = 2) /\ (row[3] = 0 \/ row[3] = 1 \/ row[3] = 2)
        BY <1>2, <1>3
  <2>2. Setting(q).wins = Setting(row).wins
        OBVIOUS
  <2> QED BY <1>1, <1>2, <1>3, <1>4, <1>5, <2>1, <2>2
<1> QED BY <1>2, <1>3, <1>5, <1>6

LEMMA BoardParts ==
  ASSUME NEW b \in Boards
  PROVE  /\ b.mode \in [Keys -> Mode] /\ b.row \in [Keys -> Rows]
         /\ b = [mode |-> b.mode, row |-> b.row]
         /\ \A k \in Keys : b.row[k] = NoRow \/ IsRow(k, b.row[k])
BY DEF Boards

-----------------------------------------------------------------------------
(* Boards.                                                                 *)

\* What read_socd accepts: every flagged key in one pair with another.
LEMMA CoherentRows ==
  ASSUME NEW b \in Boards, Coherent(b), NEW k \in Flagged(b)
  PROVE  /\ k \in Keys /\ IsRow(k, b.row[k])
         /\ b.row[k][2] \in Flagged(b) /\ b.row[k][2] \in Keys /\ b.row[k][2] # k
         /\ b.row[b.row[k][2]] = Rebased(b.row[k]) /\ b.row[b.row[k][2]][2] = k
         /\ Setting(b.row[k]).keys = {k, b.row[k][2]}
         /\ Setting(b.row[b.row[k][2]]) = Setting(b.row[k])
<1> DEFINE m == b.row[k][2]
<1>1. k \in Keys /\ b.row[k] # NoRow /\ m \in Flagged(b) /\ Setting(b.row[m]) = Setting(b.row[k])
      BY DEF Coherent, Flagged
<1>2. m \in Keys /\ b.row[m] # NoRow
      BY <1>1 DEF Coherent, Flagged
<1>3. IsRow(k, b.row[k]) /\ IsRow(m, b.row[m])
      BY <1>1, <1>2, BoardParts
<1>4. b.row[m] = Rebased(b.row[k])
      BY <1>1, <1>2, <1>3, SettingsAgree
<1>5. b.row[m][2] = k
      BY <1>1, <1>2, <1>3, <1>4, RebasedRow
<1>6. Setting(b.row[k]).keys = {k, m} /\ m # k
      BY <1>1, <1>3, RowParts
<1> QED BY <1>1, <1>2, <1>3, <1>4, <1>5, <1>6

LEMMA RowsCoherent ==
  ASSUME NEW b \in Boards,
         \A k \in Flagged(b) : /\ b.row[k] # NoRow /\ b.row[k][2] \in Flagged(b)
                               /\ b.row[b.row[k][2]] = Rebased(b.row[k])
  PROVE  Coherent(b)
<1>1. ASSUME NEW k \in Flagged(b)
      PROVE  /\ b.row[k] # NoRow /\ b.row[k][2] \in Flagged(b)
             /\ Setting(b.row[b.row[k][2]]) = Setting(b.row[k])
  <2>1. k \in Keys /\ b.row[k][2] \in Keys /\ b.row[k] # NoRow /\ b.row[k][2] \in Flagged(b)
        BY DEF Flagged
  <2>2. IsRow(k, b.row[k])
        BY <2>1, BoardParts
  <2> QED BY <2>1, <2>2, RebasedRow
<1> QED BY <1>1 DEF Coherent

LEMMA OnePairing ==
  ASSUME NEW b \in Boards, Coherent(b), NEW k \in Keys
  PROVE  /\ k \in Flagged(b) => PairingOf(b, k) = {Setting(b.row[k])}
         /\ k \notin Flagged(b) => PairingOf(b, k) = {}
<1>1. ASSUME NEW j \in Flagged(b), k \in Setting(b.row[j]).keys
      PROVE  k \in Flagged(b) /\ Setting(b.row[j]) = Setting(b.row[k])
  <2>1. k = j \/ k = b.row[j][2]
        BY <1>1, CoherentRows
  <2> QED BY <2>1, CoherentRows
<1>2. k \in Flagged(b) => k \in Setting(b.row[k]).keys
      BY CoherentRows
<1> QED BY <1>1, <1>2 DEF PairingOf, Pairings

LEMMA CoherentLive ==
  ASSUME NEW b \in Boards, Coherent(b)
  PROVE  Live(b) = Pairings(b)
<1>1. \A j \in Flagged(b) : /\ b.row[j] # NoRow /\ b.row[j][2] \in Flagged(b)
                            /\ b.row[b.row[j][2]] = Rebased(b.row[j])
      BY CoherentRows DEF Coherent
<1> QED BY <1>1 DEF Live, Pairings

\* A pair the board acts on, by one of its keys.
LEMMA LivePair ==
  ASSUME NEW b \in Boards, NEW p \in Live(b)
  PROVE  \E k \in Flagged(b) :
           /\ k \in Keys /\ IsRow(k, b.row[k]) /\ p = Setting(b.row[k]) /\ p.keys = {k, b.row[k][2]}
           /\ b.row[k][2] \in Flagged(b) /\ b.row[k][2] \in Keys
           /\ b.row[b.row[k][2]] = Rebased(b.row[k])
<1>1. PICK k \in Flagged(b) : /\ p = Setting(b.row[k]) /\ b.row[k] # NoRow /\ b.row[k][2] \in Flagged(b)
                              /\ b.row[b.row[k][2]] = Rebased(b.row[k])
      BY DEF Live
<1>2. k \in Keys /\ b.row[k][2] \in Keys
      BY <1>1 DEF Flagged
<1>3. IsRow(k, b.row[k])
      BY <1>1, <1>2, BoardParts
<1>4. p.keys = {k, b.row[k][2]}
      BY <1>1, <1>2, <1>3, RowParts
<1> QED BY <1>1, <1>2, <1>3, <1>4

\* A pair stays as long as its two keys keep their nibble and their row.
LEMMA PairStays ==
  ASSUME NEW b \in Boards, NEW c \in Boards, NEW p \in Live(b),
         \A k \in p.keys \cap Flagged(b) : k \in Flagged(c) /\ c.row[k] = b.row[k]
  PROVE  p \in Live(c)
<1>1. PICK k \in Flagged(b) :
           /\ k \in Keys /\ IsRow(k, b.row[k]) /\ p = Setting(b.row[k]) /\ p.keys = {k, b.row[k][2]}
           /\ b.row[k][2] \in Flagged(b) /\ b.row[k][2] \in Keys
           /\ b.row[b.row[k][2]] = Rebased(b.row[k])
      BY LivePair
<1>2. /\ k \in Flagged(c) /\ c.row[k] = b.row[k]
      /\ b.row[k][2] \in Flagged(c) /\ c.row[b.row[k][2]] = b.row[b.row[k][2]]
      BY <1>1
<1>3. c.row[k] # NoRow
      BY <1>1, <1>2, RowParts
<1> QED BY <1>1, <1>2, <1>3 DEF Live

-----------------------------------------------------------------------------
(* Frames.                                                                 *)

LEMMA BoardOf ==
  ASSUME NEW mode \in [Keys -> Mode], NEW row, DOMAIN row = Keys, row = [k \in Keys |-> row[k]],
         \A k \in Keys : row[k] = NoRow \/ IsRow(k, row[k])
  PROVE  [mode |-> mode, row |-> row] \in Boards
<1>1. \A k \in Keys : row[k] \in Rows
      BY DEF Rows, IsRow
<1>2. row \in [Keys -> Rows]
      BY <1>1
<1> QED BY <1>2 DEF Boards

LEMMA PairedParts ==
  ASSUME NEW b \in Boards, NEW a \in Keys, NEW row, IsRow(a, row), row[2] \in Keys
  PROVE  /\ Paired(b, row) \in Boards
         /\ Flagged(Paired(b, row)) = Flagged(b) \cup {a, row[2]}
         /\ Paired(b, row).row[a] = row /\ Paired(b, row).row[row[2]] = Rebased(row)
         /\ \A k \in Keys \ {a, row[2]} : /\ Paired(b, row).row[k] = b.row[k]
                                          /\ Paired(b, row).mode[k] = b.mode[k]
         /\ \A k \in Keys : Paired(b, row).mode[k].touch = b.mode[k].touch
<1> DEFINE c == row[2]
           flag(m) == [m EXCEPT !.advanced = ADVANCED_SOCD]
           mode == [k \in Keys |-> IF k \in {a, c} THEN flag(b.mode[k]) ELSE b.mode[k]]
           rows == [k \in Keys |-> IF k = a THEN row ELSE IF k = c THEN Rebased(row) ELSE b.row[k]]
<1>1. a # c /\ row[1] = a
      BY RowParts
<1>2. b.mode \in [Keys -> Mode] /\ b.row \in [Keys -> Rows] /\ b = [mode |-> b.mode, row |-> b.row]
      BY BoardParts
<1>3. \A m \in Mode : flag(m) \in Mode /\ flag(m).touch = m.touch /\ flag(m).advanced = ADVANCED_SOCD
      BY DEF Mode
<1>4. Paired(b, row) = [mode |-> mode, row |-> rows]
  <2> DEFINE m1 == [b.mode EXCEPT ![a].advanced = ADVANCED_SOCD]
             m2 == [m1 EXCEPT ![c].advanced = ADVANCED_SOCD]
             r1 == [b.row EXCEPT ![a] = row]
             r2 == [r1 EXCEPT ![c] = Rebased(row)]
  <2>1. Paired(b, row) = [b EXCEPT !.mode = m2, !.row = r2]
        BY <1>1, <1>2 DEF Paired
  <2>2. m2 = mode
        BY <1>1, <1>2
  <2>3. r2 = rows
        BY <1>1, <1>2
  <2> QED BY <1>2, <2>1, <2>2, <2>3
<1>5. mode \in [Keys -> Mode]
      BY <1>2, <1>3
<1>6. \A k \in Keys : rows[k] = NoRow \/ IsRow(k, rows[k])
      BY <1>1, BoardParts, RebasedRow
<1>7. Paired(b, row) \in Boards
      BY <1>4, <1>5, <1>6, BoardOf
<1>8. Paired(b, row).mode = mode /\ Paired(b, row).row = rows
      BY <1>4
<1>9. Flagged(Paired(b, row)) = Flagged(b) \cup {a, c}
      BY <1>2, <1>3, <1>8 DEF Flagged
<1> QED BY <1>1, <1>2, <1>3, <1>7, <1>8, <1>9

LEMMA TouchLost ==
  ASSUME NEW b \in Boards, NEW k \in Keys
  PROVE  LET c == [b EXCEPT !.mode[k].touch = 0]
         IN  /\ c \in Boards /\ c.row = b.row /\ Flagged(c) = Flagged(b)
             /\ c.mode[k].touch = 0 /\ c.mode[k].advanced = b.mode[k].advanced
             /\ \A j \in Keys \ {k} : c.mode[j] = b.mode[j]
<1> DEFINE mode == [b.mode EXCEPT ![k].touch = 0]
           c == [b EXCEPT !.mode[k].touch = 0]
<1>1. b.mode \in [Keys -> Mode] /\ b.row \in [Keys -> Rows] /\ b = [mode |-> b.mode, row |-> b.row]
      BY BoardParts
<1>2. c = [mode |-> mode, row |-> b.row]
      BY <1>1
<1>3. /\ mode \in [Keys -> Mode] /\ mode[k].touch = 0 /\ mode[k].advanced = b.mode[k].advanced
      /\ \A j \in Keys \ {k} : mode[j] = b.mode[j]
      BY <1>1, SocdAssumption DEF Mode
<1>4. c \in Boards
      BY <1>1, <1>2, <1>3, BoardParts, BoardOf
<1>5. Flagged(c) = Flagged(b)
      BY <1>1, <1>2, <1>3 DEF Flagged
<1> QED BY <1>2, <1>3, <1>4, <1>5

LEMMA ClearedParts ==
  ASSUME NEW b \in Boards, NEW k \in Keys, NEW m \in Mode, NEW c \in Cleared(b, k, m)
  PROVE  /\ c \in Boards /\ c.mode[k] = m
         /\ \A j \in Keys \ {k} : c.mode[j] = b.mode[j] /\ c.row[j] = b.row[j]
<1>1. b.mode \in [Keys -> Mode] /\ b.row \in [Keys -> Rows] /\ b = [mode |-> b.mode, row |-> b.row]
      BY BoardParts
<1> DEFINE mode == [b.mode EXCEPT ![k] = m]
           rows == [b.row EXCEPT ![k] = IF m.advanced = ADVANCED_SOCD THEN @ ELSE NoRow]
<1>2. c = [mode |-> mode, row |-> b.row] \/ c = [mode |-> mode, row |-> rows]
      BY <1>1 DEF Cleared
<1>3. mode \in [Keys -> Mode] /\ mode[k] = m /\ \A j \in Keys \ {k} : mode[j] = b.mode[j]
      BY <1>1
<1>4. /\ \A j \in Keys : rows[j] = NoRow \/ rows[j] = b.row[j]
      /\ \A j \in Keys \ {k} : rows[j] = b.row[j]
      BY <1>1
<1>5. rows = [j \in Keys |-> rows[j]] /\ DOMAIN rows = Keys
      BY <1>1
<1>6. \A j \in Keys : b.row[j] = NoRow \/ IsRow(j, b.row[j])
      BY BoardParts
<1>7. \A j \in Keys : rows[j] = NoRow \/ IsRow(j, rows[j])
      BY <1>4, <1>6
<1>8. c \in Boards
  <2>1. [mode |-> mode, row |-> rows] \in Boards
        BY <1>3, <1>5, <1>7, BoardOf
  <2>2. [mode |-> mode, row |-> b.row] \in Boards
        BY <1>1, <1>3, <1>6, BoardOf
  <2> QED BY <1>2, <2>1, <2>2
<1>9. c.mode = mode /\ (c.row = b.row \/ c.row = rows)
      BY <1>2
<1>10. \A j \in Keys \ {k} : c.row[j] = b.row[j]
      BY <1>4, <1>9
<1> QED BY <1>3, <1>8, <1>9, <1>10

\* A pair made of two keys that were in none: the board has it and what it had.
LEMMA PairAdds ==
  ASSUME NEW b \in Boards, Coherent(b), NEW q \in Boards, NEW a \in Keys, NEW row, IsRow(a, row),
         row[2] \in Keys, a \notin Flagged(b), row[2] \notin Flagged(b),
         Flagged(q) = Flagged(b) \cup {a, row[2]}, q.row[a] = row, q.row[row[2]] = Rebased(row),
         \A k \in Keys \ {a, row[2]} : q.row[k] = b.row[k]
  PROVE  Coherent(q) /\ Live(q) = Live(b) \cup {Setting(row)}
<1> DEFINE c == row[2]
<1>1. /\ row # NoRow /\ Rebased(row) # NoRow /\ Rebased(row)[2] = a /\ Rebased(Rebased(row)) = row
      /\ Setting(Rebased(row)) = Setting(row)
  <2>1. IsRow(c, Rebased(row)) /\ Rebased(row)[2] = a /\ Rebased(Rebased(row)) = row
        BY RebasedRow
  <2> QED BY <2>1, RowParts, RebasedRow
<1>2. ASSUME NEW k \in Flagged(b)
      PROVE  /\ k \in Flagged(q) /\ q.row[k] = b.row[k] /\ b.row[k] # NoRow
             /\ q.row[k][2] \in Flagged(b) /\ q.row[q.row[k][2]] = Rebased(q.row[k])
  <2>1. /\ k \in Keys /\ IsRow(k, b.row[k]) /\ b.row[k][2] \in Flagged(b) /\ b.row[k][2] \in Keys
        /\ b.row[b.row[k][2]] = Rebased(b.row[k])
        BY CoherentRows
  <2>2. b.row[k] # NoRow
        BY <2>1, RowParts
  <2>3. q.row[k] = b.row[k] /\ q.row[b.row[k][2]] = b.row[b.row[k][2]]
        BY <2>1
  <2> QED BY <2>1, <2>2, <2>3
<1>3. \A k \in Flagged(q) : /\ q.row[k] # NoRow /\ q.row[k][2] \in Flagged(q)
                            /\ q.row[q.row[k][2]] = Rebased(q.row[k])
      BY <1>1, <1>2
<1>4. Coherent(q)
      BY <1>3, RowsCoherent
<1>5. Pairings(q) = Pairings(b) \cup {Setting(row)}
  <2>1. \A k \in Flagged(b) : k \in Flagged(q) /\ Setting(q.row[k]) = Setting(b.row[k])
        BY <1>2
  <2>2. Setting(q.row[a]) = Setting(row) /\ Setting(q.row[c]) = Setting(row)
        BY <1>1
  <2> QED BY <2>1, <2>2 DEF Pairings
<1> QED BY <1>4, <1>5, CoherentLive

\* Whole pairs taken off a coherent board leave the others.
LEMMA PairsRemoved ==
  ASSUME NEW b \in Boards, Coherent(b), NEW q \in Boards, NEW gone,
         \A k \in Flagged(b) : k \in gone <=> b.row[k][2] \in gone,
         Flagged(q) = Flagged(b) \ gone, \A k \in Flagged(q) : q.row[k] = b.row[k]
  PROVE  /\ Coherent(q)
         /\ Live(q) = {Setting(b.row[k]) : k \in Flagged(b) \ gone}
<1>1. ASSUME NEW k \in Flagged(q)
      PROVE  /\ q.row[k] = b.row[k] /\ q.row[k] # NoRow
             /\ q.row[k][2] \in Flagged(q) /\ q.row[q.row[k][2]] = Rebased(q.row[k])
  <2>1. /\ k \in Keys /\ IsRow(k, b.row[k]) /\ b.row[k][2] \in Flagged(b)
        /\ b.row[b.row[k][2]] = Rebased(b.row[k])
        BY CoherentRows
  <2>2. b.row[k] # NoRow
        BY <2>1, RowParts
  <2> QED BY <2>1, <2>2
<1>2. Coherent(q)
      BY <1>1, RowsCoherent
<1>3. Pairings(q) = {Setting(b.row[k]) : k \in Flagged(b) \ gone}
      BY <1>1 DEF Pairings
<1> QED BY <1>2, <1>3, CoherentLive

\* What check_unpaired lets through.
LEMMA AcceptedKeys ==
  ASSUME board \in Boards, Coherent(board), NEW k \in Keys
  PROVE  PairingOf(board, k) = {} <=> k \notin Flagged(board)
BY OnePairing

LEMMA WrittenRow ==
  ASSUME NEW c, WellFormedSocd(c), c.op = "pair"
  PROVE  LET row == WritePair(c.a, c.b, c.wins)
         IN  /\ IsRow(c.a, row) /\ row[2] = c.b /\ c.a \in Keys /\ c.b \in Keys /\ c.a # c.b
             /\ Setting(row) = [keys |-> {c.a, c.b}, wins |-> c.wins]
<1>1. {c.a, c.b} \subseteq Keys /\ c.a # c.b /\ c.wins \in {0, c.a, c.b}
      BY DEF WellFormedSocd, LastInput
<1>2. c.a \in Nat \ {0} /\ c.b \in Nat \ {0}
      BY <1>1, SocdAssumption
<1> DEFINE row == WritePair(c.a, c.b, c.wins)
           pr == IF c.wins = 0 THEN 0 ELSE IF c.wins = c.a THEN 1 ELSE 2
<1>3. row = <<c.a, c.b, pr>> /\ pr \in 0..2
      BY DEF WritePair, LastInput
<1>4. row[1] = c.a /\ row[2] = c.b /\ row[3] = pr /\ row \in Nat \X Nat \X (0..2)
      BY <1>2, <1>3
<1>5. IsRow(c.a, row)
      BY <1>1, <1>2, <1>4 DEF IsRow
<1>6. Setting(row) = [keys |-> {c.a, c.b}, wins |-> IF pr = 0 THEN 0 ELSE IF pr = 1 THEN c.a ELSE c.b]
  <2> HIDE DEF row, pr
  <2>1. c.a \in Keys
        BY <1>1
  <2>2. Setting(row) = [keys |-> {c.a, row[2]}, wins |-> IF row[3] = 0 THEN 0 ELSE IF row[3] = 1 THEN c.a ELSE row[2]]
        BY <1>5, <2>1, RowParts
  <2> QED BY <1>4, <2>2
<1>7. (IF pr = 0 THEN 0 ELSE IF pr = 1 THEN c.a ELSE c.b) = c.wins
      BY <1>1, <1>2
<1> QED BY <1>1, <1>4, <1>5, <1>6, <1>7

-----------------------------------------------------------------------------
(* Plans.                                                                  *)

LEMMA Least ==
  ASSUME NEW T, T \subseteq Nat, T # {}
  PROVE  \E m \in T : \A k \in T : m <= k
<1>1. IsWellFoundedOn(OpToRel(<,Nat), Nat)
      BY NatLessThanWellFounded
<1>2. \E x \in T : \A y \in T : ~(<<y, x>> \in OpToRel(<,Nat))
      BY <1>1, WFMin
<1>3. PICK x \in T : \A y \in T : ~(<<y, x>> \in OpToRel(<,Nat))
      BY <1>2
<1>4. \A y \in T : ~(y < x)
      BY <1>3 DEF OpToRel
<1> QED BY <1>4

\* A function given by its first value and a step.
IsRecursion(f, N, X, b, F) == f \in [0..N -> X] /\ f[0] = b /\ \A i \in 1..N : f[i] = F[<<i, f[i - 1]>>]

LEMMA RecursionExists ==
  ASSUME NEW N \in Nat, NEW X, NEW b \in X, NEW F \in [(1..N) \X X -> X]
  PROVE  \E f : IsRecursion(f, N, X, b, F)
<1> DEFINE Upto(n) == \E f \in [0..n -> X] : f[0] = b /\ \A i \in 1..n : f[i] = F[<<i, f[i - 1]>>]
           T == {n \in 0..N : ~Upto(n)}
<1>1. ASSUME T # {} PROVE FALSE
  <2>1. PICK m \in T : \A k \in T : m <= k
    <3>1. T \subseteq Nat
          OBVIOUS
    <3> HIDE DEF T
    <3> QED BY <1>1, <3>1, Least
  <2>2. m # 0
    <3>1. Upto(0)
      <4> DEFINE g == [i \in 0..0 |-> b]
      <4>1. g \in [0..0 -> X] /\ g[0] = b /\ \A i \in 1..0 : g[i] = F[<<i, g[i - 1]>>]
            OBVIOUS
      <4> QED BY <4>1
    <3> QED BY <2>1, <3>1
  <2>3. m \in 1..N /\ m - 1 \in 0..N /\ m - 1 \notin T
        BY <2>1, <2>2
  <2>4. Upto(m - 1)
        BY <2>3
  <2>5. PICK f \in [0..(m - 1) -> X] : f[0] = b /\ \A i \in 1..(m - 1) : f[i] = F[<<i, f[i - 1]>>]
        BY <2>4
  <2> DEFINE g == [i \in 0..m |-> IF i = m THEN F[<<m, f[m - 1]>>] ELSE f[i]]
  <2>6. F[<<m, f[m - 1]>>] \in X
        BY <2>3, <2>5
  <2>7. g \in [0..m -> X] /\ g[0] = b
        BY <2>3, <2>5, <2>6
  <2>8. ASSUME NEW i \in 1..m PROVE g[i] = F[<<i, g[i - 1]>>]
    <3>1. g[i - 1] = f[i - 1]
          BY <2>3
    <3>2. CASE i = m
      <4>1. g[i] = F[<<m, f[m - 1]>>]
            BY <3>2, <2>3
      <4> QED BY <3>1, <3>2, <4>1
    <3>3. CASE i # m
      <4>1. i \in 1..(m - 1) /\ g[i] = f[i]
            BY <2>3, <3>3
      <4> QED BY <2>5, <3>1, <4>1
    <3> QED BY <3>2, <3>3
  <2>9. Upto(m)
        BY <2>7, <2>8
  <2> QED BY <2>1, <2>9
<1>2. N \in 0..N /\ N \notin T
      BY <1>1
<1> QED BY <1>2 DEF IsRecursion

\* The enumeration in matrix order is one to one and leaves no key out.
LEMMA InOrderCovers ==
  ASSUME NEW keys, keys \subseteq Nat, IsFiniteSet(keys)
  PROVE  /\ Cardinality(keys) \in Nat
         /\ InOrder(keys) \in [1..Cardinality(keys) -> keys]
         /\ \A k \in keys : \E n \in 1..Cardinality(keys) : InOrder(keys)[n] = k
<1> DEFINE N == Cardinality(keys)
           upto(k) == {j \in keys : j <= k}
           f == [k \in keys |-> Cardinality(upto(k))]
<1>1. N \in Nat /\ IsFiniteSet(1..N) /\ Cardinality(1..N) = N
      BY FS_CardinalityType, FS_Interval
<1>2. ASSUME NEW k \in keys PROVE IsFiniteSet(upto(k)) /\ Cardinality(upto(k)) \in 1..N
  <2>1. IsFiniteSet(upto(k)) /\ Cardinality(upto(k)) <= N
        BY FS_Subset
  <2>2. Cardinality(upto(k)) \in Nat /\ Cardinality(upto(k)) # 0
        BY <2>1, FS_CardinalityType, FS_EmptySet
  <2> QED BY <1>1, <2>1, <2>2
<1>3. ASSUME NEW k \in keys, NEW l \in keys, k < l PROVE f[k] # f[l]
  <2>1. upto(k) \in SUBSET upto(l) /\ l \in upto(l) /\ l \notin upto(k)
    <3>1. k \in Nat /\ l \in Nat /\ \A j \in keys : j \in Nat
          OBVIOUS
    <3>2. \A j \in keys : j <= k => j <= l
          BY <1>3, <3>1
    <3>3. l <= l /\ ~(l <= k)
          BY <1>3, <3>1
    <3> QED BY <3>2, <3>3
  <2>2. Cardinality(upto(k)) # Cardinality(upto(l))
        BY <1>2, <2>1, FS_Subset
  <2> QED BY <2>2
<1>4. f \in [keys -> 1..N]
      BY <1>2
<1>5. \A k, l \in keys : f[k] = f[l] => k = l
      BY <1>3
<1>6. f \in Injection(keys, 1..N)
      BY <1>4, <1>5 DEF Injection, IsInjective
<1>7. f \in Surjection(keys, 1..N)
      BY <1>1, <1>6, FS_Injection
<1>8. ASSUME NEW n \in 1..N PROVE InOrder(keys)[n] \in keys /\ f[InOrder(keys)[n]] = n
  <2>1. \E k \in keys : f[k] = n
        BY <1>7 DEF Surjection
  <2>2. \E k \in keys : Cardinality(upto(k)) = n
        BY <2>1
  <2>3. InOrder(keys)[n] = CHOOSE k \in keys : Cardinality(upto(k)) = n
        BY DEF InOrder
  <2> QED BY <2>2, <2>3
<1>9. InOrder(keys) \in [1..N -> keys]
      BY <1>8 DEF InOrder
<1>10. ASSUME NEW k \in keys PROVE f[k] \in 1..N /\ InOrder(keys)[f[k]] = k
       BY <1>4, <1>5, <1>8
<1> QED BY <1>1, <1>9, <1>10

LEMMA PlansJoin ==
  ASSUME NEW s, NEW t, NEW doing, NEW done, NEW keys, NEW more,
         Plan(s, doing, done, keys), Plan(t, doing, done, more)
  PROVE  Plan(s \o t, doing, done, keys \cup more)
<1> DEFINE u == s \o t
           M == Len(s)
           N == Len(t)
<1>1. s \in Seq(Steps) /\ t \in Seq(Steps)
      BY DEF Plan
<1>2. M \in Nat /\ N \in Nat
      BY <1>1, LenProperties
<1>3. /\ u \in Seq(Steps) /\ Len(u) = M + N
      /\ \A n \in 1..(M + N) : u[n] = IF n <= M THEN s[n] ELSE t[n - M]
      BY <1>1, ConcatProperties
<1>4. /\ \A n \in 1..M : n \in 1..(M + N) /\ u[n] = s[n]
      /\ \A n \in 1..N : M + n \in 1..(M + N) /\ u[M + n] = t[n]
  <2> HIDE DEF u, M, N
  <2>1. ASSUME NEW n \in 1..M PROVE n \in 1..(M + N) /\ u[n] = s[n]
    <3>1. n \in 1..(M + N) /\ n <= M
          BY <1>2
    <3> QED BY <1>3, <3>1
  <2>2. ASSUME NEW n \in 1..N PROVE M + n \in 1..(M + N) /\ u[M + n] = t[n]
    <3>1. M + n \in 1..(M + N) /\ ~(M + n <= M) /\ M + n - M = n
          BY <1>2
    <3>2. u[M + n] = t[M + n - M]
          BY <1>2, <1>3, <3>1
    <3> QED BY <3>1, <3>2
  <2> QED BY <2>1, <2>2
<1>5. ASSUME NEW n \in 1..(M + N)
      PROVE  (n \in 1..M /\ u[n] = s[n]) \/ (\E i \in 1..N : n = M + i /\ u[n] = t[i])
  <2>1. CASE n <= M
        BY <1>2, <1>3, <2>1
  <2>2. CASE ~(n <= M)
    <3>1. n - M \in 1..N /\ n = M + (n - M)
          BY <1>2, <2>2
    <3> QED BY <1>3, <2>2, <3>1
  <2> QED BY <2>1, <2>2
<1> HIDE DEF u, M, N
<1>6. /\ \A n \in 1..M : s[n].do \in {doing, done} /\ s[n].key \in keys
      /\ \A n \in 1..N : t[n].do \in {doing, done} /\ t[n].key \in more
      BY DEF Plan, FramesAreChecked, M, N
<1>7. \A n \in 1..(M + N) : u[n].do \in {doing, done} /\ u[n].key \in keys \cup more
      BY <1>5, <1>6
<1>8. ASSUME NEW n \in 1..(M + N), u[n].do = doing
      PROVE  \E m \in (n + 1)..(M + N) : u[m] = Step(done, u[n].key)
  <2>1. CASE n \in 1..M /\ u[n] = s[n]
    <3>1. PICK m \in (n + 1)..M : s[m] = Step(done, s[n].key)
          BY <1>8, <2>1 DEF Plan, FramesAreChecked, M
    <3>2. m \in 1..M /\ m \in (n + 1)..(M + N)
          BY <1>2, <2>1, <3>1
    <3> QED BY <1>4, <2>1, <3>1, <3>2
  <2>2. ASSUME NEW i \in 1..N, n = M + i, u[n] = t[i]
        PROVE  \E m \in (n + 1)..(M + N) : u[m] = Step(done, u[n].key)
    <3>1. PICK m \in (i + 1)..N : t[m] = Step(done, t[i].key)
          BY <1>8, <2>2 DEF Plan, FramesAreChecked, N
    <3>2. m \in 1..N /\ M + m \in (n + 1)..(M + N)
          BY <1>2, <2>2, <3>1
    <3> QED BY <1>4, <2>2, <3>1, <3>2
  <2> QED BY <1>5, <2>1, <2>2
<1>9. ASSUME NEW n \in 1..(M + N), u[n].do = done
      PROVE  \E m \in 1..(n - 1) : u[m] = Step(doing, u[n].key)
  <2>1. CASE n \in 1..M /\ u[n] = s[n]
    <3>1. PICK m \in 1..(n - 1) : s[m] = Step(doing, s[n].key)
          BY <1>9, <2>1 DEF Plan, ChecksHaveFrames, M
    <3>2. m \in 1..M
          BY <1>2, <2>1, <3>1
    <3> QED BY <1>4, <2>1, <3>1, <3>2
  <2>2. ASSUME NEW i \in 1..N, n = M + i, u[n] = t[i]
        PROVE  \E m \in 1..(n - 1) : u[m] = Step(doing, u[n].key)
    <3>1. PICK m \in 1..(i - 1) : t[m] = Step(doing, t[i].key)
          BY <1>9, <2>2 DEF Plan, ChecksHaveFrames, N
    <3>2. m \in 1..N /\ M + m \in 1..(n - 1)
          BY <1>2, <2>2, <3>1
    <3> QED BY <1>4, <2>2, <3>1, <3>2
  <2> QED BY <1>5, <2>1, <2>2
<1>10. ASSUME NEW k \in keys \cup more
       PROVE  \E n \in 1..(M + N) : u[n] = Step(done, k)
  <2>1. CASE k \in keys
    <3>1. PICK n \in 1..M : s[n] = Step(done, k)
          BY <2>1 DEF Plan, Has, M
    <3> QED BY <1>4, <3>1
  <2>2. CASE k \in more
    <3>1. PICK n \in 1..N : t[n] = Step(done, k)
          BY <2>2 DEF Plan, Has, N
    <3> QED BY <1>4, <3>1
  <2> QED BY <2>1, <2>2
<1>11. u \in Seq(Steps) /\ Len(u) = M + N
       BY <1>3
<1>12. Plan(u, doing, done, keys \cup more)
       BY <1>7, <1>8, <1>9, <1>10, <1>11 DEF Plan, FramesAreChecked, ChecksHaveFrames, Has
<1> QED BY <1>12 DEF u

LEMMA NoPlan == ASSUME NEW doing, NEW done PROVE Plan(<<>>, doing, done, {})
<1>1. <<>> \in Seq(Steps) /\ Len(<<>>) = 0
      BY EmptySeq
<1> QED BY <1>1 DEF Plan, FramesAreChecked, ChecksHaveFrames

\* Both keys of a pair, in matrix order.
LEMMA TwoInOrder ==
  ASSUME NEW a \in Keys, NEW c \in Keys, a # c
  PROVE  LET keys == InOrder({a, c}) IN {keys[1], keys[2]} = {a, c}
<1>1. {a, c} \subseteq Nat /\ IsFiniteSet({a, c}) /\ Cardinality({a, c}) = 2
  <2>1. IsFiniteSet({a}) /\ Cardinality({a}) = 1 /\ {a, c} = {a} \cup {c} /\ c \notin {a}
        BY FS_Singleton
  <2>2. IsFiniteSet({a} \cup {c}) /\ Cardinality({a} \cup {c}) = 2
        BY <2>1, FS_AddElement
  <2> QED BY <2>1, <2>2, SocdAssumption
<1> DEFINE keys == InOrder({a, c})
<1>2. keys \in [1..2 -> {a, c}] /\ \A k \in {a, c} : \E n \in 1..2 : keys[n] = k
  <2>1. /\ InOrder({a, c}) \in [1..Cardinality({a, c}) -> {a, c}]
        /\ \A k \in {a, c} : \E n \in 1..Cardinality({a, c}) : InOrder({a, c})[n] = k
        BY <1>1, InOrderCovers
  <2> QED BY <1>1, <2>1
<1> HIDE DEF keys
<1>3. keys[1] \in {a, c} /\ keys[2] \in {a, c} /\ \A k \in {a, c} : keys[1] = k \/ keys[2] = k
      BY <1>2
<1> QED BY <1>3 DEF keys

LEMMA UnpairStepsPlan ==
  ASSUME NEW p, NEW a \in Keys, NEW c \in Keys, a # c, p.keys = {a, c}
  PROVE  Plan(UnpairSteps(p), "clear", "cleared", p.keys)
<1> DEFINE one == InOrder(p.keys)[1]
           two == InOrder(p.keys)[2]
           s == UnpairSteps(p)
<1>1. {one, two} = {a, c}
      BY TwoInOrder
<1>2. s = <<Step("clear", one), Step("clear", two), Step("cleared", one), Step("cleared", two)>>
      BY DEF UnpairSteps
<1> HIDE DEF one, two, s
<1>3. one \in Keys /\ two \in Keys /\ one \in p.keys /\ two \in p.keys /\ \A k \in p.keys : k = one \/ k = two
      BY <1>1
<1>4. \A w \in {"clear", "cleared"}, k \in Keys :
        Step(w, k) \in Steps /\ Step(w, k).do = w /\ Step(w, k).key = k
      BY DEF Step, Steps
<1>5. /\ Len(s) = 4 /\ s[1] = Step("clear", one) /\ s[2] = Step("clear", two)
      /\ s[3] = Step("cleared", one) /\ s[4] = Step("cleared", two)
      BY <1>2
<1>6. s \in Seq(Steps)
      BY <1>2, <1>3, <1>4
<1>7. \A n \in 1..4 : n = 1 \/ n = 2 \/ n = 3 \/ n = 4
      OBVIOUS
<1>8. /\ \A n \in 1..4 : s[n].do \in {"clear", "cleared"} /\ s[n].key \in p.keys
      /\ \A n \in 1..4 : s[n].do = "clear" => n = 1 \/ n = 2
      /\ \A n \in 1..4 : s[n].do = "cleared" => n = 3 \/ n = 4
      BY <1>3, <1>4, <1>5, <1>7
<1>9. /\ s[1].key = one /\ s[2].key = two /\ s[3].key = one /\ s[4].key = two
      BY <1>3, <1>4, <1>5
<1>10. \A n \in 1..4 : s[n].do = "clear" => \E m \in (n + 1)..4 : s[m] = Step("cleared", s[n].key)
       BY <1>5, <1>8, <1>9
<1>11. \A n \in 1..4 : s[n].do = "cleared" => \E m \in 1..(n - 1) : s[m] = Step("clear", s[n].key)
       BY <1>5, <1>8, <1>9
<1>12. \A k \in p.keys : \E n \in 1..4 : s[n] = Step("cleared", k)
       BY <1>3, <1>5
<1>13. Plan(s, "clear", "cleared", p.keys)
       BY <1>5, <1>6, <1>8, <1>10, <1>11, <1>12 DEF Plan, FramesAreChecked, ChecksHaveFrames, Has
<1> QED BY <1>13 DEF s

LEMMA RestorePlan == Plan(RestoreSteps("restore") \o RestoreSteps("restored"), "restore", "restored", Keys)
<1> DEFINE N == Cardinality(Keys)
           keys == InOrder(Keys)
           s == RestoreSteps("restore")
           t == RestoreSteps("restored")
           u == s \o t
<1>1. /\ N \in Nat /\ keys \in [1..N -> Keys]
      /\ \A k \in Keys : \E n \in 1..N : keys[n] = k
  <2>1. Keys \subseteq Nat /\ IsFiniteSet(Keys)
        BY SocdAssumption
  <2> QED BY <2>1, InOrderCovers
<1>2. s = [n \in 1..N |-> Step("restore", keys[n])] /\ t = [n \in 1..N |-> Step("restored", keys[n])]
      BY <1>1 DEF RestoreSteps
<1>3. \A w \in {"restore", "restored"}, k \in Keys :
        Step(w, k) \in Steps /\ Step(w, k).do = w /\ Step(w, k).key = k
      BY DEF Step, Steps
<1> HIDE DEF N, keys, s, t, u
<1>4. s \in [1..N -> Steps] /\ t \in [1..N -> Steps]
      BY <1>1, <1>2, <1>3
<1>5. s \in Seq(Steps) /\ Len(s) = N /\ t \in Seq(Steps) /\ Len(t) = N
      BY <1>1, <1>4
<1>6. /\ u \in Seq(Steps) /\ Len(u) = N + N
      /\ \A n \in 1..(N + N) : u[n] = IF n <= N THEN s[n] ELSE t[n - N]
  <2>1. /\ s \o t \in Seq(Steps) /\ Len(s \o t) = Len(s) + Len(t)
        /\ \A n \in 1..(Len(s) + Len(t)) : (s \o t)[n] = IF n <= Len(s) THEN s[n] ELSE t[n - Len(s)]
        BY <1>5, ConcatProperties
  <2> QED BY <1>5, <2>1 DEF u
<1>7. ASSUME NEW n \in 1..N
      PROVE  /\ n \in 1..(N + N) /\ N + n \in 1..(N + N) /\ keys[n] \in Keys
             /\ u[n] = Step("restore", keys[n]) /\ u[N + n] = Step("restored", keys[n])
  <2>1. n \in 1..(N + N) /\ n <= N /\ N + n \in 1..(N + N) /\ ~(N + n <= N) /\ N + n - N = n
        BY <1>1
  <2>2. u[n] = s[n] /\ u[N + n] = t[N + n - N]
        BY <1>1, <1>6, <2>1
  <2> QED BY <1>1, <1>2, <2>1, <2>2
<1>8. ASSUME NEW n \in 1..(N + N) PROVE n \in 1..N \/ \E i \in 1..N : n = N + i
  <2>1. CASE n <= N
        BY <1>1, <2>1
  <2>2. CASE ~(n <= N)
    <3>1. n - N \in 1..N /\ n = N + (n - N)
          BY <1>1, <2>2
    <3> QED BY <3>1
  <2> QED BY <2>1, <2>2
<1>9. ASSUME NEW n \in 1..(N + N)
      PROVE  /\ u[n].do \in {"restore", "restored"} /\ u[n].key \in Keys
             /\ u[n].do = "restore" => \E m \in (n + 1)..(N + N) : u[m] = Step("restored", u[n].key)
             /\ u[n].do = "restored" => \E m \in 1..(n - 1) : u[m] = Step("restore", u[n].key)
  <2>1. CASE n \in 1..N
    <3>1. u[n].do = "restore" /\ u[n].key = keys[n] /\ keys[n] \in Keys
          BY <1>3, <1>7, <2>1
    <3>2. N + n \in (n + 1)..(N + N) /\ u[N + n] = Step("restored", keys[n])
          BY <1>1, <1>7, <2>1
    <3> QED BY <3>1, <3>2
  <2>2. ASSUME NEW i \in 1..N, n = N + i
        PROVE  /\ u[n].do = "restored" /\ u[n].key \in Keys
               /\ \E m \in 1..(n - 1) : u[m] = Step("restore", u[n].key)
    <3>1. u[n].do = "restored" /\ u[n].key = keys[i] /\ keys[i] \in Keys
          BY <1>3, <1>7, <2>2
    <3>2. i \in 1..(n - 1) /\ u[i] = Step("restore", keys[i])
          BY <1>1, <1>7, <2>2
    <3> QED BY <3>1, <3>2
  <2> QED BY <1>8, <2>1, <2>2
<1>10. ASSUME NEW k \in Keys PROVE \E n \in 1..(N + N) : u[n] = Step("restored", k)
  <2>1. PICK n \in 1..N : keys[n] = k
        BY <1>1
  <2> QED BY <1>7, <2>1
<1>11. Plan(u, "restore", "restored", Keys)
       BY <1>6, <1>9, <1>10 DEF Plan, FramesAreChecked, ChecksHaveFrames, Has
<1> QED BY <1>11 DEF u, s, t

\* The plan of an unpair clears and then checks the keys of every pair it names.
LEMMA UnpairPlanIs ==
  ASSUME board \in Boards, Coherent(board), cmd.keys \in Seq(Keys), ToSet(cmd.keys) \subseteq Flagged(board)
  PROVE  Plan(UnpairPlan[Len(cmd.keys)], "clear", "cleared",
              UNION {Setting(board.row[k]).keys : k \in ToSet(cmd.keys)})
<1> DEFINE N == Len(cmd.keys)
           pair(i) == CHOOSE p \in PairingOf(board, cmd.keys[i]) : TRUE
           seen(n) == \E i \in 1..(n - 1) : pair(i) = pair(n)
           F == [x \in (1..N) \X Seq(Steps) |->
                   IF seen(x[1]) THEN x[2] ELSE x[2] \o UnpairSteps(pair(x[1]))]
           gone(n) == UNION {Setting(board.row[cmd.keys[i]]).keys : i \in 1..n}
<1>1. /\ N \in Nat /\ DOMAIN cmd.keys = 1..N
      /\ \A i \in 1..N : cmd.keys[i] \in Flagged(board)
      BY LenProperties DEF ToSet
<1>2. ASSUME NEW i \in 1..N
      PROVE  /\ pair(i) = Setting(board.row[cmd.keys[i]])
             /\ Plan(UnpairSteps(pair(i)), "clear", "cleared", pair(i).keys)
  <2>1. cmd.keys[i] \in Flagged(board) /\ cmd.keys[i] \in Keys
        BY <1>1 DEF Flagged
  <2>2. PairingOf(board, cmd.keys[i]) = {Setting(board.row[cmd.keys[i]])}
        BY <2>1, OnePairing
  <2>3. pair(i) = Setting(board.row[cmd.keys[i]])
        BY <2>2
  <2> HIDE DEF pair
  <2>4. \E a, c \in Keys : a # c /\ pair(i).keys = {a, c}
    <3> DEFINE k == cmd.keys[i]
    <3>1. k \in Keys /\ board.row[k][2] \in Keys /\ board.row[k][2] # k
          BY <2>1, CoherentRows
    <3>2. Setting(board.row[k]).keys = {k, board.row[k][2]}
          BY <2>1, CoherentRows
    <3> QED BY <2>3, <3>1, <3>2
  <2> QED BY <2>3, <2>4, UnpairStepsPlan
<1>3. F \in [(1..N) \X Seq(Steps) -> Seq(Steps)]
  <2>1. ASSUME NEW x \in (1..N) \X Seq(Steps)
        PROVE  x[2] \o UnpairSteps(pair(x[1])) \in Seq(Steps) /\ x[2] \in Seq(Steps)
    <3>1. x[1] \in 1..N /\ x[2] \in Seq(Steps)
          OBVIOUS
    <3>2. UnpairSteps(pair(x[1])) \in Seq(Steps)
          BY <1>2, <3>1 DEF Plan
    <3> QED BY <3>1, <3>2, ConcatProperties
  <2> HIDE DEF pair, seen
  <2> QED BY <2>1
<1> HIDE DEF pair, seen
<1>4. PICK f \in [0..N -> Seq(Steps)] : f[0] = <<>> /\ \A i \in 1..N : f[i] = F[<<i, f[i - 1]>>]
  <2>1. <<>> \in Seq(Steps)
        BY EmptySeq
  <2> DEFINE X == Seq(Steps)
             b == <<>>
  <2>2. N \in Nat /\ b \in X /\ F \in [(1..N) \X X -> X]
        BY <1>1, <1>3, <2>1
  <2> HIDE DEF F, N, X, b
  <2>3. \E h : IsRecursion(h, N, X, b, F)
        BY <2>2, RecursionExists
  <2> QED BY <2>3 DEF IsRecursion, X, b
<1>5. ASSUME NEW n \in 0..N
      PROVE  f[n] = IF n = 0 THEN <<>>
                    ELSE IF seen(n) THEN f[n - 1] ELSE f[n - 1] \o UnpairSteps(pair(n))
  <2>1. CASE n = 0
        BY <1>4, <2>1
  <2>2. CASE n # 0
    <3>1. n \in 1..N /\ n - 1 \in 0..N
          BY <1>1, <2>2
    <3>2. <<n, f[n - 1]>> \in (1..N) \X Seq(Steps)
          BY <1>4, <3>1
    <3>3. F[<<n, f[n - 1]>>] = IF seen(n) THEN f[n - 1] ELSE f[n - 1] \o UnpairSteps(pair(n))
          BY <3>2
    <3> QED BY <1>4, <2>2, <3>1, <3>3
  <2> QED BY <2>1, <2>2
<1>6. f = [n \in 0..N |-> IF n = 0 THEN <<>>
                          ELSE IF seen(n) THEN f[n - 1] ELSE f[n - 1] \o UnpairSteps(pair(n))]
      BY <1>4, <1>5
<1> DEFINE g == UnpairPlan
<1>7. g = [n \in 0..N |-> IF n = 0 THEN <<>>
                          ELSE IF seen(n) THEN g[n - 1] ELSE g[n - 1] \o UnpairSteps(pair(n))]
      BY <1>6, ZenonT(60) DEF UnpairPlan, pair, seen
<1> HIDE DEF g, F, N, gone
<1> DEFINE holds(n) == Plan(g[n], "clear", "cleared", gone(n))
           T == {n \in 0..N : ~holds(n)}
<1>8. ASSUME T # {} PROVE FALSE
  <2>1. PICK m \in T : \A k \in T : m <= k
    <3>1. T \subseteq Nat
          BY <1>1
    <3> HIDE DEF T
    <3> QED BY <1>8, <3>1, Least
  <2>2. m \in 0..N /\ ~holds(m)
        OBVIOUS
  <2>3. CASE m = 0
    <3>1. g[m] = <<>> /\ gone(m) = {}
          BY <1>1, <1>7, <2>2, <2>3 DEF gone
    <3> QED BY <2>2, <3>1, NoPlan
  <2>4. CASE m # 0
    <3>1. m \in 1..N /\ m - 1 \in 0..N /\ m - 1 \notin T
          BY <1>1, <2>1, <2>2, <2>4
    <3>2. holds(m - 1)
          BY <3>1
    <3>3. gone(m) = gone(m - 1) \cup pair(m).keys
      <4>1. \A i : i \in 1..m <=> i \in 1..(m - 1) \/ i = m
            BY <1>1, <3>1
      <4>2. pair(m).keys = Setting(board.row[cmd.keys[m]]).keys
            BY <1>2, <3>1
      <4> QED BY <4>1, <4>2 DEF gone
    <3>4. CASE seen(m)
      <4>1. g[m] = g[m - 1]
            BY <1>7, <2>2, <2>4, <3>4
      <4>2. PICK i \in 1..(m - 1) : pair(i) = pair(m)
            BY <3>4 DEF seen
      <4>3. i \in 1..N
            BY <1>1, <3>1, <4>2
      <4>4. pair(m).keys \subseteq gone(m - 1)
            BY <1>2, <4>2, <4>3 DEF gone
      <4>5. gone(m) = gone(m - 1)
            BY <3>3, <4>4
      <4> QED BY <2>2, <3>2, <4>1, <4>5
    <3>5. CASE ~seen(m)
      <4>1. g[m] = g[m - 1] \o UnpairSteps(pair(m))
            BY <1>7, <2>2, <2>4, <3>5
      <4>2. Plan(UnpairSteps(pair(m)), "clear", "cleared", pair(m).keys)
            BY <1>2, <3>1
      <4> QED BY <2>2, <3>2, <3>3, <4>1, <4>2, PlansJoin
    <3> QED BY <3>4, <3>5
  <2> QED BY <2>3, <2>4
<1>9. holds(N)
      BY <1>1, <1>8
<1>10. gone(N) = UNION {Setting(board.row[k]).keys : k \in ToSet(cmd.keys)}
       BY <1>1 DEF gone, ToSet
<1> QED BY <1>9, <1>10 DEF g, N

-----------------------------------------------------------------------------
(* The invariant.                                                          *)

LEMMA InitialSocd == Init => SInv
<1> SUFFICES ASSUME Init PROVE SInv
    OBVIOUS
<1>1. board \in Boards /\ start = board /\ backups = <<>> /\ cmd = None /\ pc = "idle" /\ steps = <<>>
      /\ outcome = "none" /\ obeyed = TRUE /\ calm = Coherent(board)
      BY SocdAssumption DEF Init
<1>2. calm \in BOOLEAN
      BY <1>1 DEF Coherent
<1>3. TypeOK
      BY <1>1, <1>2 DEF TypeOK
<1> QED BY <1>1, <1>3 DEF SInv, OutcomeLast, Working, AcceptedAtStart, PairOnItsWay, UnpairOnItsWay,
                         RestoreOnItsWay, CalmIsCoherent

LEMMA NotWorking ==
  ASSUME ~Working'
  PROVE  AcceptedAtStart' /\ PairOnItsWay' /\ UnpairOnItsWay' /\ RestoreOnItsWay'
BY DEF AcceptedAtStart, PairOnItsWay, UnpairOnItsWay, RestoreOnItsWay

LEMMA BeginSocd == ASSUME SInv, NEW c \in SocdCommands, Begin(c) PROVE SInv'
<1>1. /\ pc = "idle" /\ cmd' = c /\ pc' = "read" /\ steps' = <<>> /\ outcome' = "none"
      /\ start' = board /\ obeyed' = TRUE /\ calm' = (calm /\ c.op # "restore")
      /\ UNCHANGED <<board, backups>>
      BY DEF Begin
<1>2. TypeOK'
      BY <1>1 DEF SInv, TypeOK
<1>3. ~Working'
      BY <1>1 DEF Working
<1>4. OutcomeLast'
      BY <1>1, <1>3 DEF OutcomeLast
<1>5. CalmIsCoherent'
      BY <1>1 DEF SInv, CalmIsCoherent
<1> QED BY <1>2, <1>3, <1>4, <1>5, NotWorking DEF SInv

\* A command that ends without the word "verified", its board as it was.
LEMMA EndsWithout ==
  ASSUME SInv, pc # "idle", pc' = "idle", UNCHANGED <<cmd, start>>, board' \in Boards, obeyed' \in BOOLEAN,
         steps' \in Seq(Steps), UNCHANGED backups,
         outcome' \in {"inconsistent", "listed", "refused", "dry", "failed", "mismatch"},
         outcome' = "listed" => Coherent(board'),
         calm' \in BOOLEAN, calm' => calm /\ Coherent(board') /\ outcome' \notin {"inconsistent", "mismatch"}
  PROVE  SInv'
<1>1. TypeOK'
      BY DEF SInv, TypeOK
<1>2. ~Working'
      BY DEF Working
<1>4. OutcomeLast'
      BY <1>2 DEF OutcomeLast
<1>5. CalmIsCoherent'
      BY DEF SInv, CalmIsCoherent
<1> QED BY <1>1, <1>2, <1>4, <1>5, NotWorking DEF SInv

LEMMA PairPlanParts ==
  ASSUME cmd.a \in Keys, cmd.b \in Keys
  PROVE  /\ PairPlan \in Seq(Steps) /\ Tail(PairPlan) \in Seq(Steps) /\ Tail(Tail(PairPlan)) \in Seq(Steps)
         /\ PairPlan # <<>> /\ Tail(PairPlan) # <<>> /\ Tail(Tail(PairPlan)) # <<>>
         /\ PairPlan # Tail(PairPlan) /\ PairPlan # Tail(Tail(PairPlan)) /\ Tail(PairPlan) # Tail(Tail(PairPlan))
         /\ Head(PairPlan) = Step("pair", cmd.a) /\ Head(Tail(PairPlan)) = Step("paired", cmd.a)
         /\ Head(Tail(Tail(PairPlan))) = Step("paired", cmd.b) /\ Tail(Tail(Tail(PairPlan))) = <<>>
<1> DEFINE x == Step("pair", cmd.a)
           y == Step("paired", cmd.a)
           z == Step("paired", cmd.b)
<1>1. x \in Steps /\ y \in Steps /\ z \in Steps
      BY DEF Step, Steps
<1>2. PairPlan = <<x, y, z>>
      BY DEF PairPlan
<1> HIDE DEF x, y, z
<1>3. Tail(PairPlan) = <<y, z>> /\ Head(PairPlan) = x
      BY <1>2
<1>4. Tail(Tail(PairPlan)) = <<z>> /\ Head(Tail(PairPlan)) = y
  <2>1. Tail(<<y, z>>) = <<z>> /\ Head(<<y, z>>) = y
        OBVIOUS
  <2> QED BY <1>3, <2>1
<1>5. Tail(Tail(Tail(PairPlan))) = <<>> /\ Head(Tail(Tail(PairPlan))) = z
  <2>1. Tail(<<z>>) = <<>> /\ Head(<<z>>) = z
        OBVIOUS
  <2> QED BY <1>4, <2>1
<1>6. PairPlan # <<>> /\ Tail(PairPlan) # <<>> /\ Tail(Tail(PairPlan)) # <<>>
  <2>1. <<x, y, z>> # <<>> /\ <<y, z>> # <<>> /\ <<z>> # <<>>
        OBVIOUS
  <2> QED BY <1>2, <1>3, <1>4, <2>1
<1>7. PairPlan # Tail(PairPlan) /\ PairPlan # Tail(Tail(PairPlan)) /\ Tail(PairPlan) # Tail(Tail(PairPlan))
  <2>1. <<x, y, z>> # <<y, z>> /\ <<x, y, z>> # <<z>> /\ <<y, z>> # <<z>>
        OBVIOUS
  <2> QED BY <1>2, <1>3, <1>4, <2>1
<1>8. PairPlan \in Seq(Steps) /\ Tail(PairPlan) \in Seq(Steps) /\ Tail(Tail(PairPlan)) \in Seq(Steps)
      BY <1>1, <1>2, <1>3, <1>4
<1> QED BY <1>3, <1>4, <1>5, <1>6, <1>7, <1>8 DEF x, y, z

LEMMA ReadSocdSocd == ASSUME SInv, ReadSocd PROVE SInv'
<1>1. /\ pc = "read" /\ cmd.op # "restore" /\ outcome = "none" /\ board = start
      /\ UNCHANGED <<board, backups, cmd, start, obeyed, commands>>
      /\ board \in Boards /\ cmd \in SocdCommands /\ WellFormedSocd(cmd) /\ steps \in Seq(Steps)
      /\ obeyed \in BOOLEAN /\ calm \in BOOLEAN
      BY SocdAssumption DEF ReadSocd, SInv, TypeOK, OutcomeLast
<1>2. calm => Coherent(board)
      BY <1>1 DEF SInv, CalmIsCoherent
<1>3. CASE pc' = "idle"
  <2>1. /\ outcome' \in {"inconsistent", "listed", "refused", "dry"} /\ steps' = steps
        /\ calm' = FALSE \/ calm' = calm
        /\ outcome' = "inconsistent" => ~Coherent(board)
        /\ outcome' = "listed" => Coherent(board)
        BY <1>3 DEF ReadSocd, EndsAs, Fails
  <2>2. pc # "idle" /\ board' \in Boards /\ obeyed' \in BOOLEAN /\ steps' \in Seq(Steps) /\ calm' \in BOOLEAN
        BY <1>1, <2>1
  <2>3. outcome' = "listed" => Coherent(board')
        BY <1>1, <2>1
  <2>4. calm' => calm /\ Coherent(board') /\ outcome' \notin {"inconsistent", "mismatch"}
        BY <1>1, <1>2, <2>1
  <2> QED BY <1>1, <1>3, <2>1, <2>2, <2>3, <2>4, EndsWithout
<1>4. CASE pc' # "idle"
  <2>1. /\ Coherent(board) /\ cmd.op # "list" /\ Accepted /\ pc' = "backup" /\ steps' = CommandSteps
        /\ outcome' = "none" /\ calm' = calm
        BY <1>1, <1>4 DEF ReadSocd, EndsAs, Fails
  <2>2. cmd.op = "pair" \/ cmd.op = "unpair"
        BY <1>1, <2>1 DEF WellFormedSocd
  <2>3. Working' /\ Coherent(start)
        BY <1>1, <2>1 DEF Working
  <2>4. CASE cmd.op = "pair"
    <3>1. cmd.a \in Keys /\ cmd.b \in Keys
          BY <1>1, <2>4, WrittenRow
    <3>2. steps' = PairPlan /\ steps' \in Seq(Steps)
          BY <2>1, <2>4, <3>1, PairPlanParts DEF CommandSteps, PairPlan
    <3>3. cmd.a \notin Flagged(board) /\ cmd.b \notin Flagged(board)
          BY <1>1, <2>1, <2>4, <3>1, AcceptedKeys DEF Accepted
    <3>4. TypeOK'
          BY <1>1, <2>1, <3>2 DEF SInv, TypeOK
    <3>5. AcceptedAtStart'
          BY <1>1, <2>1, <2>4, <3>3 DEF AcceptedAtStart
    <3>6. PairOnItsWay'
      <4>1. PairPlan' = PairPlan
            BY <1>1 DEF PairPlan
      <4> QED BY <1>1, <2>1, <3>1, <3>2, <4>1, PairPlanParts DEF PairOnItsWay
    <3>7. UnpairOnItsWay' /\ RestoreOnItsWay'
          BY <1>1, <2>4 DEF UnpairOnItsWay, RestoreOnItsWay
    <3>8. OutcomeLast' /\ CalmIsCoherent'
          BY <1>1, <1>2, <2>1, <2>4 DEF OutcomeLast, CalmIsCoherent
    <3> QED BY <3>4, <3>5, <3>6, <3>7, <3>8 DEF SInv
  <2>5. CASE cmd.op = "unpair"
    <3>1. cmd.keys \in Seq(Keys) /\ ToSet(cmd.keys) \subseteq Keys
      <4>1. cmd.keys \in Seq(Keys)
            BY <1>1, <2>5 DEF WellFormedSocd
      <4> QED BY <4>1, LenProperties DEF ToSet
    <3>2. ToSet(cmd.keys) \subseteq Flagged(board)
          BY <1>1, <2>1, <2>5, <3>1, AcceptedKeys DEF Accepted
    <3>3. Plan(steps', "clear", "cleared", Gone)
      <4>1. steps' = UnpairPlan[Len(cmd.keys)]
            BY <2>1, <2>5 DEF CommandSteps
      <4>2. Gone = UNION {Setting(board.row[k]).keys : k \in ToSet(cmd.keys)}
            BY <1>1 DEF Gone
      <4> QED BY <1>1, <2>1, <3>1, <3>2, <4>1, <4>2, UnpairPlanIs
    <3>4. TypeOK'
          BY <1>1, <2>1, <3>3 DEF SInv, TypeOK, Plan
    <3>5. AcceptedAtStart'
          BY <1>1, <2>1, <2>5, <3>2 DEF AcceptedAtStart
    <3>6. UnpairOnItsWay'
      <4>1. Gone' = Gone
            BY <1>1 DEF Gone, Setting
      <4>2. FramesAreChecked(steps', "clear", "cleared", Gone)
            BY <3>3 DEF Plan
      <4>3. \A k \in Gone : Has(steps', "cleared", k)
            BY <3>3 DEF Plan
      <4>4. \A n \in 1..Len(steps') : steps'[n].do = "cleared" =>
              \E m \in 1..(n - 1) : steps'[m] = Step("clear", steps'[n].key)
            BY <3>3 DEF Plan, ChecksHaveFrames
      <4> QED BY <1>1, <4>1, <4>2, <4>3, <4>4 DEF UnpairOnItsWay, FramesAreChecked, Ahead, Has
    <3>7. PairOnItsWay' /\ RestoreOnItsWay'
          BY <1>1, <2>5 DEF PairOnItsWay, RestoreOnItsWay
    <3>8. OutcomeLast' /\ CalmIsCoherent'
          BY <1>1, <1>2, <2>1, <2>5 DEF OutcomeLast, CalmIsCoherent
    <3> QED BY <3>4, <3>5, <3>6, <3>7, <3>8 DEF SInv
  <2> QED BY <2>2, <2>4, <2>5
<1> QED BY <1>3, <1>4

LEMMA ReadRestoreSocd == ASSUME SInv, ReadRestore PROVE SInv'
<1>1. /\ pc = "read" /\ cmd.op = "restore" /\ outcome = "none" /\ board = start
      /\ UNCHANGED <<board, backups, cmd, start, obeyed, calm, commands>>
      /\ board \in Boards /\ cmd \in SocdCommands /\ steps \in Seq(Steps)
      /\ obeyed \in BOOLEAN /\ calm \in BOOLEAN /\ ~calm
      BY DEF ReadRestore, SInv, TypeOK, OutcomeLast, CalmIsCoherent
<1>2. CASE pc' = "idle"
  <2>1. outcome' = "refused" /\ steps' = steps
        BY <1>2 DEF ReadRestore, EndsAs
  <2> QED BY <1>1, <1>2, <2>1, EndsWithout
<1>3. CASE pc' # "idle"
  <2>1. backups # <<>> /\ pc' = "backup" /\ outcome' = "none" /\ steps' = CommandSteps
        BY <1>1, <1>3 DEF ReadRestore, EndsAs
  <2>2. Plan(steps', "restore", "restored", Keys)
        BY <1>1, <2>1, RestorePlan DEF CommandSteps
  <2>3. TypeOK'
        BY <1>1, <2>1, <2>2 DEF SInv, TypeOK, Plan
  <2>4. RestoreOnItsWay'
        BY <1>1, <2>1, <2>2 DEF RestoreOnItsWay, Plan, Ahead, Has, FramesAreChecked
  <2>5. OutcomeLast' /\ AcceptedAtStart' /\ PairOnItsWay' /\ UnpairOnItsWay' /\ CalmIsCoherent'
        BY <1>1, <2>1 DEF OutcomeLast, AcceptedAtStart, PairOnItsWay, UnpairOnItsWay, CalmIsCoherent
  <2> QED BY <2>3, <2>4, <2>5 DEF SInv
<1> QED BY <1>2, <1>3

LEMMA SaveBackupSocd == ASSUME SInv, SaveBackup PROVE SInv'
<1>1. /\ pc = "backup" /\ outcome = "none" /\ board = start /\ Working
      /\ UNCHANGED <<board, cmd, steps, start, obeyed, commands>>
      /\ board \in Boards /\ cmd \in SocdCommands /\ steps \in Seq(Steps)
      /\ backups \in Seq([mode : [Keys -> Mode], was : Boards])
      /\ obeyed \in BOOLEAN /\ calm \in BOOLEAN
      BY DEF SaveBackup, SInv, TypeOK, OutcomeLast, Working
<1>2. CASE pc' = "idle"
  <2>1. outcome' = "refused" /\ backups' = backups /\ calm' = FALSE
        BY <1>2 DEF SaveBackup, Fails, EndsAs
  <2> QED BY <1>1, <1>2, <2>1, EndsWithout
<1>3. CASE pc' # "idle"
  <2>1. backups' = Append(backups, Taken(board)) /\ pc' = "write" /\ outcome' = "none" /\ calm' = calm
        BY <1>1, <1>3 DEF SaveBackup, Fails, EndsAs
  <2>2. Taken(board) \in [mode : [Keys -> Mode], was : Boards] /\ Taken(board).mode = Taken(board).was.mode
        BY <1>1, BoardParts DEF Taken
  <2>3. /\ Len(backups) \in Nat /\ Len(backups') = Len(backups) + 1
        /\ backups' \in Seq([mode : [Keys -> Mode], was : Boards])
        /\ \A n \in 1..Len(backups) : backups'[n] = backups[n]
        /\ backups'[Len(backups) + 1] = Taken(board)
        BY <1>1, <2>1, <2>2, AppendProperties, LenProperties
  <2>4. \A n \in 1..Len(backups') : backups'[n].mode = backups'[n].was.mode
    <3>1. \A n \in 1..Len(backups') : n \in 1..Len(backups) \/ n = Len(backups) + 1
          BY <2>3
    <3> QED BY <2>2, <2>3, <3>1 DEF SInv, TypeOK
  <2>5. TypeOK'
        BY <1>1, <2>1, <2>3, <2>4 DEF SInv, TypeOK
  <2>6. Working'
        BY <2>1 DEF Working
  <2>7. OutcomeLast' /\ AcceptedAtStart' /\ CalmIsCoherent'
        BY <1>1, <2>1, <2>6 DEF SInv, OutcomeLast, AcceptedAtStart, CalmIsCoherent
  <2>8. PairOnItsWay'
        BY <1>1, <2>1 DEF SInv, PairOnItsWay, PairPlan, PairedBoard, Row
  <2>9. UnpairOnItsWay'
        BY <1>1, <2>1 DEF SInv, UnpairOnItsWay, Ahead, Gone, ClearedMode
  <2>10. RestoreOnItsWay'
    <3>1. ASSUME cmd.op = "restore"
          PROVE  backups # <<>> /\ FramesAreChecked(steps, "restore", "restored", Keys)
                 /\ \A k \in Keys : Ahead("restored", k)
          BY <1>1, <3>1 DEF SInv, RestoreOnItsWay
    <3>2. ASSUME cmd.op = "restore" PROVE Len(backups') >= 2 /\ backups' # <<>>
      <4>1. Len(backups) # 0
            BY <1>1, <3>1, <3>2, EmptySeq
      <4> QED BY <2>1, <2>2, <2>3, <1>1, <4>1, AppendProperties
    <3> QED BY <1>1, <2>1, <3>1, <3>2 DEF RestoreOnItsWay, Ahead
  <2> QED BY <2>5, <2>7, <2>8, <2>9, <2>10 DEF SInv
<1> QED BY <1>2, <1>3

\* What is left of a plan once its first step is done.
LEMMA PlanTail ==
  ASSUME NEW s \in Seq(Steps), s # <<>>
  PROVE  /\ Head(s) \in Steps /\ Head(s) = s[1] /\ Tail(s) \in Seq(Steps)
         /\ Len(s) \in Nat \ {0} /\ Len(Tail(s)) = Len(s) - 1
         /\ \A n \in 1..Len(Tail(s)) : Tail(s)[n] = s[n + 1] /\ n + 1 \in 1..Len(s)
         /\ \A what, k : Has(s, what, k) => Head(s) = Step(what, k) \/ Has(Tail(s), what, k)
<1>1. /\ Head(s) \in Steps /\ Tail(s) \in Seq(Steps) /\ Len(Tail(s)) = Len(s) - 1
      /\ \A i \in 1 .. Len(Tail(s)) : Tail(s)[i] = s[i + 1]
      BY HeadTailProperties
<1>2. Len(s) \in Nat \ {0} /\ Head(s) = s[1]
      BY EmptySeq
<1>3. \A n \in 1..Len(Tail(s)) : n + 1 \in 1..Len(s)
      BY <1>1, <1>2
<1>4. ASSUME NEW what, NEW k, Has(s, what, k)
      PROVE  Head(s) = Step(what, k) \/ Has(Tail(s), what, k)
  <2>1. PICK n \in 1..Len(s) : s[n] = Step(what, k)
        BY <1>4 DEF Has
  <2>2. CASE n = 1
        BY <1>2, <2>1, <2>2
  <2>3. CASE n # 1
    <3>1. n - 1 \in 1..Len(Tail(s)) /\ n - 1 + 1 = n
          BY <1>1, <1>2, <2>1, <2>3
    <3>2. Tail(s)[n - 1] = s[n]
          BY <1>1, <3>1
    <3> QED BY <2>1, <3>1, <3>2 DEF Has
  <2> QED BY <2>2, <2>3
<1> QED BY <1>1, <1>2, <1>3, <1>4

LEMMA FramesTail ==
  ASSUME NEW s \in Seq(Steps), s # <<>>, NEW doing, NEW done, NEW keys,
         FramesAreChecked(s, doing, done, keys)
  PROVE  /\ FramesAreChecked(Tail(s), doing, done, keys)
         /\ Head(s).do \in {doing, done} /\ Head(s).key \in keys
         /\ Head(s).do = doing => Has(Tail(s), done, Head(s).key)
<1> DEFINE t == Tail(s)
           N == Len(s)
<1>1. /\ Head(s) = s[1] /\ N \in Nat \ {0} /\ Len(t) = N - 1
      /\ \A n \in 1..Len(t) : t[n] = s[n + 1] /\ n + 1 \in 1..N
      BY PlanTail
<1>2. ASSUME NEW n \in 1..N, s[n].do = doing
      PROVE  \E m \in n..Len(t) : t[m] = Step(done, s[n].key)
  <2>1. PICK m \in (n + 1)..N : s[m] = Step(done, s[n].key)
        BY <1>2 DEF FramesAreChecked
  <2>2. m - 1 \in n..Len(t) /\ m - 1 \in 1..Len(t) /\ m - 1 + 1 = m
        BY <1>1, <2>1
  <2>3. t[m - 1] = s[m]
        BY <1>1, <2>2
  <2> QED BY <2>1, <2>2, <2>3
<1>3. 1 \in 1..N
      BY <1>1
<1>4. Head(s).do = doing => Has(t, done, Head(s).key)
      BY <1>1, <1>2, <1>3 DEF Has
<1>5. Head(s).do \in {doing, done} /\ Head(s).key \in keys
      BY <1>1, <1>3 DEF FramesAreChecked
<1>6. \A n \in 1..Len(t) : t[n].do \in {doing, done} /\ t[n].key \in keys
      BY <1>1 DEF FramesAreChecked
<1>7. ASSUME NEW n \in 1..Len(t), t[n].do = doing
      PROVE  \E m \in (n + 1)..Len(t) : t[m] = Step(done, t[n].key)
      BY <1>1, <1>2, <1>7
<1> QED BY <1>4, <1>5, <1>6, <1>7 DEF FramesAreChecked

\* The ways a frame can go.
LEMMA SendWays ==
  ASSUME SInv, SendFrame
  PROVE  /\ pc = "write" /\ outcome = "none" /\ Working /\ steps # <<>> /\ Head(steps).do \in Doing
         /\ steps' = Tail(steps) /\ steps \in Seq(Steps) /\ board \in Boards /\ start \in Boards
         /\ cmd \in SocdCommands /\ WellFormedSocd(cmd) /\ obeyed \in BOOLEAN /\ calm \in BOOLEAN
         /\ UNCHANGED <<backups, cmd, start>>
         /\ \/ pc' = "write" /\ outcome' = "none" /\ calm' = (calm /\ obeyed')
            \/ pc' = "idle" /\ outcome' = "failed" /\ calm' = FALSE
         /\ \/ board' \in AsTold(Head(steps)) /\ obeyed' = obeyed
            \/ board' \in OtherThanTold(Head(steps)) /\ obeyed' = FALSE
            \/ pc' = "idle" /\ board' = board /\ obeyed' = obeyed
<1>1. pc = "write" /\ outcome = "none" /\ Working
      BY DEF SendFrame, SInv, OutcomeLast, Working
<1>2. cmd \in SocdCommands /\ WellFormedSocd(cmd)
      BY <1>1, SocdAssumption DEF SInv, TypeOK
<1>3. /\ steps \in Seq(Steps) /\ board \in Boards /\ start \in Boards /\ obeyed \in BOOLEAN /\ calm \in BOOLEAN
      BY DEF SInv, TypeOK
<1>4. /\ steps # <<>> /\ Head(steps).do \in Doing /\ steps' = Tail(steps) /\ UNCHANGED <<backups, cmd, start>>
      /\ \/ pc' = "write" /\ outcome' = "none" /\ calm' = (calm /\ obeyed')
         \/ pc' = "idle" /\ outcome' = "failed" /\ calm' = FALSE
      /\ \/ board' \in AsTold(Head(steps)) /\ obeyed' = obeyed
         \/ board' \in OtherThanTold(Head(steps)) /\ obeyed' = FALSE
         \/ pc' = "idle" /\ board' = board /\ obeyed' = obeyed
      BY <1>1 DEF SendFrame, Fails, EndsAs
<1> QED BY <1>1, <1>2, <1>3, <1>4

\* The board of the pair asked for.
LEMMA PairedBoardParts ==
  ASSUME SInv, Working, cmd.op = "pair"
  PROVE  /\ start \in Boards /\ Coherent(start) /\ cmd \in SocdCommands
         /\ cmd.a \in Keys /\ cmd.b \in Keys /\ cmd.a # cmd.b
         /\ IsRow(cmd.a, Row) /\ Row[2] = cmd.b
         /\ Setting(Row) = [keys |-> {cmd.a, cmd.b}, wins |-> cmd.wins]
         /\ cmd.a \notin Flagged(start) /\ cmd.b \notin Flagged(start)
         /\ \A q \in {PairedBoard, [PairedBoard EXCEPT !.mode[cmd.a].touch = 0]} :
              /\ q \in Boards /\ q # start
              /\ Flagged(q) = Flagged(start) \cup {cmd.a, cmd.b}
              /\ q.row[cmd.a] = Row /\ q.row[cmd.b] = Rebased(Row)
              /\ \A k \in Keys \ {cmd.a, cmd.b} : q.row[k] = start.row[k]
              /\ Coherent(q) /\ Live(q) = Live(start) \cup {[keys |-> {cmd.a, cmd.b}, wins |-> cmd.wins]}
<1>1. /\ start \in Boards /\ Coherent(start) /\ cmd \in SocdCommands
      /\ cmd.a \notin Flagged(start) /\ cmd.b \notin Flagged(start)
      BY DEF SInv, TypeOK, AcceptedAtStart, Working, OutcomeLast
<1>2. /\ cmd.a \in Keys /\ cmd.b \in Keys /\ cmd.a # cmd.b
      /\ IsRow(cmd.a, Row) /\ Row[2] = cmd.b
      /\ Setting(Row) = [keys |-> {cmd.a, cmd.b}, wins |-> cmd.wins]
      BY <1>1, SocdAssumption, WrittenRow DEF Row
<1> DEFINE P == PairedBoard
           L == [P EXCEPT !.mode[cmd.a].touch = 0]
<1>3. /\ P \in Boards /\ Flagged(P) = Flagged(start) \cup {cmd.a, cmd.b}
      /\ P.row[cmd.a] = Row /\ P.row[cmd.b] = Rebased(Row)
      /\ \A k \in Keys \ {cmd.a, cmd.b} : P.row[k] = start.row[k]
      BY <1>1, <1>2, PairedParts DEF PairedBoard
<1>4. /\ L \in Boards /\ Flagged(L) = Flagged(P) /\ L.row = P.row
      BY <1>2, <1>3, TouchLost
<1> HIDE DEF P, L
<1>5. ASSUME NEW q \in {P, L}
      PROVE  /\ q \in Boards /\ q # start
             /\ Flagged(q) = Flagged(start) \cup {cmd.a, cmd.b}
             /\ q.row[cmd.a] = Row /\ q.row[cmd.b] = Rebased(Row)
             /\ \A k \in Keys \ {cmd.a, cmd.b} : q.row[k] = start.row[k]
             /\ Coherent(q) /\ Live(q) = Live(start) \cup {[keys |-> {cmd.a, cmd.b}, wins |-> cmd.wins]}
  <2>1. /\ q \in Boards /\ Flagged(q) = Flagged(start) \cup {cmd.a, cmd.b}
        /\ q.row[cmd.a] = Row /\ q.row[cmd.b] = Rebased(Row)
        /\ \A k \in Keys \ {cmd.a, cmd.b} : q.row[k] = start.row[k]
        BY <1>3, <1>4
  <2>2. q # start
        BY <1>1, <2>1
  <2>3. Coherent(q) /\ Live(q) = Live(start) \cup {Setting(Row)}
    <3>1. /\ Row[2] \in Keys /\ Row[2] \notin Flagged(start)
          /\ Flagged(q) = Flagged(start) \cup {cmd.a, Row[2]} /\ q.row[Row[2]] = Rebased(Row)
          /\ \A k \in Keys \ {cmd.a, Row[2]} : q.row[k] = start.row[k]
          BY <1>1, <1>2, <2>1
    <3> DEFINE a == cmd.a
               row == Row
    <3>2. /\ start \in Boards /\ Coherent(start) /\ q \in Boards /\ a \in Keys /\ IsRow(a, row)
          /\ row[2] \in Keys /\ a \notin Flagged(start) /\ row[2] \notin Flagged(start)
          /\ Flagged(q) = Flagged(start) \cup {a, row[2]} /\ q.row[a] = row /\ q.row[row[2]] = Rebased(row)
          /\ \A k \in Keys \ {a, row[2]} : q.row[k] = start.row[k]
          BY <1>1, <1>2, <2>1, <3>1
    <3> HIDE DEF a, row
    <3>3. Coherent(q) /\ Live(q) = Live(start) \cup {Setting(row)}
          BY <3>2, PairAdds
    <3> QED BY <3>3 DEF row
  <2> QED BY <1>2, <2>1, <2>2, <2>3
<1> QED BY <1>1, <1>2, <1>5 DEF P, L

LEMMA PairSent ==
  ASSUME SInv, SendFrame, cmd.op = "pair"
  PROVE  /\ board = start /\ steps' = Tail(PairPlan) /\ steps = PairPlan
         /\ board' \in {start, PairedBoard, [PairedBoard EXCEPT !.mode[cmd.a].touch = 0]}
         /\ obeyed' => board' \in {start, PairedBoard}
         /\ pc' = "write" /\ obeyed' => board' = PairedBoard
<1>1. cmd.a \in Keys /\ cmd.b \in Keys /\ Working
      BY SendWays, PairedBoardParts
<1>2. steps = PairPlan /\ Head(steps) = Step("pair", cmd.a) /\ board = start
  <2>1. /\ steps \in {PairPlan, Tail(PairPlan), Tail(Tail(PairPlan)), <<>>}
        /\ steps = PairPlan => board = start
        BY <1>1 DEF SInv, PairOnItsWay
  <2>2. steps # <<>> /\ Head(steps).do \in {"pair", "clear", "restore"}
        BY SendWays DEF Doing
  <2>3. Step("paired", cmd.a).do = "paired" /\ Step("paired", cmd.b).do = "paired"
        BY DEF Step
  <2> QED BY <1>1, <2>1, <2>2, <2>3, PairPlanParts
<1>3. AsTold(Head(steps)) = {PairedBoard}
      BY <1>2 DEF AsTold, Step, PairedBoard, Row
<1>4. OtherThanTold(Head(steps)) = {start, [PairedBoard EXCEPT !.mode[cmd.a].touch = 0]}
  <2>1. Head(steps).key = cmd.a
        BY <1>2 DEF Step
  <2> QED BY <1>2, <1>3, <2>1 DEF OtherThanTold
<1> QED BY <1>2, <1>3, <1>4, SendWays

LEMMA SendPairSocd == ASSUME SInv, SendFrame, cmd.op = "pair" PROVE SInv'
<1>1. cmd.a \in Keys /\ cmd.b \in Keys /\ Working
      BY SendWays, PairedBoardParts
<1>2. board' \in Boards
      BY <1>1, PairSent, PairedBoardParts
<1>3. steps' \in Seq(Steps)
      BY <1>1, PairSent, PairPlanParts
<1>4. CASE pc' = "idle"
  <2>1. pc # "idle" /\ outcome' = "failed" /\ calm' = FALSE /\ UNCHANGED <<cmd, start, backups>>
        /\ obeyed' \in BOOLEAN
        BY <1>4, SendWays
  <2> QED BY <1>2, <1>3, <1>4, <2>1, EndsWithout
<1>5. CASE pc' = "write"
  <2>1. /\ outcome' = "none" /\ calm' = (calm /\ obeyed') /\ UNCHANGED <<cmd, start, backups>>
        /\ obeyed' \in BOOLEAN /\ calm' \in BOOLEAN /\ Working'
        BY <1>5, SendWays DEF Working
  <2>2. TypeOK'
        BY <1>2, <1>3, <1>5, <2>1, SendWays DEF SInv, TypeOK
  <2>3. PairOnItsWay'
    <3>1. PairPlan' = PairPlan /\ PairedBoard' = PairedBoard
          BY <2>1 DEF PairPlan, PairedBoard, Row
    <3>2. steps' = Tail(PairPlan) /\ Tail(PairPlan) \notin {PairPlan, Tail(Tail(PairPlan)), <<>>}
          BY <1>1, PairSent, PairPlanParts
    <3> QED BY <1>5, <2>1, <3>1, <3>2, PairSent DEF PairOnItsWay
  <2>4. OutcomeLast' /\ AcceptedAtStart' /\ UnpairOnItsWay' /\ RestoreOnItsWay' /\ CalmIsCoherent'
        BY <1>1, <1>5, <2>1, SendWays
        DEF SInv, OutcomeLast, AcceptedAtStart, UnpairOnItsWay, RestoreOnItsWay, CalmIsCoherent
  <2> QED BY <2>2, <2>3, <2>4 DEF SInv
<1> QED BY <1>4, <1>5, SendWays

\* The ways a check can go.
LEMMA CheckWays ==
  ASSUME SInv, Check
  PROVE  /\ pc = "write" /\ outcome = "none" /\ Working /\ steps # <<>> /\ Head(steps).do \notin Doing
         /\ steps' = Tail(steps) /\ steps \in Seq(Steps) /\ steps' \in Seq(Steps)
         /\ board \in Boards /\ start \in Boards /\ cmd \in SocdCommands
         /\ obeyed \in BOOLEAN /\ calm \in BOOLEAN /\ UNCHANGED <<backups, cmd, start, board, obeyed>>
         /\ \/ Confirmed(Head(steps)) /\ pc' = "write" /\ outcome' = "none" /\ calm' = calm
            \/ ~Confirmed(Head(steps)) /\ pc' = "idle" /\ outcome' = "mismatch" /\ calm' = calm
            \/ pc' = "idle" /\ outcome' = "failed" /\ calm' = FALSE
<1>1. pc = "write" /\ outcome = "none" /\ Working
      BY DEF Check, SInv, OutcomeLast, Working
<1>2. /\ steps \in Seq(Steps) /\ board \in Boards /\ start \in Boards /\ cmd \in SocdCommands
      /\ obeyed \in BOOLEAN /\ calm \in BOOLEAN
      BY <1>1 DEF SInv, TypeOK
<1>3. steps # <<>> /\ Head(steps).do \notin Doing /\ steps' = Tail(steps)
      /\ UNCHANGED <<backups, cmd, start, board, obeyed>>
      BY DEF Check
<1>4. Tail(steps) \in Seq(Steps)
      BY <1>2, <1>3, PlanTail
<1>5. \/ Confirmed(Head(steps)) /\ pc' = "write" /\ outcome' = "none" /\ calm' = calm
      \/ ~Confirmed(Head(steps)) /\ pc' = "idle" /\ outcome' = "mismatch" /\ calm' = calm
      \/ pc' = "idle" /\ outcome' = "failed" /\ calm' = FALSE
      BY <1>1 DEF Check, Fails, EndsAs
<1> QED BY <1>1, <1>2, <1>3, <1>4, <1>5

\* It is enough that a check that passes leaves the command on its way, and that
\* none disagrees as long as all is calm.
LEMMA CheckSocd ==
  ASSUME SInv, Check, calm => Confirmed(Head(steps)),
         Confirmed(Head(steps)) /\ pc' = "write" => PairOnItsWay' /\ UnpairOnItsWay' /\ RestoreOnItsWay'
  PROVE  SInv'
<1>1. CASE pc' = "idle"
  <2>1. pc # "idle" /\ outcome' \in {"mismatch", "failed"} /\ calm' \in BOOLEAN /\ ~calm'
    <3>1. CASE ~Confirmed(Head(steps)) /\ pc' = "idle" /\ outcome' = "mismatch" /\ calm' = calm
          BY <3>1, CheckWays
    <3>2. CASE pc' = "idle" /\ outcome' = "failed" /\ calm' = FALSE
          BY <3>2, CheckWays
    <3> QED BY <1>1, <3>1, <3>2, CheckWays
  <2>2. board' \in Boards /\ obeyed' \in BOOLEAN
        BY CheckWays
  <2> QED BY <1>1, <2>1, <2>2, CheckWays, EndsWithout
<1>2. CASE pc' = "write"
  <2>1. outcome' = "none" /\ calm' = calm /\ Confirmed(Head(steps)) /\ Working'
        BY <1>2, CheckWays DEF Working
  <2>2. TypeOK'
        BY <1>2, <2>1, CheckWays DEF SInv, TypeOK
  <2>3. OutcomeLast' /\ AcceptedAtStart' /\ CalmIsCoherent'
        BY <1>2, <2>1, CheckWays DEF SInv, OutcomeLast, AcceptedAtStart, CalmIsCoherent
  <2> QED BY <1>2, <2>1, <2>2, <2>3 DEF SInv
<1> QED BY <1>1, <1>2, CheckWays

LEMMA CheckPairSocd == ASSUME SInv, Check, cmd.op = "pair" PROVE SInv'
<1>1. cmd.a \in Keys /\ cmd.b \in Keys /\ Working
      BY CheckWays, PairedBoardParts
<1>2. \/ steps = Tail(PairPlan) /\ Head(steps) = Step("paired", cmd.a)
      \/ steps = Tail(Tail(PairPlan)) /\ Head(steps) = Step("paired", cmd.b)
  <2>1. steps \in {PairPlan, Tail(PairPlan), Tail(Tail(PairPlan)), <<>>}
        BY <1>1 DEF SInv, PairOnItsWay
  <2>2. steps # <<>> /\ Head(steps).do \notin {"pair", "clear", "restore"}
        BY CheckWays DEF Doing
  <2>3. Step("pair", cmd.a).do = "pair"
        BY DEF Step
  <2> QED BY <1>1, <2>1, <2>2, <2>3, PairPlanParts
<1>3. calm => board = PairedBoard
      BY <1>1, <1>2, PairPlanParts DEF SInv, PairOnItsWay
<1>4. ASSUME board = PairedBoard PROVE Confirmed(Head(steps))
  <2> DEFINE k == Head(steps).key
  <2>1. Head(steps).do = "paired" /\ (k = cmd.a \/ k = cmd.b)
        BY <1>2 DEF Step
  <2>2. /\ k \in Flagged(board) /\ (board.row[k] = Row \/ board.row[k] = Rebased(Row))
        BY <1>1, <1>4, <2>1, PairedBoardParts
  <2>3. Row # NoRow /\ Rebased(Row) # NoRow /\ Setting(Rebased(Row)) = Setting(Row)
    <3>1. IsRow(cmd.a, Row) /\ Row[2] \in Keys /\ cmd.a \in Keys
          BY <1>1, PairedBoardParts
    <3> QED BY <3>1, RowParts, RebasedRow
  <2>4. board.mode[k].advanced = ADVANCED_SOCD
        BY <2>2 DEF Flagged
  <2> HIDE DEF k
  <2> QED BY <2>1, <2>2, <2>3, <2>4 DEF Confirmed, Row, k
<1>5. ASSUME Confirmed(Head(steps)), steps = Tail(PairPlan) PROVE board # start
  <2>1. Head(steps).do = "paired" /\ Head(steps).key = cmd.a
    <3>1. Head(steps) = Step("paired", cmd.a)
          BY <1>1, <1>5, PairPlanParts
    <3> QED BY <3>1 DEF Step
  <2>2. board.mode[cmd.a].advanced = ADVANCED_SOCD
        BY <1>5, <2>1 DEF Confirmed
  <2> QED BY <1>1, <2>2, PairedBoardParts DEF Flagged
<1>6. ASSUME Confirmed(Head(steps)), pc' = "write" PROVE PairOnItsWay'
  <2>1. PairPlan' = PairPlan /\ PairedBoard' = PairedBoard /\ calm' = calm
        BY <1>6, CheckWays DEF PairPlan, PairedBoard, Row
  <2>2. steps' \in {Tail(Tail(PairPlan)), <<>>} /\ board # start
    <3>1. CASE steps = Tail(PairPlan)
          BY <1>5, <1>6, <3>1, CheckWays
    <3>2. CASE steps = Tail(Tail(PairPlan))
          BY <1>1, <3>2, CheckWays, PairPlanParts DEF SInv, PairOnItsWay
    <3> QED BY <1>2, <3>1, <3>2
  <2>3. steps' # PairPlan
        BY <1>1, <2>2, PairPlanParts
  <2>4. /\ board \in {start, PairedBoard, [PairedBoard EXCEPT !.mode[cmd.a].touch = 0]}
        /\ obeyed => board \in {start, PairedBoard}
        BY <1>1 DEF SInv, PairOnItsWay
  <2> QED BY <1>3, <2>1, <2>2, <2>3, <2>4, CheckWays DEF PairOnItsWay
<1>7. UnpairOnItsWay' /\ RestoreOnItsWay'
      BY CheckWays DEF UnpairOnItsWay, RestoreOnItsWay
<1> QED BY <1>3, <1>4, <1>6, <1>7, CheckSocd

-----------------------------------------------------------------------------
(* Unpairing.                                                              *)

\* The keys that go are those of the pairs named, and go by pairs.
LEMMA GoneParts ==
  ASSUME start \in Boards, Coherent(start), ToSet(cmd.keys) \subseteq Flagged(start)
  PROVE  /\ Gone \subseteq Flagged(start) /\ Gone \subseteq Keys
         /\ \A k \in Flagged(start) : /\ k \in Gone <=> start.row[k][2] \in Gone
                                      /\ k \in Gone <=> Setting(start.row[k]).keys \cap ToSet(cmd.keys) # {}
<1>1. ASSUME NEW k \in Gone
      PROVE  k \in Flagged(start) /\ Setting(start.row[k]).keys \cap ToSet(cmd.keys) # {}
  <2>1. PICK n \in ToSet(cmd.keys) : k \in Setting(start.row[n]).keys
        BY DEF Gone
  <2>2. n \in Flagged(start)
        BY <2>1
  <2>3. /\ Setting(start.row[n]).keys = {n, start.row[n][2]} /\ start.row[n][2] \in Flagged(start)
        /\ Setting(start.row[start.row[n][2]]) = Setting(start.row[n])
        BY <2>2, CoherentRows
  <2>4. Setting(start.row[k]) = Setting(start.row[n]) /\ k \in Flagged(start)
        BY <2>1, <2>2, <2>3
  <2> QED BY <2>1, <2>3, <2>4
<1>2. ASSUME NEW k \in Flagged(start), Setting(start.row[k]).keys \cap ToSet(cmd.keys) # {}
      PROVE  k \in Gone
  <2>1. PICK n \in ToSet(cmd.keys) : n \in Setting(start.row[k]).keys
        BY <1>2
  <2>2. /\ Setting(start.row[k]).keys = {k, start.row[k][2]}
        /\ Setting(start.row[start.row[k][2]]) = Setting(start.row[k])
        BY CoherentRows
  <2>3. Setting(start.row[n]) = Setting(start.row[k])
        BY <2>1, <2>2
  <2> QED BY <2>1, <2>2, <2>3 DEF Gone
<1>3. ASSUME NEW k \in Flagged(start) PROVE k \in Gone <=> start.row[k][2] \in Gone
  <2>1. /\ start.row[k][2] \in Flagged(start)
        /\ Setting(start.row[start.row[k][2]]) = Setting(start.row[k])
        BY CoherentRows
  <2> QED BY <1>1, <1>2, <2>1
<1> QED BY <1>1, <1>2, <1>3 DEF Flagged

LEMMA UnpairParts ==
  ASSUME SInv, Working, cmd.op = "unpair"
  PROVE  /\ start \in Boards /\ Coherent(start) /\ cmd \in SocdCommands
         /\ Gone \subseteq Flagged(start) /\ Gone \subseteq Keys
         /\ \A k \in Flagged(start) : /\ k \in Gone <=> start.row[k][2] \in Gone
                                      /\ k \in Gone <=> Setting(start.row[k]).keys \cap ToSet(cmd.keys) # {}
         /\ \A k \in Keys : /\ ClearedMode(k) \in Mode /\ ClearedMode(k).advanced = 0
                            /\ ClearedMode(k).touch = start.mode[k].touch
<1>1. start \in Boards /\ Coherent(start) /\ ToSet(cmd.keys) \subseteq Flagged(start) /\ cmd \in SocdCommands
      BY DEF SInv, TypeOK, AcceptedAtStart, Working, OutcomeLast
<1>2. ASSUME NEW k \in Keys
      PROVE  /\ ClearedMode(k) \in Mode /\ ClearedMode(k).advanced = 0
             /\ ClearedMode(k).touch = start.mode[k].touch
  <2>1. start.mode[k] \in Mode
        BY <1>1, BoardParts
  <2> QED BY <2>1 DEF ClearedMode, Mode
<1> QED BY <1>1, <1>2, GoneParts

LEMMA UnpairSent ==
  ASSUME SInv, SendFrame, cmd.op = "unpair"
  PROVE  LET k == Head(steps).key
         IN  /\ k \in Gone /\ k \in Keys /\ Head(steps) = Step("clear", k) /\ Has(steps', "cleared", k)
             /\ board' \in Boards
             /\ \A j \in Keys \ {k} : board'.mode[j] = board.mode[j] /\ board'.row[j] = board.row[j]
             /\ \/ board'.mode[k].advanced = 0
                \/ board'.mode[k] = board.mode[k] /\ board'.row[k] = board.row[k]
             /\ pc' = "write" /\ obeyed' => board'.mode[k] = ClearedMode(k)
<1> DEFINE k == Head(steps).key
<1>1. Working /\ steps \in Seq(Steps) /\ steps # <<>> /\ steps' = Tail(steps) /\ board \in Boards
      /\ Head(steps).do \in {"pair", "clear", "restore"}
      BY SendWays DEF Doing
<1>2. FramesAreChecked(steps, "clear", "cleared", Gone)
      BY <1>1 DEF SInv, UnpairOnItsWay
<1>3. Head(steps) \in Steps /\ Head(steps).do \in {"clear", "cleared"} /\ k \in Gone
      /\ (Head(steps).do = "clear" => Has(steps', "cleared", k))
      BY <1>1, <1>2, FramesTail, PlanTail
<1>4. Head(steps).do = "clear" /\ Has(steps', "cleared", k)
      BY <1>1, <1>3
<1>5. Head(steps) = Step("clear", k)
      BY <1>3, <1>4 DEF Steps, Step
<1>6. k \in Keys /\ ClearedMode(k) \in Mode /\ ClearedMode(k).advanced = 0
      BY <1>1, <1>3, UnpairParts
<1>7. AsTold(Head(steps)) = Cleared(board, k, ClearedMode(k))
      BY <1>4 DEF AsTold
<1> DEFINE lost(c) == [c EXCEPT !.mode[k].touch = 0]
<1>8. OtherThanTold(Head(steps)) = {board} \cup {lost(c) : c \in Cleared(board, k, ClearedMode(k))}
      BY <1>7 DEF OtherThanTold
<1> HIDE DEF k
<1>9. ASSUME NEW c \in Cleared(board, k, ClearedMode(k))
      PROVE  /\ c \in Boards /\ c.mode[k] = ClearedMode(k)
             /\ \A j \in Keys \ {k} : c.mode[j] = board.mode[j] /\ c.row[j] = board.row[j]
      BY <1>1, <1>6, ClearedParts
<1>10. ASSUME NEW c \in Cleared(board, k, ClearedMode(k))
       PROVE  /\ lost(c) \in Boards /\ lost(c).mode[k].advanced = 0
              /\ \A j \in Keys \ {k} : lost(c).mode[j] = board.mode[j] /\ lost(c).row[j] = board.row[j]
  <2>1. /\ c \in Boards /\ c.mode[k].advanced = 0
        /\ \A j \in Keys \ {k} : c.mode[j] = board.mode[j] /\ c.row[j] = board.row[j]
        BY <1>6, <1>9
  <2> QED BY <1>6, <2>1, TouchLost
<1> HIDE DEF lost
<1>11. \/ board' = board /\ (pc' = "idle" \/ obeyed' = FALSE)
       \/ board' \in Cleared(board, k, ClearedMode(k))
       \/ (\E c \in Cleared(board, k, ClearedMode(k)) : board' = lost(c)) /\ obeyed' = FALSE
      BY <1>7, <1>8, SendWays
<1>12. /\ board' \in Boards
       /\ \A j \in Keys \ {k} : board'.mode[j] = board.mode[j] /\ board'.row[j] = board.row[j]
       /\ \/ board'.mode[k].advanced = 0
          \/ board'.mode[k] = board.mode[k] /\ board'.row[k] = board.row[k]
       /\ pc' = "write" /\ obeyed' => board'.mode[k] = ClearedMode(k)
      BY <1>1, <1>6, <1>9, <1>10, <1>11
<1> QED BY <1>3, <1>4, <1>5, <1>6, <1>12 DEF k

LEMMA SendUnpairSocd == ASSUME SInv, SendFrame, cmd.op = "unpair" PROVE SInv'
<1> DEFINE k == Head(steps).key
<1>1. /\ Working /\ steps \in Seq(Steps) /\ steps # <<>> /\ steps' = Tail(steps) /\ steps' \in Seq(Steps)
      BY SendWays, PlanTail
<1>2. /\ k \in Gone /\ k \in Keys /\ Head(steps) = Step("clear", k) /\ Has(steps', "cleared", k)
      /\ board' \in Boards
      /\ \A j \in Keys \ {k} : board'.mode[j] = board.mode[j] /\ board'.row[j] = board.row[j]
      /\ \/ board'.mode[k].advanced = 0
         \/ board'.mode[k] = board.mode[k] /\ board'.row[k] = board.row[k]
      /\ pc' = "write" /\ obeyed' => board'.mode[k] = ClearedMode(k)
      BY UnpairSent
<1> HIDE DEF k
<1>3. CASE pc' = "idle"
  <2>1. pc # "idle" /\ outcome' = "failed" /\ calm' = FALSE /\ UNCHANGED <<cmd, start, backups>>
        /\ obeyed' \in BOOLEAN
        BY <1>3, SendWays
  <2> QED BY <1>1, <1>2, <1>3, <2>1, EndsWithout
<1>4. CASE pc' = "write"
  <2>1. /\ outcome' = "none" /\ calm' = (calm /\ obeyed') /\ UNCHANGED <<cmd, start, backups>>
        /\ obeyed' \in BOOLEAN /\ calm' \in BOOLEAN /\ Working'
        BY <1>4, SendWays DEF Working
  <2>2. TypeOK'
        BY <1>1, <1>2, <1>4, <2>1, SendWays DEF SInv, TypeOK
  <2>3. Gone' = Gone /\ \A j : ClearedMode(j)' = ClearedMode(j)
        BY <2>1 DEF Gone, ClearedMode
  <2>4. FramesAreChecked(steps', "clear", "cleared", Gone)
        BY <1>1, FramesTail DEF SInv, UnpairOnItsWay
  <2>5. ASSUME NEW j \in Keys, j \notin Gone \/ j \in Flagged(board')
        PROVE  board'.mode[j] = start.mode[j] /\ board'.row[j] = start.row[j]
    <3>1. CASE j # k
      <4>1. j \notin Gone \/ j \in Flagged(board)
            BY <1>2, <2>5, <3>1 DEF Flagged
      <4> QED BY <1>1, <1>2, <3>1, <4>1 DEF SInv, UnpairOnItsWay
    <3>2. CASE j = k
      <4>1. j \in Flagged(board') /\ board'.mode[k].advanced # 0
            BY <1>2, <2>5, <3>2 DEF Flagged, ADVANCED_SOCD
      <4>2. board'.mode[k] = board.mode[k] /\ board'.row[k] = board.row[k]
            BY <1>2, <4>1
      <4>3. k \in Flagged(board)
            BY <1>2, <3>2, <4>1, <4>2 DEF Flagged
      <4> QED BY <1>1, <1>2, <3>2, <4>2, <4>3 DEF SInv, UnpairOnItsWay
    <3> QED BY <3>1, <3>2
  <2>6. ASSUME NEW j \in Gone
        PROVE  board'.mode[j] = ClearedMode(j) \/ Has(steps', "cleared", j)
    <3>1. CASE j = k
          BY <1>2, <3>1
    <3>2. CASE j # k
      <4>1. board.mode[j] = ClearedMode(j) \/ Has(steps, "cleared", j)
            BY <1>1 DEF SInv, UnpairOnItsWay, Ahead
      <4>2. j \in Keys
            BY <1>1, UnpairParts
      <4>3. Head(steps) # Step("cleared", j)
            BY <1>2 DEF Step
      <4> QED BY <1>1, <1>2, <3>2, <4>1, <4>2, <4>3, PlanTail
    <3> QED BY <3>1, <3>2
  <2>7. ASSUME calm', NEW n \in 1..Len(steps'), steps'[n].do = "cleared"
        PROVE  \/ board'.mode[steps'[n].key] = ClearedMode(steps'[n].key)
               \/ \E m \in 1..(n - 1) : steps'[m] = Step("clear", steps'[n].key)
    <3> DEFINE j == steps'[n].key
    <3>1. board'.mode[k] = ClearedMode(k) /\ calm
          BY <1>2, <1>4, <2>1, <2>7
    <3>2. /\ steps'[n] = steps[n + 1] /\ n + 1 \in 1..Len(steps) /\ steps[1] = Head(steps)
          /\ Len(steps) \in Nat /\ Len(steps') = Len(steps) - 1
          /\ \A i \in 1..Len(steps') : steps'[i] = steps[i + 1]
          BY <1>1, PlanTail
    <3>3. \/ board.mode[j] = ClearedMode(j)
          \/ \E m \in 1..((n + 1) - 1) : steps[m] = Step("clear", j)
          BY <1>1, <2>7, <3>1, <3>2 DEF SInv, UnpairOnItsWay
    <3>4. j \in Keys
      <4>1. steps'[n] \in Steps
            BY <1>1, ElementOfSeq
      <4> QED BY <4>1 DEF Steps
    <3>5. CASE j = k
          BY <3>1, <3>5
    <3>6. CASE j # k /\ board.mode[j] = ClearedMode(j)
          BY <1>2, <3>4, <3>6
    <3>7. CASE j # k /\ \E m \in 1..((n + 1) - 1) : steps[m] = Step("clear", j)
      <4>1. PICK m \in 1..((n + 1) - 1) : steps[m] = Step("clear", j)
            BY <3>7
      <4>2. m # 1
            BY <1>2, <3>2, <3>7, <4>1 DEF Step
      <4>3. m - 1 \in 1..(n - 1) /\ m - 1 \in 1..Len(steps') /\ m - 1 + 1 = m
            BY <3>2, <4>1, <4>2
      <4>4. steps'[m - 1] = steps[m]
            BY <3>2, <4>3
      <4> QED BY <4>1, <4>3, <4>4
    <3> QED BY <3>3, <3>5, <3>6, <3>7
  <2>8. UnpairOnItsWay'
        BY <2>1, <2>3, <2>4, <2>5, <2>6, <2>7 DEF UnpairOnItsWay, Ahead
  <2>9. OutcomeLast' /\ AcceptedAtStart' /\ PairOnItsWay' /\ RestoreOnItsWay' /\ CalmIsCoherent'
        BY <1>1, <1>4, <2>1, SendWays
        DEF SInv, OutcomeLast, AcceptedAtStart, PairOnItsWay, RestoreOnItsWay, CalmIsCoherent
  <2> QED BY <2>2, <2>8, <2>9 DEF SInv
<1> QED BY <1>3, <1>4, SendWays

LEMMA CheckUnpairSocd == ASSUME SInv, Check, cmd.op = "unpair" PROVE SInv'
<1> DEFINE k == Head(steps).key
<1>1. /\ Working /\ steps \in Seq(Steps) /\ steps # <<>> /\ steps' = Tail(steps)
      /\ UNCHANGED <<cmd, start, backups, board, obeyed>> /\ Head(steps) \in Steps
      BY CheckWays, PlanTail
<1>2. FramesAreChecked(steps, "clear", "cleared", Gone)
      BY <1>1 DEF SInv, UnpairOnItsWay
<1>3. Head(steps).do \in {"clear", "cleared"} /\ k \in Gone /\ FramesAreChecked(steps', "clear", "cleared", Gone)
      BY <1>1, <1>2, FramesTail
<1>4. Head(steps).do = "cleared"
      BY <1>3, CheckWays DEF Doing
<1>5. Head(steps) = Step("cleared", k)
      BY <1>1, <1>4 DEF Steps, Step
<1>6. Confirmed(Head(steps)) <=> board.mode[k] = ClearedMode(k)
      BY <1>4 DEF Confirmed
<1> HIDE DEF k
<1>7. calm => Confirmed(Head(steps))
  <2>1. /\ steps[1] = Head(steps) /\ 1 \in 1..Len(steps)
        BY <1>1, PlanTail
  <2>2. steps[1].do = "cleared" /\ steps[1].key = k
        BY <1>5, <2>1 DEF Step
  <2>3. calm => \/ board.mode[steps[1].key] = ClearedMode(steps[1].key)
                \/ \E m \in 1..(1 - 1) : steps[m] = Step("clear", steps[1].key)
        BY <1>1, <2>1, <2>2 DEF SInv, UnpairOnItsWay
  <2> QED BY <1>6, <2>2, <2>3
<1>8. ASSUME Confirmed(Head(steps)), pc' = "write" PROVE UnpairOnItsWay'
  <2>1. Gone' = Gone /\ (\A j : ClearedMode(j)' = ClearedMode(j)) /\ calm' = calm
        BY <1>1, <1>8, CheckWays DEF Gone, ClearedMode
  <2>2. ASSUME NEW j \in Keys, j \notin Gone \/ j \in Flagged(board)
        PROVE  board.mode[j] = start.mode[j] /\ board.row[j] = start.row[j]
        BY <1>1, <2>2 DEF SInv, UnpairOnItsWay
  <2>3. ASSUME NEW j \in Gone
        PROVE  board.mode[j] = ClearedMode(j) \/ Has(steps', "cleared", j)
    <3>1. CASE j = k
          BY <1>6, <1>8, <3>1
    <3>2. CASE j # k
      <4>1. board.mode[j] = ClearedMode(j) \/ Has(steps, "cleared", j)
            BY <1>1 DEF SInv, UnpairOnItsWay, Ahead
      <4>2. Head(steps) # Step("cleared", j)
            BY <1>5, <3>2 DEF Step
      <4> QED BY <1>1, <4>1, <4>2, PlanTail
    <3> QED BY <3>1, <3>2
  <2>4. ASSUME calm, NEW n \in 1..Len(steps'), steps'[n].do = "cleared"
        PROVE  \/ board.mode[steps'[n].key] = ClearedMode(steps'[n].key)
               \/ \E m \in 1..(n - 1) : steps'[m] = Step("clear", steps'[n].key)
    <3> DEFINE j == steps'[n].key
    <3>1. /\ steps'[n] = steps[n + 1] /\ n + 1 \in 1..Len(steps) /\ steps[1] = Head(steps)
          /\ Len(steps) \in Nat /\ Len(steps') = Len(steps) - 1
          /\ \A i \in 1..Len(steps') : steps'[i] = steps[i + 1]
          BY <1>1, PlanTail
    <3>2. \/ board.mode[j] = ClearedMode(j)
          \/ \E m \in 1..((n + 1) - 1) : steps[m] = Step("clear", j)
          BY <1>1, <2>4, <3>1 DEF SInv, UnpairOnItsWay
    <3>3. CASE \E m \in 1..((n + 1) - 1) : steps[m] = Step("clear", j)
      <4>1. PICK m \in 1..((n + 1) - 1) : steps[m] = Step("clear", j)
            BY <3>3
      <4>2. m # 1
            BY <1>5, <3>1, <4>1 DEF Step
      <4>3. m - 1 \in 1..(n - 1) /\ m - 1 \in 1..Len(steps') /\ m - 1 + 1 = m
            BY <3>1, <4>1, <4>2
      <4>4. steps'[m - 1] = steps[m]
            BY <3>1, <4>3
      <4> QED BY <4>1, <4>3, <4>4
    <3> QED BY <3>2, <3>3
  <2> QED BY <1>1, <1>3, <2>1, <2>2, <2>3, <2>4 DEF UnpairOnItsWay, Ahead
<1>9. PairOnItsWay' /\ RestoreOnItsWay'
      BY <1>1 DEF PairOnItsWay, RestoreOnItsWay
<1> QED BY <1>7, <1>8, <1>9, CheckSocd

\* The pairs named are gone, and nothing else is.
LEMMA UnpairDone ==
  ASSUME SInv, Working, cmd.op = "unpair", steps = <<>>
  PROVE  /\ Flagged(board) = Flagged(start) \ Gone
         /\ Coherent(board) /\ Live(board) = {Setting(start.row[k]) : k \in Flagged(start) \ Gone}
         /\ \A k \in Keys : board.mode[k] = IF k \in Gone THEN ClearedMode(k) ELSE start.mode[k]
<1>1. /\ start \in Boards /\ Coherent(start) /\ board \in Boards /\ Gone \subseteq Flagged(start) /\ Gone \subseteq Keys
      /\ \A k \in Flagged(start) : k \in Gone <=> start.row[k][2] \in Gone
      /\ \A k \in Keys : ClearedMode(k).advanced = 0
      BY UnpairParts DEF SInv, TypeOK
<1>2. \A k \in Keys : k \notin Gone \/ k \in Flagged(board) =>
        board.mode[k] = start.mode[k] /\ board.row[k] = start.row[k]
      BY DEF SInv, UnpairOnItsWay
<1>3. \A k \in Gone : board.mode[k] = ClearedMode(k)
  <2>1. Len(<<>>) = 0
        BY EmptySeq
  <2>2. \A k \in Gone : board.mode[k] = ClearedMode(k) \/ \E n \in 1..0 : steps[n] = Step("cleared", k)
        BY <2>1 DEF SInv, UnpairOnItsWay, Ahead, Has
  <2> QED BY <2>2
<1>4. Flagged(board) = Flagged(start) \ Gone
  <2>1. \A k \in Gone : k \notin Flagged(board)
        BY <1>1, <1>3 DEF Flagged, ADVANCED_SOCD
  <2>2. \A k \in Keys \ Gone : k \in Flagged(board) <=> k \in Flagged(start)
        BY <1>2 DEF Flagged
  <2> QED BY <2>1, <2>2 DEF Flagged
<1>5. \A k \in Flagged(board) : board.row[k] = start.row[k]
      BY <1>2 DEF Flagged
<1>6. Coherent(board) /\ Live(board) = {Setting(start.row[k]) : k \in Flagged(start) \ Gone}
      BY <1>1, <1>4, <1>5, PairsRemoved
<1> QED BY <1>1, <1>2, <1>3, <1>4, <1>6

-----------------------------------------------------------------------------
(* Restoring.                                                              *)

LEMMA SourceMode ==
  ASSUME SInv, Len(backups) >= 2
  PROVE  Source.mode \in [Keys -> Mode] /\ Source.mode = Source.was.mode /\ Source.was \in Boards
<1>1. /\ backups \in Seq([mode : [Keys -> Mode], was : Boards]) /\ Len(backups) \in Nat
      /\ \A n \in 1..Len(backups) : backups[n].mode = backups[n].was.mode
      BY LenProperties DEF SInv, TypeOK
<1>2. Len(backups) - 1 \in 1..Len(backups)
      BY <1>1
<1>3. Source \in [mode : [Keys -> Mode], was : Boards]
      BY <1>1, <1>2, ElementOfSeq DEF Source
<1> QED BY <1>1, <1>2, <1>3 DEF Source

LEMMA SendRestoreSocd == ASSUME SInv, SendFrame, cmd.op = "restore" PROVE SInv'
<1> DEFINE k == Head(steps).key
<1>1. /\ Working /\ pc = "write" /\ steps \in Seq(Steps) /\ steps # <<>> /\ steps' = Tail(steps)
      /\ steps' \in Seq(Steps) /\ board \in Boards /\ Head(steps) \in Steps
      /\ Head(steps).do \in {"pair", "clear", "restore"}
      BY SendWays, PlanTail DEF Doing
<1>2. FramesAreChecked(steps, "restore", "restored", Keys) /\ backups # <<>> /\ Len(backups) >= 2
      BY <1>1 DEF SInv, RestoreOnItsWay
<1>3. /\ FramesAreChecked(steps', "restore", "restored", Keys)
      /\ Head(steps).do \in {"restore", "restored"} /\ k \in Keys
      /\ (Head(steps).do = "restore" => Has(steps', "restored", k))
      BY <1>1, <1>2, FramesTail
<1>4. Head(steps).do = "restore" /\ Has(steps', "restored", k)
      BY <1>1, <1>3
<1>5. Head(steps) = Step("restore", k)
      BY <1>1, <1>4 DEF Steps, Step
<1>6. Source.mode[k] \in Mode
      BY <1>2, <1>3, SourceMode
<1>7. AsTold(Head(steps)) = Cleared(board, k, Source.mode[k])
      BY <1>4 DEF AsTold
<1> DEFINE lost(c) == [c EXCEPT !.mode[k].touch = 0]
<1>8. OtherThanTold(Head(steps)) = {board} \cup {lost(c) : c \in Cleared(board, k, Source.mode[k])}
      BY <1>7 DEF OtherThanTold
<1> HIDE DEF k
<1>9. ASSUME NEW c \in Cleared(board, k, Source.mode[k])
      PROVE  c \in Boards /\ \A j \in Keys \ {k} : c.mode[j] = board.mode[j]
      BY <1>1, <1>3, <1>6, ClearedParts
<1>10. ASSUME NEW c \in Cleared(board, k, Source.mode[k])
       PROVE  lost(c) \in Boards /\ \A j \in Keys \ {k} : lost(c).mode[j] = board.mode[j]
       BY <1>3, <1>9, TouchLost
<1> HIDE DEF lost
<1>11. board' \in Boards /\ \A j \in Keys \ {k} : board'.mode[j] = board.mode[j]
       BY <1>1, <1>7, <1>8, <1>9, <1>10, SendWays
<1>12. CASE pc' = "idle"
  <2>1. pc # "idle" /\ outcome' = "failed" /\ calm' = FALSE /\ UNCHANGED <<cmd, start, backups>>
        /\ obeyed' \in BOOLEAN
        BY <1>12, SendWays
  <2> QED BY <1>1, <1>11, <1>12, <2>1, EndsWithout
<1>13. CASE pc' = "write"
  <2>1. /\ outcome' = "none" /\ calm' = (calm /\ obeyed') /\ UNCHANGED <<cmd, start, backups>>
        /\ obeyed' \in BOOLEAN /\ calm' \in BOOLEAN /\ Working' /\ ~calm
        BY <1>1, <1>13, SendWays DEF Working, SInv, CalmIsCoherent
  <2>2. TypeOK'
        BY <1>1, <1>11, <1>13, <2>1, SendWays DEF SInv, TypeOK
  <2>3. ASSUME NEW j \in Keys
        PROVE  board'.mode[j] = Source.mode[j] \/ Has(steps', "restored", j)
    <3>1. CASE j = k
          BY <1>4, <3>1
    <3>2. CASE j # k
      <4>1. board.mode[j] = Source.mode[j] \/ Has(steps, "restored", j)
            BY <1>1 DEF SInv, RestoreOnItsWay, Ahead
      <4>2. Head(steps) # Step("restored", j)
            BY <1>5 DEF Step
      <4> QED BY <1>1, <1>11, <3>2, <4>1, <4>2, PlanTail
    <3> QED BY <3>1, <3>2
  <2>4. RestoreOnItsWay'
        BY <1>2, <1>3, <1>13, <2>1, <2>3 DEF RestoreOnItsWay, Ahead, Source
  <2>5. OutcomeLast' /\ AcceptedAtStart' /\ PairOnItsWay' /\ UnpairOnItsWay' /\ CalmIsCoherent'
        BY <1>1, <1>13, <2>1, SendWays
        DEF SInv, OutcomeLast, AcceptedAtStart, PairOnItsWay, UnpairOnItsWay, CalmIsCoherent
  <2> QED BY <2>2, <2>4, <2>5 DEF SInv
<1> QED BY <1>12, <1>13, SendWays

LEMMA CheckRestoreSocd == ASSUME SInv, Check, cmd.op = "restore" PROVE SInv'
<1> DEFINE k == Head(steps).key
<1>1. /\ Working /\ pc = "write" /\ steps \in Seq(Steps) /\ steps # <<>> /\ steps' = Tail(steps) /\ ~calm
      /\ UNCHANGED <<cmd, start, backups, board, obeyed>> /\ Head(steps) \in Steps
      BY CheckWays, PlanTail DEF SInv, CalmIsCoherent
<1>2. FramesAreChecked(steps, "restore", "restored", Keys) /\ backups # <<>> /\ Len(backups) >= 2
      BY <1>1 DEF SInv, RestoreOnItsWay
<1>3. Head(steps).do \in {"restore", "restored"} /\ FramesAreChecked(steps', "restore", "restored", Keys)
      BY <1>1, <1>2, FramesTail
<1>4. Head(steps).do = "restored"
      BY <1>3, CheckWays DEF Doing
<1>5. Head(steps) = Step("restored", k)
      BY <1>1, <1>4 DEF Steps, Step
<1>6. Confirmed(Head(steps)) <=> board.mode[k] = Source.mode[k]
      BY <1>4 DEF Confirmed
<1> HIDE DEF k
<1>7. ASSUME Confirmed(Head(steps)), pc' = "write" PROVE RestoreOnItsWay'
  <2>1. ASSUME NEW j \in Keys
        PROVE  board.mode[j] = Source.mode[j] \/ Has(steps', "restored", j)
    <3>1. CASE j = k
          BY <1>6, <1>7, <3>1
    <3>2. CASE j # k
      <4>1. board.mode[j] = Source.mode[j] \/ Has(steps, "restored", j)
            BY <1>1 DEF SInv, RestoreOnItsWay, Ahead
      <4>2. Head(steps) # Step("restored", j)
            BY <1>5, <3>2 DEF Step
      <4> QED BY <1>1, <4>1, <4>2, PlanTail
    <3> QED BY <3>1, <3>2
  <2> QED BY <1>1, <1>2, <1>3, <1>7, <2>1 DEF RestoreOnItsWay, Ahead, Source
<1>8. PairOnItsWay' /\ UnpairOnItsWay'
      BY <1>1 DEF PairOnItsWay, UnpairOnItsWay
<1> QED BY <1>1, <1>7, <1>8, CheckSocd

-----------------------------------------------------------------------------
(* Every step, and what follows.                                           *)

LEMMA OpIs ==
  ASSUME SInv, pc # "idle" \/ outcome = "verified"
  PROVE  cmd \in SocdCommands /\ cmd.op \in {"list", "pair", "unpair", "restore"}
<1>1. cmd \in SocdCommands
      BY DEF SInv, TypeOK, OutcomeLast
<1> QED BY <1>1, SocdAssumption DEF WellFormedSocd

LEMMA FinishSocd == ASSUME SInv, Finish PROVE SInv'
<1>1. /\ pc = "write" /\ steps = <<>> /\ pc' = "idle" /\ outcome' = "verified" /\ outcome = "none" /\ Working
      /\ UNCHANGED <<board, backups, cmd, steps, start, obeyed, calm, commands>> /\ cmd \in SocdCommands
      BY DEF Finish, EndsAs, Working, SInv, OutcomeLast, TypeOK
<1>2. Working'
      BY <1>1 DEF Working
<1>3. TypeOK'
      BY <1>1 DEF SInv, TypeOK
<1>4. OutcomeLast' /\ AcceptedAtStart'
      BY <1>1, <1>2 DEF SInv, OutcomeLast, AcceptedAtStart
<1>5. PairOnItsWay' /\ UnpairOnItsWay'
      BY <1>1 DEF SInv, PairOnItsWay, UnpairOnItsWay, PairPlan, PairedBoard, Row, Gone, Ahead, ClearedMode
<1>6. RestoreOnItsWay'
      BY <1>1 DEF SInv, RestoreOnItsWay, Ahead, Source
<1>7. calm => Coherent(board)
  <2>1. CASE cmd.op = "pair"
    <3>1. cmd.a \in Keys /\ cmd.b \in Keys
          BY <1>1, <2>1, PairedBoardParts
    <3>2. calm => board = PairedBoard
          BY <1>1, <2>1, <3>1, PairPlanParts DEF SInv, PairOnItsWay
    <3> QED BY <1>1, <2>1, <3>2, PairedBoardParts
  <2>2. CASE cmd.op = "unpair"
        BY <1>1, <2>2, UnpairDone
  <2>3. CASE cmd.op = "restore"
        BY <1>1, <2>3 DEF SInv, CalmIsCoherent
  <2>4. cmd.op # "list"
        BY <1>1 DEF SInv, OutcomeLast
  <2> QED BY <1>1, <2>1, <2>2, <2>3, <2>4, OpIs
<1>8. CalmIsCoherent'
      BY <1>1, <1>7 DEF CalmIsCoherent
<1> QED BY <1>3, <1>4, <1>5, <1>6, <1>8 DEF SInv

LEMMA StutterSocd == ASSUME SInv, UNCHANGED vars PROVE SInv'
BY DEF vars, SInv, TypeOK, OutcomeLast, AcceptedAtStart, Working, PairOnItsWay, PairPlan, PairedBoard, Row,
       UnpairOnItsWay, Gone, Ahead, ClearedMode, RestoreOnItsWay, Source, CalmIsCoherent

\* Every step of every command keeps the invariant.
THEOREM SocdInductive == SInv /\ [Next]_vars => SInv'
<1> SUFFICES ASSUME SInv, [Next]_vars PROVE SInv'
    OBVIOUS
<1>1. ASSUME NEW c \in SocdCommands, Begin(c) PROVE SInv'
      BY <1>1, BeginSocd
<1>2. CASE ReadSocd
      BY <1>2, ReadSocdSocd
<1>3. CASE ReadRestore
      BY <1>3, ReadRestoreSocd
<1>4. CASE SaveBackup
      BY <1>4, SaveBackupSocd
<1>5. CASE SendFrame
  <2>1. pc # "idle" /\ cmd.op # "list"
        BY <1>5, SendWays DEF SInv, OutcomeLast
  <2> QED BY <1>5, <2>1, OpIs, SendPairSocd, SendUnpairSocd, SendRestoreSocd
<1>6. CASE Check
  <2>1. pc # "idle" /\ cmd.op # "list"
        BY <1>6, CheckWays DEF SInv, OutcomeLast
  <2> QED BY <1>6, <2>1, OpIs, CheckPairSocd, CheckUnpairSocd, CheckRestoreSocd
<1>7. CASE Finish
      BY <1>7, FinishSocd
<1>8. CASE UNCHANGED vars
      BY <1>8, StutterSocd
<1> QED BY <1>1, <1>2, <1>3, <1>4, <1>5, <1>6, <1>7, <1>8 DEF Next

\* What is still ahead and what the board holds, at every step of the specification.
THEOREM SocdInvariant == Spec => []SInv
<1>1. Init => SInv
      BY InitialSocd
<1>2. SInv /\ [Next]_vars => SInv'
      BY SocdInductive
<1> QED BY <1>1, <1>2, PTL DEF Spec

\* A list that is printed shows every flagged key in one pair exactly, and only
\* pairs the board acts on (read_socd's refusals).
THEOREM ListsAreTrue == Spec => []ListIsTrue
<1>1. ASSUME SInv PROVE ListIsTrue
  <2> SUFFICES ASSUME outcome = "listed"
               PROVE  /\ Pairings(board) = Live(board)
                      /\ \A k \in Flagged(board) : Cardinality(PairingOf(board, k)) = 1
      BY DEF ListIsTrue
  <2>1. board \in Boards /\ Coherent(board)
        BY <1>1 DEF SInv, TypeOK, OutcomeLast
  <2>2. \A k \in Flagged(board) : k \in Keys /\ PairingOf(board, k) = {Setting(board.row[k])}
        BY <2>1, OnePairing DEF Flagged
  <2> QED BY <2>1, <2>2, CoherentLive, FS_Singleton
<1> QED BY <1>1, SocdInvariant, PTL

\* As long as nothing fails and nothing is restored, no command calls the board
\* inconsistent and no readback disagrees (read_socd, confirm_socd).
THEOREM NoAlarmIsFalse == Spec => []NoFalseAlarm
<1>1. SInv => NoFalseAlarm
      BY DEF SInv, CalmIsCoherent, NoFalseAlarm
<1> QED BY <1>1, SocdInvariant, PTL

\* What is reported as verified is so: the pair is live with the winner asked
\* for, or the pairs named are gone and nothing else is (write_socd_pair,
\* remove_socd_pair).
THEOREM SocdVerifiedIsTrue == Spec => []VerifiedIsTrue
<1>1. ASSUME SInv, outcome = "verified", cmd.op = "pair"
      PROVE  /\ Live(board) = Live(start) \cup {[keys |-> {cmd.a, cmd.b}, wins |-> cmd.wins]}
             /\ obeyed => \A k \in Keys : board.mode[k].touch = start.mode[k].touch
  <2>1. Working /\ steps = <<>> /\ cmd.a \in Keys /\ cmd.b \in Keys
        BY <1>1, PairedBoardParts DEF SInv, OutcomeLast, Working
  <2>2. /\ board # start /\ board \in {start, PairedBoard, [PairedBoard EXCEPT !.mode[cmd.a].touch = 0]}
        /\ obeyed => board = PairedBoard
        BY <1>1, <2>1 DEF SInv, PairOnItsWay
  <2>3. Live(board) = Live(start) \cup {[keys |-> {cmd.a, cmd.b}, wins |-> cmd.wins]}
        BY <1>1, <2>1, <2>2, PairedBoardParts
  <2>4. \A k \in Keys : PairedBoard.mode[k].touch = start.mode[k].touch
    <3>1. start \in Boards /\ cmd.a \in Keys /\ IsRow(cmd.a, Row) /\ Row[2] \in Keys
          BY <1>1, <2>1, PairedBoardParts
    <3> QED BY <3>1, PairedParts DEF PairedBoard
  <2> QED BY <2>2, <2>3, <2>4
<1>2. ASSUME SInv, outcome = "verified", cmd.op = "unpair"
      PROVE  LET gone == {p \in Live(start) : p.keys \cap ToSet(cmd.keys) # {}}
             IN  /\ Live(board) = Live(start) \ gone
                 /\ \A k \in Keys : board.mode[k] =
                      IF k \in UNION {p.keys : p \in gone} THEN [start.mode[k] EXCEPT !.advanced = 0]
                      ELSE start.mode[k]
  <2> DEFINE gone == {p \in Live(start) : p.keys \cap ToSet(cmd.keys) # {}}
  <2>1. Working /\ steps = <<>>
        BY <1>2 DEF SInv, OutcomeLast, Working
  <2>2. /\ start \in Boards /\ Coherent(start) /\ Gone \subseteq Flagged(start) /\ Gone \subseteq Keys
        /\ \A k \in Flagged(start) : k \in Gone <=> Setting(start.row[k]).keys \cap ToSet(cmd.keys) # {}
        BY <1>2, <2>1, UnpairParts
  <2>3. Live(start) = {Setting(start.row[k]) : k \in Flagged(start)}
        BY <2>2, CoherentLive DEF Pairings
  <2>4. gone = {Setting(start.row[k]) : k \in Gone}
        BY <2>2, <2>3
  <2>5. Live(board) = Live(start) \ gone
    <3>1. Live(board) = {Setting(start.row[k]) : k \in Flagged(start) \ Gone}
          BY <1>2, <2>1, UnpairDone
    <3>2. \A k \in Flagged(start) : Setting(start.row[k]) \in gone <=> k \in Gone
          BY <2>2, <2>3
    <3> HIDE DEF gone
    <3> QED BY <2>3, <3>1, <3>2
  <2>6. Gone = UNION {p.keys : p \in gone}
    <3>1. \A k \in Gone : k \in Setting(start.row[k]).keys
          BY <2>2, CoherentRows
    <3>2. ASSUME NEW k \in Gone, NEW j \in Setting(start.row[k]).keys PROVE j \in Gone
      <4>1. k \in Flagged(start) /\ (j = k \/ j = start.row[k][2])
            BY <2>2, <3>2, CoherentRows
      <4>2. k \in Gone <=> start.row[k][2] \in Gone
            BY <1>2, <2>1, <4>1, UnpairParts
      <4> QED BY <4>1, <4>2
    <3> HIDE DEF gone
    <3> QED BY <2>4, <3>1, <3>2
  <2>7. \A k \in Keys : board.mode[k] = IF k \in Gone THEN ClearedMode(k) ELSE start.mode[k]
        BY <1>2, <2>1, UnpairDone
  <2> HIDE DEF gone
  <2>8. \A k \in Keys : board.mode[k] =
          IF k \in UNION {p.keys : p \in gone} THEN [start.mode[k] EXCEPT !.advanced = 0] ELSE start.mode[k]
        BY <2>6, <2>7 DEF ClearedMode
  <2> QED BY <2>5, <2>8 DEF gone
<1>3. SInv => VerifiedIsTrue
      BY <1>1, <1>2 DEF VerifiedIsTrue
<1> QED BY <1>3, SocdInvariant, PTL

\* A verified `wh restore --last` brings the pairs of the snapshot back to life
\* where the board has kept their rows (verify_restore).
THEOREM RestoreAlwaysHeals == Spec => []RestoreHeals
<1>1. ASSUME SInv PROVE RestoreHeals
  <2> SUFFICES ASSUME outcome = "verified", cmd.op = "restore", NEW p \in Live(Source.was),
                      \A k \in p.keys : board.row[k] = Source.was.row[k]
               PROVE  p \in Live(board)
      BY DEF RestoreHeals
  <2>1. Working /\ steps = <<>> /\ pc = "idle" /\ board \in Boards
        BY <1>1 DEF SInv, OutcomeLast, Working, TypeOK
  <2>2. Len(backups) >= 2 /\ \A k \in Keys : board.mode[k] = Source.mode[k]
    <3>1. Len(<<>>) = 0
          BY EmptySeq
    <3>2. /\ Len(backups) >= 2
          /\ \A k \in Keys : board.mode[k] = Source.mode[k] \/ \E n \in 1..0 : steps[n] = Step("restored", k)
          BY <1>1, <2>1, <3>1 DEF SInv, RestoreOnItsWay, Ahead, Has
    <3> QED BY <3>2
  <2>3. Source.mode = Source.was.mode /\ Source.was \in Boards
        BY <1>1, <2>2, SourceMode
  <2>4. Flagged(board) = Flagged(Source.was)
        BY <2>2, <2>3 DEF Flagged
  <2> DEFINE b == Source.was
  <2> HIDE DEF b
  <2>5. b \in Boards /\ p \in Live(b) /\ \A k \in p.keys \cap Flagged(b) : k \in Flagged(board) /\ board.row[k] = b.row[k]
        BY <2>3, <2>4 DEF b
  <2> QED BY <2>1, <2>5, PairStays
<1> QED BY <1>1, SocdInvariant, PTL

\* No pair that a command does not name ends, however the command ends
\* (check_unpaired, resolve_unpair).
THEOREM OtherPairsStayLive == Spec => OtherPairsLive
<1> DEFINE A == cmd # None /\ cmd.op # "restore" =>
                  \A p \in Live(board) : p.keys \cap Named(cmd) = {} => p \in Live(board')
<1>1. ASSUME SInv, [Next]_vars PROVE A
  <2> SUFFICES ASSUME cmd.op # "restore", NEW p \in Live(board), p.keys \cap Named(cmd) = {}
               PROVE  p \in Live(board')
      OBVIOUS
  <2>1. CASE board' = board
        BY <2>1
  <2>2. CASE SendFrame /\ cmd.op = "pair"
    <3>1. /\ board = start /\ board \in Boards /\ board' \in {start, PairedBoard, [PairedBoard EXCEPT !.mode[cmd.a].touch = 0]}
          BY <1>1, <2>2, PairSent, SendWays
    <3>2. \A q \in {PairedBoard, [PairedBoard EXCEPT !.mode[cmd.a].touch = 0]} : p \in Live(q)
          BY <1>1, <2>2, <3>1, SendWays, PairedBoardParts
    <3> QED BY <3>1, <3>2
  <2>3. CASE SendFrame /\ cmd.op = "unpair"
    <3> DEFINE k == Head(steps).key
    <3>1. /\ k \in Gone /\ k \in Keys /\ board' \in Boards
          /\ \A j \in Keys \ {k} : board'.mode[j] = board.mode[j] /\ board'.row[j] = board.row[j]
          BY <1>1, <2>3, UnpairSent
    <3> HIDE DEF k
    <3>2. Working /\ board \in Boards
          BY <1>1, <2>3, SendWays
    <3>3. /\ \A j \in Keys : j \in Flagged(board) => board.mode[j] = start.mode[j] /\ board.row[j] = start.row[j]
          /\ \A j \in Flagged(start) : j \in Gone <=> Setting(start.row[j]).keys \cap ToSet(cmd.keys) # {}
          /\ Coherent(start) /\ start \in Boards
          BY <1>1, <2>3, <3>2, UnpairParts DEF SInv, UnpairOnItsWay
    <3>4. PICK j \in Flagged(board) :
            /\ j \in Keys /\ p = Setting(board.row[j]) /\ p.keys = {j, board.row[j][2]}
            /\ board.row[j][2] \in Keys
          BY <3>2, LivePair
    <3>5. j \in Flagged(start) /\ board.row[j] = start.row[j]
          BY <3>3, <3>4 DEF Flagged
    <3>6. j \notin Gone
          BY <2>3, <3>3, <3>4, <3>5 DEF Named
    <3>7. start.row[j][2] \notin Gone
          BY <1>1, <2>3, <3>2, <3>5, <3>6, UnpairParts
    <3>8. k \notin p.keys
          BY <3>1, <3>4, <3>5, <3>6, <3>7
    <3>9. \A i \in p.keys \cap Flagged(board) : i \in Flagged(board') /\ board'.row[i] = board.row[i]
          BY <3>1, <3>8 DEF Flagged
    <3> QED BY <3>1, <3>2, <3>9, PairStays
  <2>4. CASE ~SendFrame
        BY <1>1, <2>1, <2>4 DEF Next, Begin, ReadSocd, ReadRestore, SaveBackup, Check, Finish, vars
  <2>5. SendFrame => cmd.op = "pair" \/ cmd.op = "unpair"
    <3>1. SendFrame => pc # "idle" /\ cmd.op # "list"
          BY <1>1, SendWays DEF SInv, OutcomeLast
    <3> QED BY <1>1, <3>1, OpIs
  <2> QED BY <2>2, <2>3, <2>4, <2>5
<1>2. SInv /\ [Next]_vars => [A]_vars
      BY <1>1
<1> QED BY <1>2, SocdInvariant, PTL DEF Spec, OtherPairsLive

=============================================================================
