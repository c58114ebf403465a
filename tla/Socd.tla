-------------------------------- MODULE Socd --------------------------------
(***************************************************************************)
(* `wh socd list`, `pair` and `unpair`, and what `wh restore --last` makes *)
(* of them.                                                                *)
(*                                                                         *)
(* A pairing is kept twice on the board: each member's row, which spells   *)
(* it with that member first and the priority re-based to match, and each  *)
(* member's MODE, whose advanced nibble says that the key takes part.  A   *)
(* pair write sets rows and nibbles in one frame; an unpair clears the     *)
(* nibbles, one frame a key, and leaves the rows; a snapshot has the       *)
(* nibbles and not the rows.  Any roundtrip may fail, its frame taken or   *)
(* not, and the firmware may acknowledge a frame and not do as told.       *)
(*                                                                         *)
(* Keys are positive numbers in matrix order.  A row is <<a, b, priority>> *)
(* with the priority as on the wire.  Nobody edits the board meanwhile, so *)
(* reads that follow one another are one step.                             *)
(***************************************************************************)
EXTENDS Naturals, FiniteSets, SequencesExt

CONSTANTS
  Keys,          \* the keys of the board's matrix
  Touches,       \* touch nibbles
  InitialBoards, \* what the board may hold when the first command runs
  SocdCommands,  \* the command lines the operator may type
  MaxCommands,   \* bound: commands run one after the other
  None           \* no command yet

ADVANCED_SOCD == 8
LastInput     == 0   \* no key

Mode  == [touch : Touches, advanced : {0, ADVANCED_SOCD, 9}]
NoRow == <<>>

\* A reply that does not parse (key 0, a key paired with itself, another key's
\* row) counts as no row.
IsRow(k, row) ==
  row \in Nat \X Nat \X (0..2) /\ row[1] = k /\ row[2] \notin {0, k}

Rows == {NoRow} \cup (Nat \X Nat \X (0..2))

Boards ==
  {b \in [mode : [Keys -> Mode], row : [Keys -> Rows]] :
     \A k \in Keys : b.row[k] = NoRow \/ IsRow(k, b.row[k])}

WellFormedSocd(c) ==
  CASE c.op = "pair"   -> /\ {c.a, c.b} \subseteq Keys /\ c.a # c.b
                          /\ c.wins \in {LastInput, c.a, c.b} /\ c.dry \in BOOLEAN
    [] c.op = "unpair" -> c.keys \in Seq(Keys) \ {<<>>} /\ c.dry \in BOOLEAN
    [] OTHER           -> c.op \in {"list", "restore"}

ASSUME SocdAssumption ==
  /\ Keys \subseteq Nat \ {0} /\ IsFiniteSet(Keys) /\ 0 \in Touches
  /\ InitialBoards \subseteq Boards
  /\ \A c \in SocdCommands : WellFormedSocd(c)
  /\ MaxCommands \in Nat

VARIABLES
  board,     \* mode and row of every key
  backups,   \* the modes saved, oldest first, each with the board as it was then
  cmd,       \* the command line being run
  pc,        \* where it is
  steps,     \* the frames and checks it has still to go through
  outcome,   \* how the last command ended
  start,     \* the board when it began
  obeyed,    \* the firmware did as told with every frame of this command
  calm,      \* nothing has failed so far and nothing was restored
  commands   \* commands begun so far

vars == <<board, backups, cmd, pc, steps, outcome, start, obeyed, calm, commands>>

-----------------------------------------------------------------------------
(* Pairings.                                                               *)

\* Seeded fault: the priority bytes of the two rows are compared as they are.
SettingAsSpelled(row) == [keys |-> {row[1], row[2]}, wins |-> row[3]]

\* What the two spellings of a pairing have in common: the keys and the winner.
Setting(row) ==
  [keys |-> {row[1], row[2]},
   wins |-> IF row[3] = 0 THEN LastInput ELSE row[row[3]]]

\* write_pair: the frame for the pair a, b.
WritePair(a, b, wins) ==
  <<a, b, IF wins = LastInput THEN 0 ELSE IF wins = a THEN 1 ELSE 2>>

\* How the board spells the same pairing for its other key.
Rebased(row) == <<row[2], row[1], IF row[3] = 0 THEN 0 ELSE 3 - row[3]>>

Flagged(b) == {k \in Keys : b.mode[k].advanced = ADVANCED_SOCD}

\* Seeded fault: the partner's own row is not looked at.
CoherentOneSided(b) ==
  \A k \in Flagged(b) : b.row[k] # NoRow /\ b.row[k][2] \in Flagged(b)

\* read_socd refuses a flagged key whose partner is not a flagged key of the
\* board, or whose partner answers with another pairing.
Coherent(b) ==
  /\ \A k \in Flagged(b) : b.row[k] # NoRow
  /\ \A k \in Flagged(b) :
       /\ b.row[k][2] \in Flagged(b)
       /\ Setting(b.row[b.row[k][2]]) = Setting(b.row[k])

Pairings(b) == {Setting(b.row[k]) : k \in Flagged(b)}

PairingOf(b, k) == {p \in Pairings(b) : k \in p.keys}

\* Pairs the board acts on, read or not.
Live(b) ==
  {Setting(b.row[k]) : k \in {j \in Flagged(b) :
     /\ b.row[j] # NoRow /\ b.row[j][2] \in Flagged(b)
     /\ b.row[b.row[j][2]] = Rebased(b.row[j])}}

-----------------------------------------------------------------------------
Init ==
  /\ board \in InitialBoards /\ start = board
  /\ backups = <<>> /\ cmd = None /\ pc = "idle" /\ steps = <<>> /\ outcome = "none"
  /\ obeyed = TRUE /\ calm = Coherent(board) /\ commands = 0

Begin(c) ==
  /\ pc = "idle" /\ commands < MaxCommands
  /\ cmd' = c /\ pc' = "read" /\ steps' = <<>> /\ outcome' = "none"
  /\ start' = board /\ obeyed' = TRUE /\ commands' = commands + 1
  /\ calm' = (calm /\ c.op # "restore")
  /\ UNCHANGED <<board, backups>>

EndsAs(how) == pc' = "idle" /\ outcome' = how

\* A roundtrip fails.
Fails(how) == EndsAs(how) /\ calm' = FALSE

Step(what, k) == [do |-> what, key |-> k]

\* Keys in matrix order.
InOrder(keys) ==
  [n \in 1..Cardinality(keys) |-> CHOOSE k \in keys : Cardinality({j \in keys : j <= k}) = n]

\* Both keys are cleared and then read back, before the next pair.
UnpairSteps(p) ==
  LET keys == InOrder(p.keys)
  IN  <<Step("clear", keys[1]), Step("clear", keys[2]),
        Step("cleared", keys[1]), Step("cleared", keys[2])>>

\* The pairs the first n of the named keys are in, each once, in the order they
\* were named.
UnpairPlan[n \in 0..Len(cmd.keys)] ==
  IF n = 0 THEN <<>>
  ELSE LET pair(i) == CHOOSE p \in PairingOf(board, cmd.keys[i]) : TRUE
       IN  IF \E i \in 1..(n - 1) : pair(i) = pair(n) THEN UnpairPlan[n - 1]
           ELSE UnpairPlan[n - 1] \o UnpairSteps(pair(n))

RestoreSteps(what) == [n \in DOMAIN InOrder(Keys) |-> Step(what, InOrder(Keys)[n])]

CommandSteps ==
  CASE cmd.op = "pair"   -> <<Step("pair", cmd.a), Step("paired", cmd.a), Step("paired", cmd.b)>>
    [] cmd.op = "unpair" -> UnpairPlan[Len(cmd.keys)]
    [] OTHER             -> RestoreSteps("restore") \o RestoreSteps("restored")

\* Seeded fault: a key already paired may be paired again.
AcceptedUnchecked ==
  cmd.op = "unpair" => \A k \in ToSet(cmd.keys) : PairingOf(board, k) # {}

\* check_unpaired and resolve_unpair.
Accepted ==
  /\ cmd.op = "pair" => PairingOf(board, cmd.a) = {} /\ PairingOf(board, cmd.b) = {}
  /\ cmd.op = "unpair" => \A k \in ToSet(cmd.keys) : PairingOf(board, k) # {}

\* The sweep of modes and rows, the refusals, the plan.
ReadSocd ==
  /\ pc = "read" /\ cmd.op # "restore"
  /\ \/ ~Coherent(board) /\ EndsAs("inconsistent") /\ UNCHANGED <<steps, calm>>
     \/ Coherent(board) /\ cmd.op = "list" /\ EndsAs("listed") /\ UNCHANGED <<steps, calm>>
     \/ /\ Coherent(board) /\ cmd.op # "list" /\ ~Accepted
        /\ EndsAs("refused") /\ UNCHANGED <<steps, calm>>
     \/ /\ Coherent(board) /\ cmd.op # "list" /\ Accepted /\ cmd.dry
        /\ EndsAs("dry") /\ UNCHANGED <<steps, calm>>
     \/ /\ Coherent(board) /\ cmd.op # "list" /\ Accepted /\ ~cmd.dry
        /\ pc' = "backup" /\ steps' = CommandSteps /\ UNCHANGED <<outcome, calm>>
     \/ Fails("refused") /\ UNCHANGED steps
  /\ UNCHANGED <<board, backups, cmd, start, obeyed, commands>>

ReadRestore ==
  /\ pc = "read" /\ cmd.op = "restore"
  /\ \/ backups = <<>> /\ EndsAs("refused") /\ UNCHANGED steps
     \/ backups # <<>> /\ pc' = "backup" /\ steps' = CommandSteps /\ UNCHANGED outcome
  /\ UNCHANGED <<board, backups, cmd, start, obeyed, calm, commands>>

\* Seeded fault: a snapshot keeps the touch nibble only.
TakenTouch(b) == [mode |-> [k \in Keys |-> [b.mode[k] EXCEPT !.advanced = 0]], was |-> b]

\* A snapshot has the modes.  The board it was taken of is remembered for the
\* properties only.
Taken(b) == [mode |-> b.mode, was |-> b]

SaveBackup ==
  /\ pc = "backup"
  /\ \/ backups' = Append(backups, Taken(board)) /\ pc' = "write" /\ UNCHANGED <<outcome, calm>>
     \/ UNCHANGED backups /\ Fails("refused")
  /\ UNCHANGED <<board, cmd, steps, start, obeyed, commands>>

\* The snapshot being restored: the last before the restore's own.
Source == backups[Len(backups) - 1]

-----------------------------------------------------------------------------
(* Frames.                                                                 *)

\* Clearing the nibble may or may not drop the key's row.
Cleared(b, k, mode) ==
  {[b EXCEPT !.mode[k] = mode],
   [b EXCEPT !.mode[k] = mode, !.row[k] = IF mode.advanced = ADVANCED_SOCD THEN @ ELSE NoRow]}

Paired(b, row) ==
  LET a == row[1]
      c == row[2]
  IN  [b EXCEPT !.mode[a].advanced = ADVANCED_SOCD, !.mode[c].advanced = ADVANCED_SOCD,
                !.row[a] = row, !.row[c] = Rebased(row)]

\* with_advanced_cleared, on the MODE the plan read.
ClearedMode(k) == [start.mode[k] EXCEPT !.advanced = 0]

AsTold(s) ==
  CASE s.do = "pair"  -> {Paired(board, WritePair(cmd.a, cmd.b, cmd.wins))}
    [] s.do = "clear" -> Cleared(board, s.key, ClearedMode(s.key))
    [] OTHER          -> Cleared(board, s.key, Source.mode[s.key])

\* Acknowledged, and ignored or done with the key's touch nibble lost.
OtherThanTold(s) == {board} \cup {[b EXCEPT !.mode[s.key].touch = 0] : b \in AsTold(s)}

Doing == {"pair", "clear", "restore"}

\* Bound: the firmware disobeys once in a command.
SendFrame ==
  /\ pc = "write" /\ steps # <<>> /\ Head(steps).do \in Doing
  /\ steps' = Tail(steps)
  /\ \/ /\ \/ board' \in AsTold(Head(steps)) /\ UNCHANGED obeyed
           \/ obeyed /\ board' \in OtherThanTold(Head(steps)) /\ obeyed' = FALSE
        /\ \/ UNCHANGED <<pc, outcome>> /\ calm' = (calm /\ obeyed')
           \/ Fails("failed")
     \/ UNCHANGED <<board, obeyed>> /\ Fails("failed")
  /\ UNCHANGED <<backups, cmd, start, commands>>

\* Seeded fault: only the nibble is read back.
ConfirmedByNibble(s) ==
  CASE s.do = "paired"  -> board.mode[s.key].advanced = ADVANCED_SOCD
    [] s.do = "cleared" -> board.mode[s.key].advanced = 0
    [] OTHER            -> board.mode[s.key] = Source.mode[s.key]

\* write_socd_pair, remove_socd_pair and verify_restore read each key back.
Confirmed(s) ==
  CASE s.do = "paired"  -> /\ board.mode[s.key].advanced = ADVANCED_SOCD
                           /\ board.row[s.key] # NoRow
                           /\ Setting(board.row[s.key]) = Setting(WritePair(cmd.a, cmd.b, cmd.wins))
    [] s.do = "cleared" -> board.mode[s.key] = ClearedMode(s.key)
    [] OTHER            -> board.mode[s.key] = Source.mode[s.key]

Check ==
  /\ pc = "write" /\ steps # <<>> /\ Head(steps).do \notin Doing
  /\ steps' = Tail(steps)
  /\ \/ Confirmed(Head(steps)) /\ UNCHANGED <<pc, outcome, calm>>
     \/ ~Confirmed(Head(steps)) /\ EndsAs("mismatch") /\ UNCHANGED calm
     \/ Fails("failed")
  /\ UNCHANGED <<board, backups, cmd, start, obeyed, commands>>

Finish ==
  /\ pc = "write" /\ steps = <<>>
  /\ EndsAs("verified")
  /\ UNCHANGED <<board, backups, cmd, steps, start, obeyed, calm, commands>>

Next ==
  \/ \E c \in SocdCommands : Begin(c)
  \/ ReadSocd \/ ReadRestore \/ SaveBackup \/ SendFrame \/ Check \/ Finish

Spec == Init /\ [][Next]_vars

-----------------------------------------------------------------------------
(* Properties.                                                             *)

\* A list that is printed shows every flagged key in one pair exactly, and only
\* pairs the board acts on, never half a pair, whatever unpairs cut short and
\* restores have left behind (read_socd).
ListIsTrue ==
  outcome = "listed" =>
    /\ Pairings(board) = Live(board)
    /\ \A k \in Flagged(board) : Cardinality(PairingOf(board, k)) = 1

\* As long as nothing fails and nothing is restored, no command finds the board
\* inconsistent and no readback disagrees: both spellings of a pairing are
\* recognised, rows left over by unpairs included.
NoFalseAlarm == calm => outcome \notin {"inconsistent", "mismatch"}

\* "verified" means that the pair is live with the winner asked for, or that
\* the pairs named are gone, their keys keep their touch modes and no other
\* key's mode has changed.  What a pair write does to the touch modes is not
\* read back, so that is claimed of a firmware that did as told.
VerifiedIsTrue ==
  /\ outcome = "verified" /\ cmd.op = "pair" =>
       /\ Live(board) = Live(start) \cup {[keys |-> {cmd.a, cmd.b}, wins |-> cmd.wins]}
       /\ obeyed => \A k \in Keys : board.mode[k].touch = start.mode[k].touch
  /\ outcome = "verified" /\ cmd.op = "unpair" =>
       LET gone == {p \in Live(start) : p.keys \cap ToSet(cmd.keys) # {}}
       IN  /\ Live(board) = Live(start) \ gone
           /\ \A k \in Keys : board.mode[k] =
                IF k \in UNION {p.keys : p \in gone} THEN [start.mode[k] EXCEPT !.advanced = 0]
                ELSE start.mode[k]

\* The keys whose pairs a command is to end.
Named(c) == IF c.op = "unpair" THEN ToSet(c.keys) ELSE {}

\* No pair that a command does not name ends, however the command ends: a key
\* may sit in one pair only, so pairing it again would cut off its partner
\* (check_unpaired).
OtherPairsLive ==
  [][cmd # None /\ cmd.op # "restore" =>
       \A p \in Live(board) : p.keys \cap Named(cmd) = {} => p \in Live(board')]_vars

\* An unpair that stops between its two keys leaves a board on which every
\* `wh socd` command refuses.  `wh restore --last`, once verified, brings the
\* pairs of the snapshot back to life if the board has kept their rows.
RestoreHeals ==
  outcome = "verified" /\ cmd.op = "restore" =>
    \A p \in Live(Source.was) :
      (\A k \in p.keys : board.row[k] = Source.was.row[k]) => p \in Live(board)
=============================================================================
