------------------------------- MODULE Picker -------------------------------
(***************************************************************************)
(* The picker of `--pick`: a list of the board's keys with a box each, a   *)
(* cursor, and a loop that draws the list and reads one event.             *)
(***************************************************************************)
EXTENDS Console, FiniteSets

CONSTANTS
  PAGE,
  Universes    \* the keys a board may report, in its order

ASSUME PickerAssumption == PAGE \in Nat \ {0} /\ \A u \in Universes : u \in Seq(Nat)

VARIABLES
  usages, selected, cursor,   \* PickerState
  boxes,                      \* what the last frame showed of it
  picked                      \* what pick() has returned

pickState  == <<usages, selected, cursor>>
pickerVars == <<pickState, boxes, picked>>

PickerInit ==
  /\ usages \in Universes
  /\ selected = [i \in DOMAIN usages |-> FALSE] /\ cursor = 1
  /\ boxes = None /\ picked = None

\* Not on a terminal, or nothing to pick from: refused before it is touched.
Pick ==
  /\ prog = "picker" /\ pc = "start"
  /\ \E is_tty \in BOOLEAN :
       IF is_tty /\ usages # <<>>
       THEN Goto("init") /\ UNCHANGED <<prog, modes, hook, inputVars>>
       ELSE EndAtOnce
  /\ UNCHANGED pickerVars

InitPicker == prog = "picker" /\ TryInit("draw") /\ UNCHANGED pickerVars

DrawPicker ==
  /\ prog = "picker" /\ pc = "draw"
  /\ \/ boxes' = selected /\ Goto("read")
     \/ UNCHANGED boxes /\ LeaveBy("restore", "error")
  /\ UNCHANGED <<prog, modes, hook, inputVars, pickState, picked>>

\* Where the cursor goes.
Moved(code) ==
  LET last == Len(usages)
      up(n)   == IF cursor > n THEN cursor - n ELSE 1
      down(n) == IF cursor + n < last THEN cursor + n ELSE last
  IN  CASE code = "up"       -> up(1)
        [] code = "down"     -> down(1)
        [] code = "pageup"   -> up(PAGE)
        [] code = "pagedown" -> down(PAGE)
        [] code = "home"     -> 1
        [] code = "end"      -> last
        [] OTHER             -> cursor

\* Space checks or clears one box, "a" all of them.
Checked(code) ==
  CASE code = "space" -> [selected EXCEPT ![cursor] = ~@]
    [] code = "a"     -> LET all == \A i \in DOMAIN selected : selected[i]
                         IN  [i \in DOMAIN selected |-> ~all]
    [] OTHER          -> selected

Apply(code) == selected' = Checked(code) /\ cursor' = Moved(code) /\ UNCHANGED usages

AfterKey(code, next) ==
  CASE code = "enter"       -> LeaveBy("restore", "accept")
    [] code \in {"q", "esc"} -> LeaveBy("restore", "cancel")
    [] OTHER                -> Goto(next)

\* Seeded fault: what is typed ahead is read before the next frame.
ReadKeyAhead ==
  /\ prog = "picker" /\ pc = "read"
  /\ Take
  /\ LET e == Head(input)
     IN  IF is_actionable_press(e)
         THEN Apply(e.code) /\ AfterKey(e.code, IF Len(input) > 1 THEN "read" ELSE "draw")
         ELSE UNCHANGED pickState /\ Goto("draw")
  /\ UNCHANGED <<prog, modes, hook, boxes, picked>>

\* One event, then the next frame.
ReadKey ==
  /\ prog = "picker" /\ pc = "read"
  /\ Take
  /\ LET e == Head(input)
     IN  IF is_actionable_press(e)
         THEN Apply(e.code) /\ AfterKey(e.code, "draw")
         ELSE UNCHANGED pickState /\ Goto("draw")
  /\ UNCHANGED <<prog, modes, hook, boxes, picked>>

ReadKeyFails ==
  /\ prog = "picker" /\ pc = "read"
  /\ LeaveBy("restore", "error")
  /\ UNCHANGED <<prog, modes, hook, inputVars, pickerVars>>

RestorePicker == prog = "picker" /\ Restore /\ UNCHANGED pickerVars

Ticked(checks) == {i \in DOMAIN usages : checks[i]}

\* The number in S with n - 1 below it there.
Nth(S, n) == CHOOSE i \in S : Cardinality({j \in S : j < i}) = n - 1

\* The usages behind the checked boxes, in the order of the board.
Selection == [n \in 1..Cardinality(Ticked(selected)) |-> usages[Nth(Ticked(selected), n)]]

\* The selection, unless it is empty or was not accepted.
FinishPick ==
  /\ prog = "picker" /\ pc = "finish"
  /\ prog' = "shell" /\ Goto("ended")
  /\ picked' = IF how = "accept" /\ Selection # <<>> THEN Selection ELSE None
  /\ UNCHANGED <<modes, hook, inputVars, pickState, boxes>>

PickerNext ==
  \/ Pick \/ InitPicker \/ DrawPicker \/ ReadKey \/ ReadKeyFails \/ RestorePicker \/ FinishPick

-----------------------------------------------------------------------------
(* Properties.                                                             *)

\* What a command goes on to write is what the operator last saw checked, on
\* the frame that Enter answered: at least one key, each once and as the board
\* orders them, however many keys were typed ahead, repeated or released.
PickedIsShown ==
  picked # None =>
    /\ picked # <<>>
    /\ {picked[n] : n \in DOMAIN picked} = {usages[i] : i \in Ticked(boxes)}
    /\ \A m, n \in DOMAIN picked : m < n =>
         \E i, j \in DOMAIN usages : i < j /\ usages[i] = picked[m] /\ usages[j] = picked[n]
=============================================================================
