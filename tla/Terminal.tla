------------------------------ MODULE Terminal ------------------------------
(***************************************************************************)
(* A `wh` that takes over the terminal, for the picker of a command or for *)
(* `wh tui`, and an operator who types, clicks and resizes at any time.    *)
(***************************************************************************)
EXTENDS Picker, Interface

vars == <<consoleVars, pickerVars, interfaceVars>>

Init ==
  /\ ConsoleInit /\ PickerInit /\ InterfaceInit
  /\ prog = "picker" => app.board = CHOOSE b \in Boards : TRUE
  /\ prog = "picker" => size = CHOOSE s \in Sizes : TRUE
  /\ prog = "tui" => usages = <<>>

Next ==
  \/ PickerNext /\ UNCHANGED interfaceVars
  \/ InterfaceNext /\ UNCHANGED pickerVars
  \/ Type /\ UNCHANGED <<pickerVars, interfaceVars>>

Spec == Init /\ [][Next]_vars

-----------------------------------------------------------------------------
(* Properties.                                                             *)

\* The shell gets its terminal back as it was, whichever step failed half way,
\* whatever ended the loop, a panic in the middle of a frame included.
ShellRestored == prog = "shell" => modes = {}
=============================================================================
