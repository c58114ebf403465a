------------------------------- MODULE Console -------------------------------
(***************************************************************************)
(* The terminal that the picker and `wh tui` take over: the modes it is    *)
(* put in and how each way out undoes them, and the events that wait to be *)
(* read.  A step that sets a mode may fail; one that undoes it is taken by *)
(* the terminal.                                                           *)
(***************************************************************************)
EXTENDS Naturals, Sequences

CONSTANTS
  None,
  Typed,      \* the events an operator may cause, for each program
  MaxTyped,   \* bound: how many of them
  MaxWaiting  \* bound: how many may wait to be read

ASSUME ConsoleAssumption == DOMAIN Typed \subseteq {"picker", "tui"}

VARIABLES
  prog,    \* "picker" or "tui", and "shell" once it has ended
  pc,
  modes,   \* which of "raw", "alt" and "mouse" the terminal is in
  hook,    \* the modes a panic would undo
  how,     \* why the program ends
  input,   \* the events not yet read
  typed

consoleVars == <<prog, pc, modes, hook, how, input, typed>>
inputVars   == <<input, typed>>

ConsoleInit ==
  /\ prog \in DOMAIN Typed /\ pc = "start"
  /\ modes = {} /\ hook = {} /\ how = "none"
  /\ input = <<>> /\ typed = 0

Goto(l) == pc' = l /\ UNCHANGED how
LeaveBy(l, why) == pc' = l /\ how' = why

\* Ends before the terminal is touched.
EndAtOnce == prog' = "shell" /\ LeaveBy("ended", "error") /\ UNCHANGED <<modes, hook, inputVars>>

\* try_init: a panic hook, raw mode, the alternate screen and the buffers, up
\* to the first that fails; whatever was reached is restored.
TryInit(next) ==
  /\ pc = "init"
  /\ hook' = {"raw", "alt"}
  /\ \/ modes' = {"raw", "alt"} /\ Goto(next)
     \/ modes' \in {{}, {"raw"}, {"raw", "alt"}} /\ LeaveBy("restore", "error")
  /\ UNCHANGED <<prog, inputVars>>

\* ratatui::restore.
Restore ==
  /\ pc = "restore"
  /\ modes' = modes \ {"raw", "alt"} /\ Goto("finish")
  /\ UNCHANGED <<prog, hook, inputVars>>

\* A panic runs the hooks, and the program is gone.
Panic ==
  /\ modes' = modes \ hook /\ prog' = "shell" /\ LeaveBy("ended", "panicked")
  /\ UNCHANGED <<hook, inputVars>>

\* The operator types and clicks at any time, also ahead; what comes while the
\* program is not looking is there when it looks next.
Type ==
  /\ pc \in {"read", "poll", "drain"} /\ typed < MaxTyped /\ Len(input) < MaxWaiting
  /\ \E e \in Typed[prog] : input' = Append(input, e)
  /\ typed' = typed + 1
  /\ UNCHANGED <<prog, pc, modes, hook, how>>

\* The next event is taken, or reading fails.
Take == input # <<>> /\ input' = Tail(input) /\ UNCHANGED typed

\* A live keystroke, and not the report of a key that goes up.
is_actionable_press(e) == e.type = "key" /\ e.kind \in {"press", "repeat"}
=============================================================================
