--------------------------- MODULE TerminalProofs ---------------------------
(***************************************************************************)
(* For every set of boards and sizes, whatever the operator types and      *)
(* wherever a step fails: the shell gets its terminal back, the frame is   *)
(* up to date, and what is picked was shown.                               *)
(***************************************************************************)
EXTENDS Terminal, Integers, FiniteSetTheorems, FunctionTheorems, TLAPS

\* What the hook would undo covers what has been done, and each stage has only
\* the modes the steps before it can have set.
ModesAreHooked ==
  /\ modes \subseteq hook \cap {"raw", "alt", "mouse"}
  /\ pc \in {"start", "init", "finish", "ended"} => modes = {}
  /\ pc \in {"mouse", "restore"} => modes \subseteq {"raw", "alt"}
  /\ prog = "picker" => modes \subseteq {"raw", "alt"}
  /\ prog = "shell" => pc = "ended"

LEMMA InitHooked == Init => ModesAreHooked
BY ConsoleAssumption DEF Init, ConsoleInit, ModesAreHooked

\* A program ends where it has nothing left to undo.
LEMMA PickerKeepsHooked == ModesAreHooked /\ PickerNext => ModesAreHooked'
<1> SUFFICES ASSUME ModesAreHooked, PickerNext PROVE ModesAreHooked'
    OBVIOUS
<1> USE DEF ModesAreHooked, Goto, LeaveBy
<1>1. CASE Pick
      BY <1>1 DEF Pick, EndAtOnce
<1>2. CASE InitPicker
      BY <1>2 DEF InitPicker, TryInit
<1>3. CASE DrawPicker
      BY <1>3 DEF DrawPicker
<1>4. CASE ReadKey
      BY <1>4 DEF ReadKey, AfterKey
<1>5. CASE ReadKeyFails
      BY <1>5 DEF ReadKeyFails
<1>6. CASE RestorePicker
      BY <1>6 DEF RestorePicker, Restore
<1>7. CASE FinishPick
      BY <1>7 DEF FinishPick
<1> QED BY <1>1, <1>2, <1>3, <1>4, <1>5, <1>6, <1>7 DEF PickerNext

LEMMA InterfaceKeepsHooked == ModesAreHooked /\ InterfaceNext => ModesAreHooked'
<1> SUFFICES ASSUME ModesAreHooked, InterfaceNext PROVE ModesAreHooked'
    OBVIOUS
<1> USE DEF ModesAreHooked, Goto, LeaveBy, At, Modes
<1>1. CASE ReadBoard
      BY <1>1 DEF ReadBoard, EndAtOnce
<1>2. CASE InitTerminal
      BY <1>2 DEF InitTerminal, TryInit
<1>3. CASE CaptureMouse
      BY <1>3 DEF CaptureMouse
<1>4. CASE Draw
      BY <1>4 DEF Draw, Panic, AtHead
<1>5. CASE Poll
      BY <1>5 DEF Poll
<1>6. CASE Drain
      BY <1>6 DEF Drain
<1>7. CASE DrainEnds
      BY <1>7 DEF DrainEnds
<1>8. CASE TickNothing
      BY <1>8 DEF TickNothing, AtHead
<1>9. CASE TickFails
      BY <1>9 DEF TickFails
<1>10. CASE TickEvent
      BY <1>10 DEF TickEvent
<1>11. CASE Redraw
      BY <1>11 DEF Redraw, Panic
<1>12. CASE Reread
      BY <1>12 DEF Reread
<1>13. CASE Leave
      <2>1. modes' = modes \ {"mouse"} /\ pc' = "restore" /\ UNCHANGED <<prog, hook>> /\ prog = "tui"
            BY <1>13 DEF Leave
      <2> QED BY <2>1
<1>14. CASE RestoreTerminal
      BY <1>14 DEF RestoreTerminal, Restore
<1>15. CASE FinishTui
      BY <1>15 DEF FinishTui
<1>16. CASE Resize
      BY <1>16 DEF Resize
<1> QED BY <1>1, <1>2, <1>3, <1>4, <1>5, <1>6, <1>7, <1>8, <1>9, <1>10, <1>11, <1>12,
           <1>13, <1>14, <1>15, <1>16 DEF InterfaceNext

LEMMA StepKeepsHooked == ModesAreHooked /\ [Next]_vars => ModesAreHooked'
<1> SUFFICES ASSUME ModesAreHooked, [Next]_vars PROVE ModesAreHooked'
    OBVIOUS
<1>1. CASE PickerNext
      BY <1>1, PickerKeepsHooked
<1>2. CASE InterfaceNext
      BY <1>2, InterfaceKeepsHooked
<1>3. CASE Type
      BY <1>3 DEF Type, ModesAreHooked
<1>4. CASE UNCHANGED vars
      BY <1>4 DEF vars, consoleVars, ModesAreHooked
<1> QED BY <1>1, <1>2, <1>3, <1>4 DEF Next

\* Whichever step of entering the terminal failed, and whatever ended the loop, a
\* panic in the middle of a frame included, the modes are undone when the program
\* has ended (run, pick, install_panic_hook).
THEOREM TerminalIsGivenBack == Spec => []ShellRestored
<1>1. ModesAreHooked => ShellRestored
      BY DEF ModesAreHooked, ShellRestored
<1> QED BY <1>1, InitHooked, StepKeepsHooked, PTL DEF Spec

-----------------------------------------------------------------------------
(* The frame keeps up.                                                     *)

Events == (UNION {Typed[p] : p \in {"picker", "tui"}}) \cup {[type |-> "resize"]}

InputTyped == prog \in {"picker", "tui", "shell"} /\ input \in Seq(Events)

ResizeWaits == \E i \in DOMAIN input : input[i].type = "resize"

Follows == drawn = View \/ (drawn = [View EXCEPT !.size = drawn.size] /\ ResizeWaits)

\* From the poll to the tick either a redraw is due or none is needed.
FrameFollows ==
  prog = "tui" =>
    /\ pc = "poll" => Follows
    /\ pc \in {"drain", "tick"} => changed \/ Follows

FrameInv == ModesAreHooked /\ InputTyped /\ FrameFollows

LEMMA InitFollows == Init => FrameInv
BY ConsoleAssumption, InitHooked DEF Init, ConsoleInit, FrameInv, InputTyped, FrameFollows

\* What does not touch the input, the frame or the application keeps Follows.
LEMMA FollowsStays ==
  ASSUME Follows, UNCHANGED <<app, size, drawn, input>> PROVE Follows'
BY DEF Follows, View, ResizeWaits

\* More input is never less of a reason to wait.
LEMMA FollowsWithMore ==
  ASSUME InputTyped, Follows, NEW e \in Events,
         input' = Append(input, e), UNCHANGED <<app, size, drawn>>
  PROVE  Follows'
<1>1. ResizeWaits => ResizeWaits'
  <2> SUFFICES ASSUME NEW i \in DOMAIN input, input[i].type = "resize" PROVE ResizeWaits'
      BY DEF ResizeWaits
  <2>1. i \in DOMAIN input' /\ input'[i] = input[i]
        BY DEF InputTyped
  <2> QED BY <2>1 DEF ResizeWaits
<1> QED BY <1>1 DEF Follows, View

\* A resize is followed, for its event waits.
LEMMA FollowsResize ==
  ASSUME InputTyped, Follows, input' = Append(input, [type |-> "resize"]),
         UNCHANGED <<app, drawn>>
  PROVE  Follows'
<1>1. Len(input) + 1 \in DOMAIN input' /\ input'[Len(input) + 1].type = "resize"
      BY DEF InputTyped, Events
<1>2. ResizeWaits'
      BY <1>1 DEF ResizeWaits
<1>3. drawn' = [View' EXCEPT !.size = drawn'.size]
      BY DEF Follows, View
<1> QED BY <1>2, <1>3 DEF Follows

\* An event that is no change moves nothing, and is no resize.
LEMMA NoChangeMovesNothing ==
  ASSUME NEW e, ~Changes(e) PROVE Handled(e) = app /\ e.type # "resize"
BY DEF Changes, Handled, handle_mouse, is_actionable_press

LEMMA DrainFollows ==
  ASSUME FrameInv, Drain PROVE changed' \/ Follows'
<1> SUFFICES ASSUME ~changed' PROVE Follows'
    OBVIOUS
<1>1. input # <<>> /\ input' = Tail(input) /\ ~changed /\ ~Changes(Head(input))
      BY DEF Drain, Take
<1>2. app' = app /\ Head(input).type # "resize"
      BY <1>1, NoChangeMovesNothing DEF Drain
<1>3. Follows
      BY <1>1 DEF FrameInv, FrameFollows, Drain, At
<1>4. ResizeWaits => ResizeWaits'
  <2> SUFFICES ASSUME NEW i \in DOMAIN input, input[i].type = "resize" PROVE ResizeWaits'
      BY DEF ResizeWaits
  <2>1. i # 1 /\ i \in 1..Len(input)
        BY <1>1, <1>2 DEF FrameInv, InputTyped
  <2>2. i - 1 \in DOMAIN input' /\ input'[i - 1] = input[i]
        BY <1>1, <2>1 DEF FrameInv, InputTyped
  <2> QED BY <2>2 DEF ResizeWaits
<1> QED BY <1>2, <1>3, <1>4 DEF Follows, View, Drain

LEMMA InputStaysTyped == ModesAreHooked /\ InputTyped /\ [Next]_vars => InputTyped'
<1> SUFFICES ASSUME ModesAreHooked, InputTyped, [Next]_vars PROVE InputTyped'
    OBVIOUS
<1> DEFINE Known == prog' \in {prog, "shell"}
<1>1. \A e \in Events : Known /\ input' = Append(input, e) => InputTyped'
      BY DEF InputTyped
<1>2. Known /\ Take => InputTyped'
      BY DEF InputTyped, Take
<1>3. Known /\ input' \in {<<>>, input} => InputTyped'
  <2>1. CASE input' = input
        BY <2>1 DEF InputTyped
  <2>2. CASE input' = <<>>
    <3>1. input' \in Seq(Events)
          BY <2>2
    <3> QED BY <3>1 DEF InputTyped
  <2> QED BY <2>1, <2>2
<1>4. CASE PickerNext
      BY <1>2, <1>3, <1>4
      DEF PickerNext, Pick, InitPicker, DrawPicker, ReadKey, ReadKeyFails, RestorePicker, FinishPick,
          TryInit, Restore, EndAtOnce, inputVars
<1>5. CASE InterfaceNext
  <2>1. CASE Drain
        BY <1>2, <2>1 DEF Drain, Modes
  <2>2. CASE Resize
        BY <1>1, <2>2 DEF Resize, Modes, Events
  <2>3. CASE Leave
        BY <1>3, <2>3 DEF Leave, Modes
  <2>4. CASE Draw \/ Redraw
        BY <1>3, <2>4 DEF Modes, Draw, Redraw, Panic, inputVars
  <2>5. CASE ReadBoard \/ InitTerminal \/ CaptureMouse \/ RestoreTerminal \/ FinishTui
        BY <1>3, <2>5 DEF Modes, ReadBoard, InitTerminal, CaptureMouse, RestoreTerminal, FinishTui, TryInit,
                          Restore, EndAtOnce, inputVars
  <2>6. CASE Poll \/ DrainEnds \/ TickNothing \/ TickFails \/ TickEvent \/ Reread
        BY <1>3, <2>6 DEF Modes, Poll, DrainEnds, TickNothing, TickFails, TickEvent, Reread, inputVars
  <2> QED BY <1>5, <2>1, <2>2, <2>3, <2>4, <2>5, <2>6 DEF InterfaceNext
<1>6. CASE Type
  <2>1. PICK e \in Typed[prog] : input' = Append(input, e)
        BY <1>6 DEF Type
  <2>2. prog \in {"picker", "tui"} /\ prog' = prog
        BY <1>6 DEF Type, InputTyped, ModesAreHooked
  <2> QED BY <1>1, <2>1, <2>2 DEF Events
<1>7. CASE UNCHANGED vars
      BY <1>3, <1>7 DEF vars, consoleVars
<1> QED BY <1>4, <1>5, <1>6, <1>7 DEF Next

LEMMA StepFollows == FrameInv /\ [Next]_vars => FrameInv'
<1> SUFFICES ASSUME FrameInv, [Next]_vars PROVE FrameFollows'
    BY StepKeepsHooked, InputStaysTyped DEF FrameInv
<1>1. InputTyped
      BY DEF FrameInv
<1>2. FrameFollows /\ prog = "tui" =>
        /\ pc = "poll" => Follows
        /\ pc \in {"drain", "tick"} => changed \/ Follows
      BY DEF FrameFollows
<1>3. FrameFollows
      BY DEF FrameInv
\* The stages outside the loop, and the picker, are none of these three.
<1>4. prog' # "tui" \/ pc' \notin {"poll", "drain", "tick"} => FrameFollows'
      BY DEF FrameFollows
<1>5. CASE PickerNext
      BY <1>4, <1>5
      DEF PickerNext, Pick, InitPicker, DrawPicker, ReadKey, ReadKeyFails, RestorePicker, FinishPick,
          TryInit, Restore, EndAtOnce
<1>6. CASE InterfaceNext
  <2>1. CASE ReadBoard \/ InitTerminal \/ CaptureMouse \/ Leave \/ RestoreTerminal \/ FinishTui
        BY <1>4, <2>1 DEF ReadBoard, InitTerminal, CaptureMouse, Leave, RestoreTerminal, FinishTui,
                          TryInit, Restore, EndAtOnce, Goto, LeaveBy
  <2>2. CASE Redraw \/ Reread \/ TickFails \/ TickEvent
        BY <1>4, <2>2 DEF Redraw, Reread, TickFails, TickEvent, Panic, Goto, LeaveBy
  <2>3. CASE Draw
    <3>1. CASE pc' = "poll"
      <4>1. drawn' = View /\ UNCHANGED <<app, size>>
            BY <2>3, <3>1 DEF Draw, Panic, LeaveBy
      <4>2. Follows'
            BY <4>1 DEF Follows, View
      <4> QED BY <4>2, <3>1 DEF FrameFollows
    <3> QED BY <1>4, <2>3, <3>1 DEF Draw, Panic, Goto, LeaveBy, AtHead
  <2>4. CASE Poll
    <3>1. Follows /\ UNCHANGED <<app, size, drawn, input>>
          BY <1>2, <1>3, <2>4 DEF Poll, At, inputVars
    <3>2. Follows'
          BY <3>1, FollowsStays
    <3> QED BY <3>2 DEF FrameFollows
  <2>5. CASE Drain
    <3>1. changed' \/ Follows'
          BY <2>5, DrainFollows
    <3>2. pc' = "drain"
          BY <2>5 DEF Drain, Goto
    <3> QED BY <3>1, <3>2 DEF FrameFollows
  <2>6. CASE DrainEnds
    <3>1. (changed \/ Follows) /\ UNCHANGED <<app, size, drawn, input, changed>> /\ pc' = "tick"
          BY <1>2, <1>3, <2>6 DEF DrainEnds, At, Goto, inputVars, interfaceVars
    <3>2. changed' \/ Follows'
          BY <3>1, FollowsStays
    <3> QED BY <3>1, <3>2 DEF FrameFollows
  <2>7. CASE TickNothing
    <3>1. CASE pc' = "poll"
      <4>1. Follows /\ UNCHANGED <<app, size, drawn, input>>
            BY <1>2, <1>3, <2>7, <3>1 DEF TickNothing, At, Goto, inputVars, interfaceVars
      <4>2. Follows'
            BY <4>1, FollowsStays
      <4> QED BY <4>2, <3>1 DEF FrameFollows
    <3> QED BY <1>4, <2>7, <3>1 DEF TickNothing, Goto, AtHead
  <2>8. CASE Resize
    <3>1. /\ input' = Append(input, [type |-> "resize"])
          /\ UNCHANGED <<app, drawn, changed, prog, pc>>
          BY <2>8 DEF Resize, Modes
    <3>2. Follows => Follows'
          BY <1>1, <3>1, FollowsResize
    <3> QED BY <1>2, <1>3, <3>1, <3>2 DEF FrameFollows
  <2> QED BY <1>6, <2>1, <2>2, <2>3, <2>4, <2>5, <2>6, <2>7, <2>8 DEF InterfaceNext
<1>7. CASE Type /\ UNCHANGED <<pickerVars, interfaceVars>>
  <2>1. UNCHANGED <<app, size, drawn, changed, prog, pc>>
        BY <1>7 DEF Type, interfaceVars
  <2>2. CASE prog = "tui"
    <3>1. PICK e \in Typed[prog] : input' = Append(input, e)
          BY <1>7 DEF Type
    <3>2. e \in Events
          BY <2>2, <3>1 DEF Events
    <3>3. Follows => Follows'
          BY <1>1, <2>1, <3>1, <3>2, FollowsWithMore
    <3> QED BY <1>2, <1>3, <2>1, <3>3 DEF FrameFollows
  <2> QED BY <1>4, <2>1, <2>2
<1>8. CASE UNCHANGED vars
  <2>1. UNCHANGED <<app, size, drawn, changed, prog, pc, input>>
        BY <1>8 DEF vars, consoleVars, interfaceVars
  <2>2. Follows => Follows'
        BY <2>1, FollowsStays
  <2> QED BY <1>2, <1>3, <2>1, <2>2 DEF FrameFollows
<1> QED BY <1>5, <1>6, <1>7, <1>8 DEF Next

\* At the head of the loop the frame shows the application as it is, on a terminal
\* of the size it has or with the event of its resize still to be read, whatever
\* has been typed, clicked or heard from the board (event_loop, apply_event).
THEOREM FrameIsAlwaysCurrent == Spec => []FrameIsCurrent
<1>1. FrameInv => FrameIsCurrent
      BY DEF FrameInv, FrameFollows, Follows, ResizeWaits, FrameIsCurrent, At
<1> QED BY <1>1, InitFollows, StepFollows, PTL DEF Spec

-----------------------------------------------------------------------------
(* What is picked.                                                         *)

\* The n-th number of a finite set is there for every n up to its size, is every
\* one of them in turn, and grows with n.
LEMMA NthIs ==
  ASSUME NEW N \in Nat, NEW S \in SUBSET (1..N)
  PROVE  /\ Cardinality(S) \in Nat
         /\ \A n \in 1..Cardinality(S) : Nth(S, n) \in S
         /\ \A i \in S : \E n \in 1..Cardinality(S) : Nth(S, n) = i
         /\ \A m, n \in 1..Cardinality(S) : m < n => Nth(S, m) < Nth(S, n)
<1> DEFINE Below(i) == {j \in S : j < i}
           rank == [i \in S |-> Cardinality(Below(i)) + 1]
<1>0. PICK total : total = Cardinality(S)
      OBVIOUS
<1>1. IsFiniteSet(S) /\ total \in Nat /\ S \subseteq Nat
  <2>1. IsFiniteSet(1..N)
        BY FS_Interval
  <2>2. IsFiniteSet(S)
        BY <2>1, FS_Subset
  <2>3. total \in Nat
        BY <1>0, <2>2, FS_CardinalityType
  <2>4. S \subseteq Nat
        OBVIOUS
  <2> QED BY <2>2, <2>3, <2>4
<1>2. \A i \in S : IsFiniteSet(Below(i)) /\ Cardinality(Below(i)) \in Nat
      BY <1>1, FS_Subset, FS_CardinalityType
<1>3. ASSUME NEW i \in S PROVE Cardinality(Below(i)) + 1 <= total
  <2>1. Below(i) \cup {i} \in SUBSET S /\ i \notin Below(i)
        OBVIOUS
  <2>2. Cardinality(Below(i) \cup {i}) = Cardinality(Below(i)) + 1
        BY <1>2, <2>1, FS_AddElement
  <2> HIDE DEF Below
  <2>3. Cardinality(Below(i) \cup {i}) <= Cardinality(S)
        BY <1>1, <2>1, FS_Subset
  <2> QED BY <1>0, <2>2, <2>3
<1>4. ASSUME NEW i \in S, NEW k \in S, i < k PROVE rank[i] < rank[k]
  <2>1. Below(i) \cup {i} \in SUBSET Below(k) /\ i \notin Below(i)
    <3>1. i \in Nat /\ k \in Nat /\ i \in Below(k)
          BY <1>1, <1>4
    <3>2. \A j \in S : j \in Nat
          BY <1>1
    <3>3. \A j \in S : j < i => j < k
          BY <1>4, <3>1, <3>2
    <3>4. \A j \in Below(i) : j \in Below(k)
          BY <3>3
    <3>5. ~(i < i)
          BY <3>1
    <3>6. i \notin Below(i)
          BY <3>5
    <3> HIDE DEF Below
    <3>7. Below(i) \cup {i} \subseteq Below(k)
          BY <3>1, <3>4
    <3> QED BY <3>6, <3>7
  <2>2. Cardinality(Below(i) \cup {i}) = Cardinality(Below(i)) + 1
        BY <1>2, <2>1, FS_AddElement
  <2>3. rank[i] = Cardinality(Below(i)) + 1 /\ rank[k] = Cardinality(Below(k)) + 1
        OBVIOUS
  <2> HIDE DEF Below, rank
  <2>4. Cardinality(Below(i) \cup {i}) <= Cardinality(Below(k))
        BY <1>2, <2>1, FS_Subset
  <2> QED BY <1>2, <2>2, <2>3, <2>4
<1>5. rank \in [S -> 1..total]
      BY <1>1, <1>2, <1>3
<1>6. ASSUME NEW i \in S, NEW k \in S, rank[i] = rank[k] PROVE i = k
  <2>1. rank[i] \in Nat /\ rank[k] \in Nat
        BY <1>5
  <2> HIDE DEF rank
  <2> QED BY <1>4, <1>6, <2>1
<1>7. rank \in Surjection(S, 1..total)
  <2> HIDE DEF rank
  <2>1. rank \in Injection(S, 1..total)
        BY <1>5, <1>6, Fun_IsInj
  <2>2. IsFiniteSet(1..total) /\ Cardinality(1..total) = total
        BY <1>1, FS_Interval
  <2> QED BY <1>0, <2>1, <2>2, FS_Injection
<1>8. ASSUME NEW n \in 1..total PROVE Nth(S, n) \in S /\ rank[Nth(S, n)] = n
  <2>1. \E i \in S : rank[i] = n
    <3> HIDE DEF rank
    <3>1. \A t \in 1..total : \E i \in S : rank[i] = t
          BY <1>7, Fun_SurjectionProperties
    <3> QED BY <3>1
  <2>2. \E i \in S : Cardinality({j \in S : j < i}) = n - 1
    <3>1. PICK i \in S : rank[i] = n
          BY <2>1
    <3>2. Cardinality(Below(i)) + 1 = n
          BY <3>1
    <3>3. Cardinality(Below(i)) \in Nat
          BY <1>2
    <3>4. Cardinality(Below(i)) = n - 1
      <4> HIDE DEF Below
      <4> QED BY <3>2, <3>3
    <3> QED BY <3>4
  <2>3. Nth(S, n) \in S /\ Cardinality({j \in S : j < Nth(S, n)}) = n - 1
        BY <2>2, Zenon DEF Nth
  <2> QED BY <1>1, <2>3
<1>9. ASSUME NEW i \in S PROVE \E n \in 1..total : Nth(S, n) = i
  <2>1. rank[i] \in 1..total
        BY <1>5
  <2> HIDE DEF rank
  <2>2. Nth(S, rank[i]) \in S /\ rank[Nth(S, rank[i])] = rank[i]
        BY <1>8, <2>1
  <2> QED BY <1>6, <2>1, <2>2
<1>10. ASSUME NEW m \in 1..total, NEW n \in 1..total, m < n PROVE Nth(S, m) < Nth(S, n)
  <2> HIDE DEF rank
  <2>1. /\ Nth(S, m) \in S /\ rank[Nth(S, m)] = m
        /\ Nth(S, n) \in S /\ rank[Nth(S, n)] = n
        BY <1>8
  <2>2. m \in Nat /\ n \in Nat /\ ~(n < m) /\ m # n
        BY <1>1, <1>10
  <2>3. Nth(S, m) # Nth(S, n) /\ ~(Nth(S, n) < Nth(S, m))
        BY <1>4, <2>1, <2>2
  <2>4. Nth(S, m) \in Nat /\ Nth(S, n) \in Nat
        BY <1>1, <2>1
  <2> QED BY <2>3, <2>4
<1> QED BY <1>0, <1>1, <1>8, <1>9, <1>10

\* What the frame shows is what will be returned, from the frame to the key that
\* answers it and, if that is Enter, to the end.
PickFollows ==
  prog = "picker" =>
    /\ usages \in Universes /\ selected \in [DOMAIN usages -> BOOLEAN]
    /\ pc \in {"start", "init", "draw", "read"} => how = "none"
    /\ pc = "read" \/ how = "accept" => boxes = selected
    /\ picked = None

PickInv == PickFollows /\ PickedIsShown

\* What PickedIsShown says of the list, the frame and what was returned.
Returns(p, u, shown) ==
  /\ p # <<>>
  /\ {p[n] : n \in DOMAIN p} = {u[i] : i \in {j \in DOMAIN u : shown[j]}}
  /\ \A m, n \in DOMAIN p : m < n => \E i, j \in DOMAIN u : i < j /\ u[i] = p[m] /\ u[j] = p[n]

LEMMA PickedReturns ==
  /\ PickedIsShown <=> (picked # None => Returns(picked, usages, boxes))
  /\ PickedIsShown' <=> (picked' # None => Returns(picked', usages', boxes'))
<1>1. PickedIsShown <=> (picked # None => Returns(picked, usages, boxes))
      BY Zenon DEF PickedIsShown, Returns, Ticked
<1>2. PickedIsShown' <=> (picked' # None => Returns(picked', usages', boxes'))
      BY Zenon DEF PickedIsShown, Returns, Ticked
<1> QED BY <1>1, <1>2

\* No step that leaves the list, the frame and what was returned can matter.
LEMMA PickedStays ==
  ASSUME PickedIsShown, UNCHANGED <<usages, boxes, picked>> PROVE PickedIsShown'
BY PickedReturns

LEMMA InitPicks == Init => PickInv
BY DEF Init, ConsoleInit, PickerInit, PickInv, PickFollows, PickedIsShown

LEMMA SelectionIs ==
  ASSUME usages \in Seq(Nat), Selection # <<>>
  PROVE  Returns(Selection, usages, selected)
<1> DEFINE S == Ticked(selected)
<1>1. Selection = [n \in 1..Cardinality(S) |-> usages[Nth(S, n)]]
      BY DEF Selection
<1>2. S \in SUBSET (1..Len(usages)) /\ Len(usages) \in Nat /\ DOMAIN usages = 1..Len(usages)
      BY DEF Ticked
<1> HIDE DEF S
<1>3. /\ \A n \in 1..Cardinality(S) : Nth(S, n) \in S
      /\ \A i \in S : \E n \in 1..Cardinality(S) : Nth(S, n) = i
      /\ \A m, n \in 1..Cardinality(S) : m < n => Nth(S, m) < Nth(S, n)
      BY <1>2, NthIs
<1>4. DOMAIN Selection = 1..Cardinality(S) /\ \A n \in 1..Cardinality(S) : Selection[n] = usages[Nth(S, n)]
      BY <1>1
<1>5. PICK p : p = Selection
      OBVIOUS
<1>6. p # <<>> /\ DOMAIN p = 1..Cardinality(S) /\ \A n \in 1..Cardinality(S) : p[n] = usages[Nth(S, n)]
      BY <1>4, <1>5
<1>7. {p[n] : n \in DOMAIN p} = {usages[i] : i \in S}
      BY <1>3, <1>6
<1>8. ASSUME NEW m \in DOMAIN p, NEW n \in DOMAIN p, m < n
      PROVE  \E i, j \in DOMAIN usages : i < j /\ usages[i] = p[m] /\ usages[j] = p[n]
  <2>1. Nth(S, m) \in DOMAIN usages /\ Nth(S, n) \in DOMAIN usages /\ Nth(S, m) < Nth(S, n)
        BY <1>2, <1>3, <1>6, <1>8
  <2> QED BY <1>6, <2>1
<1>9. S = {j \in DOMAIN usages : selected[j]}
      BY DEF S, Ticked
<1>10. {p[n] : n \in DOMAIN p} = {usages[i] : i \in {j \in DOMAIN usages : selected[j]}}
       BY <1>7, <1>9
<1>11. Returns(p, usages, selected)
       BY <1>6, <1>8, <1>10 DEF Returns
<1> QED BY <1>5, <1>11

LEMMA StepPicks == PickInv /\ [Next]_vars => PickInv'
<1> SUFFICES ASSUME PickInv, [Next]_vars PROVE PickInv'
    OBVIOUS
<1>1. CASE PickerNext
  <2>1. prog = "picker" /\ prog' \in {"picker", "shell"}
        BY <1>1 DEF PickerNext, Pick, InitPicker, DrawPicker, ReadKey, ReadKeyFails, RestorePicker,
                    FinishPick, TryInit, Restore, EndAtOnce
  <2>2. /\ usages \in Universes /\ selected \in [DOMAIN usages -> BOOLEAN]
        /\ pc \in {"start", "init", "draw", "read"} => how = "none"
        /\ pc = "read" \/ how = "accept" => boxes = selected
        /\ picked = None
        BY <2>1 DEF PickInv, PickFollows
  <2>3. CASE Pick \/ InitPicker \/ ReadKeyFails \/ RestorePicker
    <3>1. UNCHANGED pickerVars
          BY <2>3 DEF Pick, InitPicker, ReadKeyFails, RestorePicker
    <3>2. PickedIsShown'
          BY <3>1, PickedStays DEF PickInv, pickerVars, pickState
    <3>3. PickFollows'
          BY <2>2, <2>3, <3>1 DEF Pick, InitPicker, ReadKeyFails, RestorePicker, TryInit, Restore, EndAtOnce,
                                  Goto, LeaveBy, PickFollows, pickerVars, pickState
    <3> QED BY <3>2, <3>3 DEF PickInv
  <2>4. CASE DrawPicker
    <3>1. /\ UNCHANGED <<usages, selected, picked>> /\ how = "none"
          /\ \/ boxes' = selected /\ how' = how
             \/ pc' = "restore" /\ how' = "error"
          BY <2>2, <2>4 DEF DrawPicker, pickState, Goto, LeaveBy
    <3> QED BY <2>2, <3>1, <2>4 DEF PickInv, PickFollows, PickedIsShown, DrawPicker, Goto, LeaveBy
  <2>5. CASE ReadKey
    <3>1. /\ UNCHANGED <<usages, boxes, picked>> /\ pc = "read" /\ how = "none" /\ boxes = selected
          BY <2>2, <2>5 DEF ReadKey, Apply, pickState
    <3>2. CASE ~is_actionable_press(Head(input))
      <4>1. UNCHANGED selected /\ pc' = "draw" /\ how' = how
            BY <2>5, <3>2 DEF ReadKey, Goto, pickState
      <4> QED BY <2>2, <3>1, <4>1 DEF PickInv, PickFollows, PickedIsShown
    <3>3. CASE is_actionable_press(Head(input))
      <4>1. PICK code : code = Head(input).code
            OBVIOUS
      <4>2. selected' = Checked(code) /\ AfterKey(code, "draw")
            BY <2>5, <3>3, <4>1 DEF ReadKey, Apply
      <4>3. selected' \in [DOMAIN usages -> BOOLEAN]
            BY <2>2, <4>2 DEF Checked
      <4>4. CASE code = "enter"
        <5>1. selected' = selected /\ pc' = "restore"
              BY <4>2, <4>4 DEF Checked, AfterKey, LeaveBy
        <5> QED BY <2>2, <3>1, <4>3, <5>1 DEF PickInv, PickFollows, PickedIsShown
      <4>5. CASE code # "enter"
        <5>1. \/ pc' = "restore" /\ how' = "cancel"
              \/ pc' = "draw" /\ how' = how
              BY <4>2, <4>5 DEF AfterKey, LeaveBy, Goto
        <5> QED BY <2>2, <3>1, <4>3, <5>1 DEF PickInv, PickFollows, PickedIsShown
      <4> QED BY <4>4, <4>5
    <3> QED BY <3>2, <3>3
  <2>6. CASE FinishPick
    <3>1. /\ prog' = "shell" /\ UNCHANGED <<usages, selected, boxes>>
          /\ picked' = IF how = "accept" /\ Selection # <<>> THEN Selection ELSE None
          BY <2>6 DEF FinishPick, pickState
    <3>2. PickedIsShown'
      <4> SUFFICES ASSUME picked' # None PROVE PickedIsShown'
          BY DEF PickedIsShown
      <4>1. picked' = Selection /\ Selection # <<>> /\ boxes = selected /\ usages \in Seq(Nat)
            BY <2>2, <3>1, PickerAssumption
      <4>2. Returns(picked', usages', boxes')
            BY <3>1, <4>1, SelectionIs
      <4> QED BY <4>2, PickedReturns
    <3> QED BY <3>1, <3>2 DEF PickInv, PickFollows
  <2> QED BY <1>1, <2>3, <2>4, <2>5, <2>6 DEF PickerNext
<1>2. CASE InterfaceNext /\ UNCHANGED pickerVars
  <2>1. prog = "tui" /\ prog' # "picker"
        BY <1>2 DEF InterfaceNext, Modes, At, AtHead, ReadBoard, InitTerminal, CaptureMouse, Draw, Poll, Drain,
                    DrainEnds, TickNothing, TickFails, TickEvent, Redraw, Reread, Leave, RestoreTerminal,
                    FinishTui, Resize, TryInit, Restore, EndAtOnce, Panic
  <2>2. PickedIsShown'
        BY <1>2, PickedStays DEF PickInv, pickerVars, pickState
  <2> QED BY <2>1, <2>2 DEF PickInv, PickFollows
<1>3. CASE UNCHANGED <<prog, pc, how, usages, selected, boxes, picked>>
      BY <1>3, PickedStays DEF PickInv, PickFollows
<1> QED BY <1>1, <1>2, <1>3 DEF Next, Type, vars, consoleVars, pickerVars, pickState

\* What the picker returns is what the frame that Enter answered showed checked:
\* those keys, at least one, in the order of the board, however many keys were
\* typed ahead (pick, PickerState::apply, PickerState::finish).
THEOREM PickIsAlwaysShown == Spec => []PickedIsShown
<1>1. PickInv => PickedIsShown
      BY DEF PickInv
<1> QED BY <1>1, InitPicks, StepPicks, PTL DEF Spec

=============================================================================
