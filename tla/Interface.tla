------------------------------ MODULE Interface ------------------------------
(***************************************************************************)
(* The loop of `wh tui` as its operator meets it: keys and clicks, tabs    *)
(* and sub-tabs, resizes, and when a frame is drawn.  Of the session only  *)
(* what App::tick makes of it is here: nothing, an edge, a re-read that    *)
(* ends in a board, in time or not; Tui has the session itself.            *)
(***************************************************************************)
EXTENDS Console, Screen

CONSTANT MaxEdges   \* bound: how many events come from the board

VARIABLES
  app,      \* what App holds beside the rectangles
  size,     \* of the terminal
  drawn,    \* the view of the last frame, whose rectangles clicks go by
  changed,  \* a redraw is due
  edges

interfaceVars == <<app, size, drawn, changed, edges>>

View ==
  [size |-> size, tab |-> app.tab, sub |-> app.sub, locked |-> app.locked,
   status |-> app.status, board |-> app.board]

InterfaceInit ==
  /\ \E b \in Boards :
       app = [quit |-> FALSE, tab |-> "ActuationPoint", sub |-> "General", locked |-> FALSE,
              status |-> "none", board |-> b]
  /\ size \in Sizes
  /\ drawn = None /\ changed = FALSE /\ edges = 0

At(l) == prog = "tui" /\ pc = l
Modes == <<prog, modes, hook>>

\* The board is read before the terminal is touched.
ReadBoard ==
  /\ At("start")
  /\ \/ Goto("init") /\ UNCHANGED <<Modes, inputVars>>
     \/ EndAtOnce
  /\ UNCHANGED interfaceVars

InitTerminal == prog = "tui" /\ TryInit("mouse") /\ UNCHANGED interfaceVars

\* EnableMouseCapture, then a hook on top of ratatui's own.
CaptureMouse ==
  /\ At("mouse")
  /\ \/ modes' = modes \cup {"mouse"} /\ hook' = hook \cup {"mouse"} /\ Goto("draw")
     \/ UNCHANGED <<modes, hook>> /\ LeaveBy("restore", "error")
  /\ UNCHANGED <<prog, inputVars, interfaceVars>>

AtHead == IF app.quit THEN "leave" ELSE "poll"

\* The frame is as large as the terminal is by now.
Draw ==
  /\ At("draw")
  /\ IF Panics(View) THEN Panic /\ UNCHANGED drawn
     ELSE /\ \/ drawn' = View /\ Goto(AtHead)
             \/ UNCHANGED drawn /\ LeaveBy("leave", "error")
          /\ UNCHANGED <<Modes, inputVars>>
  /\ UNCHANGED <<app, size, changed, edges>>

\* Is there an event, now or in 15 ms?
Poll ==
  /\ At("poll")
  /\ changed' = FALSE
  /\ \/ Goto(IF input # <<>> THEN "drain" ELSE "tick")
     \/ LeaveBy("leave", "error")
  /\ UNCHANGED <<Modes, inputVars, app, size, drawn, edges>>

Position(x, s) == CHOOSE i \in DOMAIN s : s[i] = x
Beside(x, s, step) ==
  LET i == Position(x, s) + step IN IF i \in DOMAIN s THEN s[i] ELSE x

\* While locked only the tabs answer.
handle_key(code) ==
  CASE code \in {"q", "esc", "ctrl-c"} -> [app EXCEPT !.quit = TRUE]
    [] code = "right" -> [app EXCEPT !.tab = Beside(@, TABS, 1)]
    [] code = "left"  -> [app EXCEPT !.tab = Beside(@, TABS, -1)]
    [] code \in {"up", "down"} /\ app.tab = "Advanced" /\ ~app.locked ->
         [app EXCEPT !.sub = Beside(@, ADVANCED_TABS, IF code = "down" THEN 1 ELSE -1)]
    [] OTHER -> app

Hits(rects, spot) ==
  {rects[i].is : i \in {j \in DOMAIN rects : Meet(Rect(spot[1], spot[2], 1, 1), rects[j].at)}}

\* A left button that goes down, on the rectangles of the last frame.
handle_mouse(e) ==
  LET tabs == Hits(tab_rects(drawn), e.at)
      subs == Hits(advanced_rects(drawn), e.at)
  IN  IF e.kind # "left down" THEN app
      ELSE CASE tabs # {} -> [app EXCEPT !.tab = CHOOSE t \in tabs : TRUE]
             [] tabs = {} /\ subs # {} /\ ~app.locked ->
                  [app EXCEPT !.sub = CHOOSE t \in subs : TRUE]
             [] OTHER -> app

Handled(e) ==
  CASE is_actionable_press(e) -> handle_key(e.code)
    [] e.type = "mouse"       -> handle_mouse(e)
    [] OTHER                  -> app

\* Seeded fault: a resize moves no state, so it is no change.
ChangesUnlessResize(e) == is_actionable_press(e) \/ (e.type = "mouse" /\ e.kind # "moved")

Changes(e) ==
  \/ is_actionable_press(e)
  \/ e.type = "mouse" /\ e.kind # "moved"
  \/ e.type = "resize"

\* Every event that is there is handled before the next frame.
Drain ==
  /\ At("drain") /\ Take
  /\ app' = Handled(Head(input))
  /\ changed' = (changed \/ Changes(Head(input)))
  /\ Goto("drain")
  /\ UNCHANGED <<Modes, size, drawn, edges>>

\* No more events, or one that cannot be read.
DrainEnds ==
  /\ At("drain") /\ Goto("tick")
  /\ UNCHANGED <<Modes, inputVars, interfaceVars>>

TickNothing ==
  /\ At("tick")
  /\ Goto(IF changed THEN "draw" ELSE AtHead)
  /\ UNCHANGED <<Modes, inputVars, interfaceVars>>

TickFails ==
  /\ At("tick") /\ LeaveBy("leave", "error")
  /\ UNCHANGED <<Modes, inputVars, interfaceVars>>

\* An edge of the board, or a frame nobody recognises.
TickEvent ==
  /\ At("tick") /\ edges < MaxEdges /\ edges' = edges + 1
  /\ \/ app' = [app EXCEPT !.locked = TRUE] /\ Goto("draw")
     \/ app' = [app EXCEPT !.status = "unknown"] /\ Goto("draw")
     \/ app' = [app EXCEPT !.locked = FALSE, !.status = "rereading"] /\ Goto("redraw")
  /\ UNCHANGED <<Modes, inputVars, size, drawn, changed>>

\* The frame before the re-read; an error in it is dropped.
Redraw ==
  /\ At("redraw")
  /\ IF Panics(View) THEN Panic /\ UNCHANGED drawn
     ELSE drawn' \in {View, drawn} /\ Goto("reread") /\ UNCHANGED <<Modes, inputVars>>
  /\ UNCHANGED <<app, size, changed, edges>>

Reread ==
  /\ At("reread")
  /\ \/ \E b \in Boards : app' = [app EXCEPT !.board = b, !.status = "none"] /\ Goto("draw")
     \/ app' = [app EXCEPT !.status = "timedOut"] /\ Goto("draw")
     \/ UNCHANGED app /\ LeaveBy("leave", "error")
  /\ UNCHANGED <<Modes, inputVars, size, drawn, changed, edges>>

\* Seeded fault: an error ends the loop past the end of mouse capture.
LeaveInOrder ==
  /\ At("leave")
  /\ modes' = (IF how = "error" THEN modes ELSE modes \ {"mouse"}) /\ Goto("restore")
  /\ input' = <<>> /\ app' = None /\ drawn' = None
  /\ UNCHANGED <<prog, hook, typed, size, changed, edges>>

\* However the loop ended, the application is dropped; DisableMouseCapture, then
\* restore.  What was not read is left to the shell.
Leave ==
  /\ At("leave")
  /\ modes' = modes \ {"mouse"} /\ Goto("restore")
  /\ input' = <<>> /\ app' = None /\ drawn' = None
  /\ UNCHANGED <<prog, hook, typed, size, changed, edges>>

RestoreTerminal == prog = "tui" /\ Restore /\ UNCHANGED interfaceVars

FinishTui ==
  /\ At("finish")
  /\ prog' = "shell" /\ Goto("ended")
  /\ UNCHANGED <<modes, hook, inputVars, interfaceVars>>

\* The window is resized, and an event says so.  Before or during what is left
\* out of the list is as good as after it.
Resize ==
  /\ prog = "tui" /\ pc \in {"draw", "poll", "drain", "redraw"}
  /\ typed < MaxTyped /\ Len(input) < MaxWaiting
  /\ size' \in Sizes \ {size}
  /\ input' = Append(input, [type |-> "resize"]) /\ typed' = typed + 1
  /\ UNCHANGED <<Modes, pc, how, app, drawn, changed, edges>>

InterfaceNext ==
  \/ ReadBoard \/ InitTerminal \/ CaptureMouse \/ Draw \/ Poll \/ Drain \/ DrainEnds
  \/ TickNothing \/ TickFails \/ TickEvent \/ Redraw \/ Reread
  \/ Leave \/ RestoreTerminal \/ FinishTui \/ Resize

-----------------------------------------------------------------------------
(* Properties.                                                             *)

\* At the head of the loop the frame shows the application as it is, on a
\* terminal of the size it has, or the event is waiting that will see to it:
\* "the next click is routed against them before any redraw would otherwise
\* happen" (apply_event).
FrameIsCurrent ==
  At("poll") =>
    \/ drawn = View
    \/ /\ drawn = [View EXCEPT !.size = drawn.size]
       /\ \E i \in DOMAIN input : input[i].type = "resize"

\* There is a row for what is drawn above the settings and one for each line
\* of the message.
Roomy(v) == BodyHeight(v) > Len(Message(v))

\* On every frame with room for its message, that is there to the last word
\* ("both sentences must render whole", tests/matrix.rs), nothing is drawn over
\* it, over a title or over a cap, a click inside a cap finds its key, and the
\* caps are on the pane of the matrix; and the lines of the lattice meet, which
\* only the board and the size decide, so that the first frame shows it.  (What
\* waits to be read has no part in a frame, so one with nothing waiting will do.)
FrameIsWhole ==
  [][drawn' \notin {drawn, None} /\ input = <<>> =>
       /\ Roomy(drawn') => NothingHidden(drawn') /\ CapsClear(drawn') /\ MessageWhole(drawn')
       /\ drawn = None /\ MatrixRendered(drawn')
            => LatticeJoins(MatrixArea(drawn'), drawn'.board)]_interfaceVars

\* What app.rs says of a board with keys on the tabs that show it: it "either
\* fits or gets the refusal, never a clipped grid".
MatrixOrRefusal ==
  how # "panicked" /\ (drawn # None => MatrixOrSentence(drawn))
=============================================================================
