--------------------------------- MODULE Tui ---------------------------------
(***************************************************************************)
(* `wh tui`: one session held open for as long as the interface runs, a    *)
(* whole-board read on opening and another one whenever the board leaves   *)
(* its own adjust mode.  A re-read that times out keeps the old model and  *)
(* the session with it, so its late answers arrive later, into the middle  *)
(* of whatever the session does then.                                      *)
(***************************************************************************)
EXTENDS Session

CONSTANT Script   \* what BoardModel::read asks, in order

ASSUME TuiAssumption == Script \in Seq(Requests) \ {<<>>}

VARIABLES
  phase,      \* opening, idle, rereading, quit or failed
  why,        \* the error it failed with
  got,        \* the replies the read in progress has taken
  queuedAt,   \* the board's version when it sent each event in the queue
  readFrom,   \* its version when it sent the edge the read in progress answers
  model,      \* the replies the board on display was built from
  modelFrom,  \* the board's version when it sent the edge which that read answered
  locked,     \* the locked banner is up
  status,     \* the one-line note
  screen,     \* what the last draw showed
  delivered   \* the edges the interface has acted on

readVars == <<got, queuedAt, readFrom>>
appVars  == <<phase, why, model, modelFrom, locked, status, screen, delivered>>
vars     == <<sessionVars, readVars, appVars>>

Shown(lock, note, board) == [locked |-> lock, status |-> note, model |-> board]
Draw == screen' = Shown(locked', status', model')

Ended == phase \in {"quit", "failed"}

Init ==
  /\ BoardInit /\ HostInit
  /\ phase = "opening" /\ why = ""
  /\ got = <<>> /\ queuedAt = <<>> /\ readFrom = 0 /\ model = <<>> /\ modelFrom = 0
  /\ locked = FALSE /\ status = "" /\ screen = Shown(FALSE, "", <<>>)
  /\ delivered = <<>>

Fail(w) ==
  /\ phase' = "failed" /\ why' = w
  /\ UNCHANGED <<model, modelFrom, locked, status, screen, delivered>>

(***************************************************************************)
(* BoardModel::read, one roundtrip after the other, up to the first error. *)
(***************************************************************************)
Reading == phase \in {"opening", "rereading"}

AskNext ==
  /\ Reading
  /\ Ask(Script[Len(got) + 1])
  /\ UNCHANGED <<readVars, appVars>>

Asked == Script[Len(got) + 1]

TakeReply ==
  /\ Reading /\ result # None /\ result.type = "ok"
  /\ Decodes(result.report, Asked) /\ Len(got) + 1 < Len(Script)
  /\ got' = Append(got, result.report) /\ result' = None
  /\ UNCHANGED <<boardVars, queue, call, queuedAt, readFrom, appVars>>

\* The read is complete: the model is replaced and any note cleared.
FinishRead ==
  /\ Reading /\ result # None /\ result.type = "ok"
  /\ Decodes(result.report, Asked) /\ Len(got) + 1 = Len(Script)
  /\ model' = Append(got, result.report) /\ modelFrom' = readFrom
  /\ status' = "" /\ phase' = "idle"
  /\ got' = <<>> /\ result' = None
  /\ UNCHANGED <<boardVars, queue, call, queuedAt, readFrom, why, locked, delivered>>
  /\ Draw

Misread ==
  /\ Reading /\ result # None /\ result.type = "ok"
  /\ ~Decodes(result.report, Asked)
  /\ Fail("decode") /\ result' = None
  /\ UNCHANGED <<boardVars, queue, call, readVars>>

\* Seeded fault: the next re-read goes on where this one stopped.
RereadTimesOutResuming ==
  /\ phase = "rereading" /\ result = Error("timeout")
  /\ phase' = "idle" /\ status' = "timed out"
  /\ result' = None
  /\ UNCHANGED <<boardVars, queue, call, queuedAt, got, readFrom, why, model, modelFrom, locked, delivered>>
  /\ Draw

\* A re-read that times out keeps the old model and says so.
RereadTimesOut ==
  /\ phase = "rereading" /\ result = Error("timeout")
  /\ phase' = "idle" /\ status' = "timed out"
  /\ got' = <<>> /\ result' = None
  /\ UNCHANGED <<boardVars, queue, call, queuedAt, readFrom, why, model, modelFrom, locked, delivered>>
  /\ Draw

ReadFails ==
  /\ Reading /\ result # None /\ result.type = "error"
  /\ result.why = "timeout" => phase = "opening"
  /\ Fail(result.why) /\ result' = None
  /\ UNCHANGED <<boardVars, queue, call, readVars>>

(***************************************************************************)
(* App::tick: at most one event, from the session's queue before the wire. *)
(***************************************************************************)
\* Seeded fault: the banner goes up and the frame is not redrawn.
OnEnteredUndrawn ==
  /\ locked' = TRUE
  /\ delivered' = Append(delivered, "entered")
  /\ UNCHANGED <<phase, why, status, screen, model, modelFrom, got, readFrom>>

OnEntered ==
  /\ locked' = TRUE
  /\ delivered' = Append(delivered, "entered")
  /\ UNCHANGED <<phase, why, status, model, modelFrom, got, readFrom>>
  /\ Draw

\* Seeded fault: the banner is left to the read to take down.
OnLeftLocked(at) ==
  /\ status' = "re-reading"
  /\ phase' = "rereading" /\ readFrom' = at
  /\ delivered' = Append(delivered, "left")
  /\ UNCHANGED <<why, got, locked, model, modelFrom>>
  /\ Draw

OnLeft(at) ==
  /\ locked' = FALSE /\ status' = "re-reading"
  /\ phase' = "rereading" /\ readFrom' = at
  /\ delivered' = Append(delivered, "left")
  /\ UNCHANGED <<why, got, model, modelFrom>>
  /\ Draw

\* Seeded fault: an unrecognised event clears the note.
OnUnknownClearing ==
  /\ status' = ""
  /\ UNCHANGED <<phase, why, locked, model, modelFrom, delivered, got, readFrom>>
  /\ Draw

OnUnknown ==
  /\ status' = "unknown event"
  /\ UNCHANGED <<phase, why, locked, model, modelFrom, delivered, got, readFrom>>
  /\ Draw

\* An event the board sent when its settings were at that version.
Handle(event, at) ==
  \/ event = "entered" /\ OnEntered
  \/ event = "left"    /\ OnLeft(at)
  \/ event = "unknown" /\ OnUnknown

Idle == phase = "idle"

VersionOf(report) == IF IsBeEvent(report) THEN report.version ELSE 0

PollQueue ==
  /\ Idle /\ queue # <<>>
  /\ Handle(Head(queue), Head(queuedAt))
  /\ queue' = Tail(queue) /\ queuedAt' = Tail(queuedAt)
  /\ UNCHANGED <<boardVars, call, result>>

\* Seeded fault: the wire is listened to before the queue is drained.
PollWireFirst ==
  /\ Idle /\ wire # <<>>
  /\ Handle(EventOf(Head(wire)), VersionOf(Head(wire)))
  /\ wire' = Tail(wire)
  /\ UNCHANGED <<version, adjusting, owed, emitted, hostVars, queuedAt>>

\* With nothing awaited, whatever arrives is an event: a late reply too.
PollWire ==
  /\ Idle /\ queue = <<>> /\ wire # <<>>
  /\ Handle(EventOf(Head(wire)), VersionOf(Head(wire)))
  /\ wire' = Tail(wire)
  /\ UNCHANGED <<version, adjusting, owed, emitted, hostVars, queuedAt>>

PollFails ==
  /\ Idle /\ queue = <<>>
  /\ Fail("io")
  /\ UNCHANGED <<sessionVars, readVars>>

Quit ==
  /\ Idle /\ phase' = "quit"
  /\ UNCHANGED <<sessionVars, readVars, why, model, modelFrom, locked, status, screen, delivered>>

Board     == ~Ended /\ BoardNext /\ UNCHANGED <<hostVars, readVars, appVars>>

Roundtrip ==
  /\ Reading /\ RoundtripNext
  /\ queuedAt' = (IF queue' # queue THEN Append(queuedAt, VersionOf(Head(wire))) ELSE queuedAt)
  /\ UNCHANGED <<got, readFrom, appVars>>

Host ==
  \/ AskNext \/ Roundtrip \/ TakeReply \/ FinishRead \/ Misread
  \/ RereadTimesOut \/ ReadFails \/ PollQueue \/ PollWire \/ PollFails

Next == Board \/ Host \/ Quit

Spec == Init /\ [][Next]_vars

\* Every read of the pipe has a timeout, so the host's steps go on; the board
\* owes nothing.
FairSpec == Spec /\ WF_vars(Host)

-----------------------------------------------------------------------------
(* Properties.                                                             *)

\* The edges reach the interface once each, in the order the board sent them,
\* whether they arrive during a roundtrip or between two.
EdgesInOrder == delivered \o EdgesIn(queue) \o OnWire = EdgesIn(emitted)

\* A reply that is not from before that version, if a hand could change it.
Current(reply, from) == reply.req \in Fixed \/ reply.version >= from

\* No key on display has another key's value, and what a hand can change was
\* answered after the board had left the adjust mode that the read is for.  It
\* may answer the same question of an earlier read that timed out, but a reply
\* from before the edge never gets in.
ModelIsCurrent ==
  \A i \in 1..Len(model) :
    /\ Script[i] \in Echoed => model[i].req = Script[i]
    /\ Current(model[i], modelFrom)

Settled == Idle /\ ~adjusting /\ EdgesIn(queue) = <<>> /\ OnWire = <<>>

\* With every edge handled and the board out of its adjust mode, a value that a
\* hand can change is never shown without a note unless it is that key's own
\* and from after the last edit.  Nothing is said of what no hand can change:
\* the rows of the matrix may be shown shifted, and without a note, once late
\* answers to them have been taken for others (read_matrix_rows).
StaleIsNoted ==
  Settled /\ status = "" =>
    \A i \in 1..Len(model) :
      /\ Script[i] \in Echoed => model[i].req = Script[i]
      /\ model[i].req \notin Fixed => model[i].version >= version

\* The screen shows the state the interface is in, the note about a re-read
\* before its first roundtrip included; and once every edge is handled its
\* banner says what the board is doing.
ScreenIsTrue ==
  /\ Idle \/ phase = "rereading" => screen = Shown(locked, status, model)
  /\ EdgesIn(queue) = <<>> /\ OnWire = <<>> /\ delivered # <<>>
       => locked = adjusting

\* A re-read ends, whatever the board sends or does not send.
RereadEnds == phase = "rereading" ~> phase # "rereading"

\* A board that has left its adjust mode does not stay locked on the screen.
BannerComesDown == locked /\ ~adjusting ~> ~locked \/ adjusting \/ Ended
=============================================================================
