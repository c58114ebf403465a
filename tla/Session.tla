------------------------------- MODULE Session -------------------------------
(***************************************************************************)
(* One conversation between `wh` and the keyboard: Session::roundtrip over *)
(* a HID pipe, with the queue of the board's own announcements beside it.  *)
(*                                                                         *)
(* The board answers requests in the order it received them, late or never *)
(* if it is busy, and sends reports nobody asked for: the edges of its own *)
(* adjust mode, and other input reports.  A roundtrip takes the first      *)
(* report whose command byte fits, so everything the callers know about an *)
(* answer rests on what the session skips, queues and refuses.             *)
(*                                                                         *)
(* The modules that extend this one say what is asked, in which order, and *)
(* what is done with the answers: OneShot for a command, Tui for the       *)
(* terminal interface.                                                     *)
(***************************************************************************)
EXTENDS Naturals, Sequences, FiniteSets, Subsequence

CONSTANTS
  Requests,     \* what can be asked
  Cmd,          \* the command byte of each request
  OrderCmd,     \* the command byte 0x00, shared by every order and by edges
  Echoed,       \* per-key reads, whose reader checks the key and the layout
  Fixed,        \* what no hand on the board can change: identity, matrix
  NoiseKinds,   \* the unsolicited reports the board may send besides edges
  None,
  MAX_READS,    \* reports one roundtrip reads at most
  TOTAL_TIMEOUT,\* quiet intervals one roundtrip waits at most
  MaxWire,      \* bound: unsolicited reports join a wire shorter than this
  MaxEdges,     \* bound: edges the board sends
  MaxVersion    \* bound: edits made by hand

ASSUME SessionAssumption ==
  /\ Cmd \in [Requests -> Nat] /\ OrderCmd \in Nat
  /\ Echoed \subseteq Requests /\ Fixed \subseteq Requests
  /\ NoiseKinds \subseteq {"unrelated", "order"}
  /\ {MAX_READS, TOTAL_TIMEOUT, MaxWire, MaxEdges, MaxVersion} \subseteq Nat

VARIABLES
  version,    \* how often the board's settings were edited by hand
  adjusting,  \* the board is in its own adjust mode
  owed,       \* requests the board holds and has not answered
  wire,       \* reports sent by the board and not yet received
  emitted,    \* the edges the board has sent since the session opened
  queue,      \* events the session holds for its user
  call,       \* the roundtrip in progress
  result      \* what the last roundtrip returned, until its caller uses it

boardVars == <<version, adjusting, owed, wire, emitted>>
hostVars  == <<queue, call, result>>
sessionVars == <<boardVars, hostVars>>

-----------------------------------------------------------------------------
(* Reports, and how the host classifies them.  A report's version is what   *)
(* the board held when it was sent; an edge does not carry it.              *)

Edges == {"entered", "left", "odd"}   \* odd: a third byte nobody measured

Reply(r, v) == [type |-> "reply", req |-> r, version |-> v]
Edge(e, v)  == [type |-> "edge", edge |-> e, version |-> v]
CmdFail     == [type |-> "fail"]
Noise(n)    == [type |-> n]

Reports ==
  {Reply(r, v) : r \in Requests, v \in 0..MaxVersion}
    \cup {Edge(e, v) : e \in Edges, v \in 0..MaxVersion} \cup {CmdFail} \cup {Noise(n) : n \in NoiseKinds}

\* A roundtrip in progress, and what one returns.
Calls   == [req : Requests, reads : Nat, elapsed : Nat]
Oks     == [type : {"ok"}, report : Reports]
Errors  == [type : {"error"}, why : {"io", "device", "timeout"}]

ASSUME NoneAssumption == None \notin Requests \cup Calls \cup Oks \cup Errors

\* Any `00 be` frame is unsolicited, whatever its third byte.
IsBeEvent(report) == report.type = "edge"

EventOf(report) ==
  IF report.type = "edge" /\ report.edge # "odd" THEN report.edge ELSE "unknown"

Events == {"entered", "left", "unknown"}

\* A report is taken for the reply if its command byte is the request's.
Fits(report, r) ==
  \/ report.type = "reply" /\ Cmd[report.req] = Cmd[r]
  \/ report.type \in {"order", "edge"} /\ Cmd[r] = OrderCmd

\* What the reader of a reply decodes: an order's reader checks the
\* sub-order, a per-key reader the key and the layout, the others nothing.
Decodes(report, r) ==
  /\ report.type = "reply"
  /\ r \in Echoed => report.req = r

\* The two edges somebody measured, among some events and on the wire.
Measured == {"entered", "left"}

EdgesIn(events) == Keeping(events, Measured)

OnWire == EdgesIn([i \in 1..Len(wire) |-> EventOf(wire[i])])

ValueOf(r) == IF r \in Fixed THEN 0 ELSE version

-----------------------------------------------------------------------------
(* The board.                                                              *)

BoardInit ==
  /\ version = 0 /\ adjusting \in BOOLEAN
  /\ owed = <<>> /\ wire = <<>> /\ emitted = <<>>

Answer ==
  /\ owed # <<>>
  /\ \E report \in {Reply(Head(owed), ValueOf(Head(owed))), CmdFail} : wire' = Append(wire, report)
  /\ owed' = Tail(owed)
  /\ UNCHANGED <<version, adjusting, emitted>>

\* A report that never arrives, either way.
LoseRequest ==
  /\ owed # <<>>
  /\ owed' = Tail(owed)
  /\ UNCHANGED <<version, adjusting, wire, emitted>>

SendEdge(e) ==
  /\ Len(emitted) < MaxEdges
  /\ e = "entered" => ~adjusting
  /\ e = "left" => adjusting
  /\ adjusting' = (e = "entered" \/ (e = "odd" /\ adjusting))
  /\ wire' = Append(wire, Edge(e, version))
  /\ emitted' = Append(emitted, e)
  /\ UNCHANGED <<version, owed>>

EditByHand ==
  /\ adjusting /\ version < MaxVersion
  /\ version' = version + 1
  /\ UNCHANGED <<adjusting, owed, wire, emitted>>

SendNoise(n) ==
  /\ Len(wire) < MaxWire
  /\ wire' = Append(wire, Noise(n))
  /\ UNCHANGED <<version, adjusting, owed, emitted>>

BoardNext ==
  \/ Answer \/ LoseRequest \/ EditByHand
  \/ \E e \in Edges : SendEdge(e)
  \/ \E n \in NoiseKinds : SendNoise(n)

-----------------------------------------------------------------------------
(* The host's end: roundtrip, poll_event, pending_events.                  *)

HostInit == queue = <<>> /\ call = None /\ result = None

Ok(report)  == [type |-> "ok", report |-> report]
Error(why)  == [type |-> "error", why |-> why]

\* The request is written to the pipe, or the pipe is gone.
Ask(r) ==
  /\ call = None /\ result = None
  /\ \/ /\ call' = [req |-> r, reads |-> 0, elapsed |-> 0]
        /\ owed' = Append(owed, r)
        /\ UNCHANGED result
     \/ /\ result' = Error("io")
        /\ UNCHANGED <<call, owed>>
  /\ UNCHANGED <<version, adjusting, wire, emitted, queue>>

\* Seeded fault: only a quiet interval counts towards the end.
ListeningForever == call # None /\ call.elapsed < TOTAL_TIMEOUT

Listening ==
  /\ call # None
  /\ call.reads < MAX_READS /\ call.elapsed < TOTAL_TIMEOUT

\* Reading one more report, after some wait.
Read ==
  \E wait \in {0, 1} :
    call' = [call EXCEPT !.reads = IF @ < MAX_READS THEN @ + 1 ELSE @, !.elapsed = @ + wait]

Return(r) == result' = r /\ call' = None

Receive ==
  LET report == Head(wire)
  IN
  /\ Listening /\ wire # <<>>
  /\ wire' = Tail(wire)
  /\ \/ /\ IsBeEvent(report)
        /\ queue' = Append(queue, EventOf(report))
        /\ Read /\ UNCHANGED result
     \/ /\ ~IsBeEvent(report) /\ Fits(report, call.req)
        /\ Return(Ok(report))
        /\ UNCHANGED queue
     \/ /\ report = CmdFail
        /\ Return(Error("device"))
        /\ UNCHANGED queue
     \/ /\ ~IsBeEvent(report) /\ ~Fits(report, call.req) /\ report # CmdFail
        /\ Read /\ UNCHANGED <<queue, result>>
  /\ UNCHANGED <<version, adjusting, owed, emitted>>

RecvTimeout ==
  /\ Listening /\ wire = <<>>
  /\ call' = [call EXCEPT !.reads = @ + 1, !.elapsed = @ + 1]
  /\ UNCHANGED <<boardVars, queue, result>>

GiveUp ==
  /\ call # None /\ ~Listening
  /\ Return(Error("timeout"))
  /\ UNCHANGED <<boardVars, queue>>

RecvFails ==
  /\ Listening
  /\ Return(Error("io"))
  /\ UNCHANGED <<boardVars, queue>>

RoundtripNext == Receive \/ RecvTimeout \/ GiveUp \/ RecvFails
=============================================================================
