----------------------------- MODULE TuiProofs -----------------------------
(***************************************************************************)
(* Whatever the board sends, loses, delays or has edited by hand, and      *)
(* however many re-reads time out one after the other: the edges reach the *)
(* interface once and in order, and of what a hand can change, what it     *)
(* shows is not older than the edge it was read for, and what is out of    *)
(* date is shown with a note.                                              *)
(***************************************************************************)
EXTENDS Tui, SessionProofs

TypeOK ==
  /\ SessionTypes
  /\ queuedAt \in Seq(0..MaxVersion) /\ Len(queuedAt) = Len(queue)
  /\ phase \in {"opening", "idle", "rereading", "quit", "failed"}
  /\ Reading => Len(got) < Len(Script)
  /\ Idle => call = None /\ result = None /\ got = <<>>
  /\ got \in Seq(Replies) /\ readFrom \in 0..MaxVersion
  /\ model \in Seq(Replies) /\ modelFrom \in 0..MaxVersion
  /\ delivered \in Seq(Measured)

\* The board is adjusting if its last edge said so.
LastEdge ==
  LET sent == EdgesIn(emitted)
  IN  sent # <<>> => adjusting = (sent[Len(sent)] = "entered")

\* The banner is up if the last edge acted on said so.
BannerFollows == delivered # <<>> => locked = (delivered[Len(delivered)] = "entered")

ScreenFollows == Idle \/ phase = "rereading" => screen = Shown(locked, status, model)

\* Reports travel in order: a reply behind an edge is not older than the edge,
\* neither on the wire nor with the edge in the queue.
WireRises ==
  /\ \A p \in 1..Len(wire) : IsBeEvent(wire[p]) => wire[p].version <= version
  /\ \A i \in 1..Len(queuedAt) : queuedAt[i] <= version
  /\ \A p, q \in 1..Len(wire) :
       p < q /\ IsBeEvent(wire[p]) /\ IsReply(wire[q]) => Current(wire[q], wire[p].version)
  /\ \A i \in 1..Len(queuedAt), q \in 1..Len(wire) : IsReply(wire[q]) => Current(wire[q], queuedAt[i])

\* What a read takes is not older than the edge it is for.
ReadIsCurrent ==
  /\ readFrom <= version
  /\ Reading =>
       /\ \A q \in 1..Len(wire) : IsReply(wire[q]) => Current(wire[q], readFrom)
       /\ result # None /\ result.type = "ok" /\ IsReply(result.report) => Current(result.report, readFrom)
       /\ \A i \in 1..Len(got) : /\ Script[i] \in Echoed => got[i].req = Script[i]
                                 /\ Current(got[i], readFrom)

LeftOnWire(p) == p \in 1..Len(wire) /\ IsBeEvent(wire[p]) /\ wire[p].edge = "left"
LeftInQueue(i) == i \in 1..Len(queue) /\ queue[i] = "left"
LeftAhead == (\E i \in 1..Len(queue) : LeftInQueue(i)) \/ (\E p \in 1..Len(wire) : LeftOnWire(p))

\* Settings are as they were at the last edge "left", or the board is in its
\* adjust mode again.
LastLeft ==
  /\ \A p \in 1..Len(wire) : LeftOnWire(p) =>
       \/ adjusting \/ wire[p].version = version
       \/ \E q \in 1..Len(wire) : q > p /\ LeftOnWire(q)
  /\ \A i \in 1..Len(queue) : LeftInQueue(i) =>
       \/ adjusting \/ queuedAt[i] = version
       \/ \E j \in 1..Len(queue) : j > i /\ LeftInQueue(j)
       \/ \E q \in 1..Len(wire) : LeftOnWire(q)

\* A read in progress, and a model shown without a note, are of the last one.
ReadOfLast ==
  /\ Reading => adjusting \/ readFrom = version \/ LeftAhead
  /\ Idle /\ status = "" => adjusting \/ modelFrom = version \/ LeftAhead

TInv ==
  /\ TypeOK /\ EdgesInOrder /\ LastEdge /\ BannerFollows /\ ScreenFollows
  /\ WireRises /\ ReadIsCurrent /\ LastLeft /\ ReadOfLast /\ ModelIsCurrent
-----------------------------------------------------------------------------
(* Events and their versions.                                              *)

LEMMA VersionsOf ==
  ASSUME NEW r \in Reports
  PROVE  VersionOf(r) \in 0..MaxVersion
BY ReportParts, SessionAssumption DEF VersionOf

-----------------------------------------------------------------------------
(* The board sends a report.                                               *)

\* What holds of the pipe and of what is read through it.
PipeInv == WireRises /\ ReadIsCurrent /\ LastLeft /\ ReadOfLast

LEMMA Numbers ==
  ASSUME TypeOK
  PROVE  /\ Len(wire) \in Nat /\ Len(queue) \in Nat /\ Len(queuedAt) = Len(queue)
         /\ version \in Nat /\ readFrom \in Nat /\ modelFrom \in Nat
         /\ \A p \in 1..Len(wire) : wire[p] \in Reports
         /\ \A i \in 1..Len(queue) : queue[i] \in Events /\ queuedAt[i] \in Nat
         /\ \A p \in 1..Len(wire) : IsReply(wire[p]) => wire[p].version \in Nat /\ ~IsBeEvent(wire[p])
         /\ \A p \in 1..Len(wire) : IsBeEvent(wire[p]) => wire[p].version \in Nat
<1>1. MaxVersion \in Nat
      BY SessionAssumption
<1>2. /\ Len(wire) \in Nat /\ Len(queue) \in Nat /\ Len(queuedAt) = Len(queue)
      /\ \A p \in 1..Len(wire) : wire[p] \in Reports
      /\ \A i \in 1..Len(queue) : queue[i] \in Events /\ queuedAt[i] \in 0..MaxVersion
      BY LenProperties, ElementOfSeq DEF TypeOK, SessionTypes
<1>3. ASSUME NEW p \in 1..Len(wire)
      PROVE  /\ IsReply(wire[p]) => wire[p] \in Replies /\ ~IsBeEvent(wire[p])
             /\ IsBeEvent(wire[p]) => wire[p].version \in 0..MaxVersion
      BY <1>2, ReportParts
<1>4. ASSUME NEW p \in 1..Len(wire), IsReply(wire[p]) PROVE wire[p].version \in Nat
      BY <1>1, <1>3, <1>4 DEF Replies
<1>5. version \in Nat /\ readFrom \in Nat /\ modelFrom \in Nat
      BY <1>1 DEF TypeOK, SessionTypes
<1>6. \A i \in 1..Len(queue) : queue[i] \in Events /\ queuedAt[i] \in Nat
      BY <1>1, <1>2
<1>7. \A p \in 1..Len(wire) : IsBeEvent(wire[p]) => wire[p].version \in Nat
      BY <1>1, <1>3
<1> QED BY <1>2, <1>3, <1>4, <1>5, <1>6, <1>7

LEMMA SendsPipe ==
  ASSUME TypeOK, PipeInv, NEW r \in Reports, wire' = Append(wire, r), version' = version,
         UNCHANGED <<hostVars, readVars, phase, status, modelFrom>>,
         IsReply(r) => Current(r, version), IsBeEvent(r) => r.version = version,
         adjusting' \in BOOLEAN, adjusting => adjusting' \/ (IsBeEvent(r) /\ r.edge = "left")
  PROVE  PipeInv'
<1>0. PICK N \in Nat : N = Len(wire)
      BY LenProperties DEF TypeOK, SessionTypes
<1>1. /\ N = Len(wire) /\ Len(wire') = N + 1 /\ wire'[N + 1] = r
      /\ \A p \in 1..N : wire'[p] = wire[p]
      BY <1>0, AppendProperties DEF TypeOK, SessionTypes
<1>2. \A v \in Nat : v <= version /\ IsReply(r) => Current(r, v)
  <2>1. IsReply(r) => r.version \in Nat
        BY ReportParts, SessionAssumption DEF Replies
  <2> QED BY <2>1, Numbers DEF Current
<1>3. WireRises'
  <2>1. ASSUME NEW p \in 1..(N + 1), IsBeEvent(wire'[p]) PROVE wire'[p].version <= version
    <3>1. CASE p \in 1..N
          BY <1>1, <2>1, <3>1 DEF PipeInv, WireRises
    <3>2. CASE p = N + 1
          BY <1>1, <2>1, <3>2, Numbers
    <3> QED BY <1>1, <3>1, <3>2
  <2>2. ASSUME NEW p \in 1..(N + 1), NEW q \in 1..(N + 1), p < q, IsBeEvent(wire'[p]), IsReply(wire'[q])
        PROVE  Current(wire'[q], wire'[p].version)
    <3>1. p \in 1..N /\ wire'[p] = wire[p]
          BY <1>1, <2>2
    <3>2. CASE q \in 1..N
          BY <1>1, <2>2, <3>1, <3>2 DEF PipeInv, WireRises
    <3>3. CASE q = N + 1
      <4>1. wire[p].version \in Nat /\ wire[p].version <= version
            BY <1>1, <2>2, <3>1, Numbers DEF PipeInv, WireRises
      <4> QED BY <1>1, <1>2, <2>2, <3>1, <3>3, <4>1
    <3> QED BY <1>1, <3>2, <3>3
  <2>3. ASSUME NEW i \in 1..Len(queuedAt), NEW q \in 1..(N + 1), IsReply(wire'[q])
        PROVE  Current(wire'[q], queuedAt[i])
    <3>1. CASE q \in 1..N
          BY <1>1, <2>3, <3>1 DEF PipeInv, WireRises
    <3>2. CASE q = N + 1
      <4>1. queuedAt[i] \in Nat /\ queuedAt[i] <= version
            BY Numbers DEF PipeInv, WireRises
      <4> QED BY <1>1, <1>2, <2>3, <3>2, <4>1
    <3> QED BY <1>1, <3>1, <3>2
  <2>4. queuedAt' = queuedAt /\ \A i \in 1..Len(queuedAt) : queuedAt[i] <= version
        BY DEF readVars, PipeInv, WireRises
  <2> QED BY <1>1, <2>1, <2>2, <2>3, <2>4 DEF WireRises
<1>4. ReadIsCurrent'
  <2>1. ASSUME Reading, NEW q \in 1..(N + 1), IsReply(wire'[q])
        PROVE  Current(wire'[q], readFrom)
    <3>1. CASE q \in 1..N
          BY <1>1, <2>1, <3>1 DEF PipeInv, ReadIsCurrent
    <3>2. CASE q = N + 1
          BY <1>1, <1>2, <2>1, <3>2, Numbers DEF PipeInv, ReadIsCurrent
    <3> QED BY <1>1, <3>1, <3>2
  <2> QED BY <1>1, <2>1 DEF PipeInv, ReadIsCurrent, Reading, readVars, hostVars
<1>5. \A p \in 1..N : LeftOnWire(p)' <=> LeftOnWire(p)
      BY <1>1 DEF LeftOnWire
<1>6. \A i : LeftInQueue(i)' <=> LeftInQueue(i)
      BY DEF LeftInQueue, hostVars
<1>7. CASE IsBeEvent(r) /\ r.edge = "left"
  <2>1. LeftOnWire(N + 1)' /\ wire'[N + 1].version = version'
        BY <1>1, <1>7 DEF LeftOnWire
  <2>2. LastLeft'
    <3>1. ASSUME NEW p \in 1..(N + 1), LeftOnWire(p)'
          PROVE  wire'[p].version = version' \/ \E q \in 1..(N + 1) : q > p /\ LeftOnWire(q)'
      <4>1. p = N + 1 \/ (N + 1 \in 1..(N + 1) /\ N + 1 > p)
            BY <1>1
      <4> QED BY <2>1, <4>1
    <3>2. \E q \in 1..(N + 1) : LeftOnWire(q)'
          BY <1>1, <2>1
    <3> QED BY <1>1, <3>1, <3>2 DEF LastLeft
  <2>3. LeftAhead'
    <3>1. N + 1 \in 1..Len(wire')
          BY <1>1
    <3> QED BY <2>1, <3>1 DEF LeftAhead
  <2> QED BY <1>3, <1>4, <2>2, <2>3 DEF PipeInv, ReadOfLast
<1>8. CASE ~(IsBeEvent(r) /\ r.edge = "left")
  <2>1. ~LeftOnWire(N + 1)'
        BY <1>1, <1>8 DEF LeftOnWire
  <2>2. adjusting => adjusting'
        BY <1>8
  <2>3. LeftAhead => LeftAhead'
    <3>1. ASSUME NEW p \in 1..Len(wire), LeftOnWire(p) PROVE LeftAhead'
      <4>1. p \in 1..Len(wire') /\ LeftOnWire(p)'
            BY <1>1, <1>5, <3>1
      <4> QED BY <4>1 DEF LeftAhead
    <3> QED BY <1>6, <3>1 DEF LeftAhead, hostVars
  <2>4. ASSUME NEW p \in 1..(N + 1), LeftOnWire(p)'
        PROVE  adjusting' \/ wire'[p].version = version' \/ \E q \in 1..(N + 1) : q > p /\ LeftOnWire(q)'
    <3>1. p \in 1..N /\ LeftOnWire(p) /\ wire'[p] = wire[p]
          BY <1>1, <1>5, <2>1, <2>4
    <3>2. adjusting \/ wire[p].version = version \/ \E q \in 1..N : q > p /\ LeftOnWire(q)
          BY <1>1, <3>1 DEF PipeInv, LastLeft
    <3>3. ASSUME NEW q \in 1..N, q > p, LeftOnWire(q) PROVE q \in 1..(N + 1) /\ LeftOnWire(q)'
          BY <1>1, <1>5, <3>3
    <3> QED BY <2>2, <3>1, <3>2, <3>3
  <2>5. ASSUME NEW i \in 1..Len(queue), LeftInQueue(i)
        PROVE  \/ adjusting' \/ queuedAt[i] = version
               \/ \E j \in 1..Len(queue) : j > i /\ LeftInQueue(j)
               \/ \E q \in 1..(N + 1) : LeftOnWire(q)'
    <3>1. ASSUME NEW q \in 1..N, LeftOnWire(q) PROVE q \in 1..(N + 1) /\ LeftOnWire(q)'
          BY <1>1, <1>5, <3>1
    <3> QED BY <1>1, <2>2, <2>5, <3>1 DEF PipeInv, LastLeft
  <2>6. LastLeft'
        BY <1>1, <1>6, <2>4, <2>5 DEF LastLeft, hostVars, readVars
  <2>7. ReadOfLast'
        BY <2>2, <2>3 DEF PipeInv, ReadOfLast, Reading, Idle, readVars
  <2> QED BY <1>3, <1>4, <2>6, <2>7 DEF PipeInv
<1> QED BY <1>7, <1>8

-----------------------------------------------------------------------------
(* The first report leaves the wire, or the first event the queue.         *)

\* Whatever left the wire, what is still on it is in order.
LEMMA WireFalls ==
  ASSUME TypeOK, WireRises, wire # <<>>, wire' = Tail(wire), version' = version,
         \/ queuedAt' = queuedAt
         \/ IsBeEvent(Head(wire)) /\ queuedAt' = Append(queuedAt, VersionOf(Head(wire)))
  PROVE  WireRises'
<1>1. PICK N \in Nat : /\ Len(wire) = N + 1 /\ Len(wire') = N /\ wire[1] \in Reports
                       /\ Head(wire) = wire[1] /\ \A i \in 1..N : wire'[i] = wire[i + 1]
      BY Shifted DEF TypeOK, SessionTypes
<1>2. ASSUME NEW p \in 1..N PROVE p + 1 \in 1..Len(wire) /\ wire'[p] = wire[p + 1]
      BY <1>1
<1>3. \A p \in 1..N : IsBeEvent(wire'[p]) => wire'[p].version <= version
      BY <1>2 DEF WireRises
<1>4. ASSUME NEW p \in 1..N, NEW q \in 1..N, p < q, IsBeEvent(wire'[p]), IsReply(wire'[q])
      PROVE  Current(wire'[q], wire'[p].version)
  <2>1. p + 1 < q + 1
        BY <1>4
  <2> QED BY <1>2, <1>4, <2>1 DEF WireRises
<1>5. ASSUME NEW i \in 1..Len(queuedAt)
      PROVE  /\ queuedAt[i] <= version
             /\ \A q \in 1..N : IsReply(wire'[q]) => Current(wire'[q], queuedAt[i])
      BY <1>2 DEF WireRises
<1>6. CASE queuedAt' = queuedAt
      BY <1>1, <1>3, <1>4, <1>5, <1>6 DEF WireRises
<1>7. CASE IsBeEvent(Head(wire)) /\ queuedAt' = Append(queuedAt, VersionOf(Head(wire)))
  <2>1. PICK K \in Nat : K = Len(queuedAt)
        BY LenProperties DEF TypeOK, SessionTypes
  <2>2. VersionOf(wire[1]) = wire[1].version /\ VersionOf(wire[1]) \in 0..MaxVersion
        BY <1>1, <1>7, ReportParts DEF VersionOf
  <2>3. /\ Len(queuedAt') = K + 1 /\ queuedAt'[K + 1] = wire[1].version
        /\ \A i \in 1..K : queuedAt'[i] = queuedAt[i]
        BY <1>1, <1>7, <2>1, <2>2, AppendProperties DEF TypeOK, SessionTypes
  <2>4. 1 \in 1..Len(wire) /\ wire[1].version <= version
        BY <1>1, <1>7 DEF WireRises
  <2>5. ASSUME NEW q \in 1..N, IsReply(wire'[q]) PROVE Current(wire'[q], wire[1].version)
    <3>1. q + 1 \in 1..Len(wire) /\ 1 < q + 1 /\ IsReply(wire[q + 1])
          BY <1>2, <2>5
    <3>2. Current(wire[q + 1], wire[1].version)
          BY <1>1, <1>7, <2>4, <3>1 DEF WireRises
    <3> QED BY <1>2, <3>2
  <2>6. ASSUME NEW i \in 1..(K + 1)
        PROVE  /\ queuedAt'[i] <= version
               /\ \A q \in 1..N : IsReply(wire'[q]) => Current(wire'[q], queuedAt'[i])
    <3>1. CASE i = K + 1
          BY <2>3, <2>4, <2>5, <3>1
    <3>2. CASE i \in 1..K
      <4>1. i \in 1..Len(queuedAt) /\ queuedAt'[i] = queuedAt[i]
            BY <2>1, <2>3, <3>2
      <4>2. queuedAt[i] <= version /\ \A q \in 1..N : IsReply(wire'[q]) => Current(wire'[q], queuedAt[i])
            BY <1>5, <4>1
      <4> QED BY <4>1, <4>2
    <3>3. i = K + 1 \/ i \in 1..K
          OBVIOUS
    <3> QED BY <3>1, <3>2, <3>3
  <2> QED BY <1>1, <1>3, <1>4, <2>3, <2>6 DEF WireRises
<1> QED BY <1>6, <1>7

LEMMA ReceivePipe ==
  ASSUME TypeOK, PipeInv, wire # <<>>, wire' = Tail(wire), version' = version, adjusting' = adjusting,
         UNCHANGED <<got, readFrom, phase, status, modelFrom>>,
         \/ /\ IsBeEvent(Head(wire))
            /\ queue' = Append(queue, EventOf(Head(wire)))
            /\ queuedAt' = Append(queuedAt, VersionOf(Head(wire)))
            /\ result' = result
         \/ /\ ~IsBeEvent(Head(wire)) /\ UNCHANGED <<queue, queuedAt>>
            /\ result' # None /\ result'.type = "ok" =>
                 result' = result \/ result'.report = Head(wire)
  PROVE  PipeInv'
<1>1. PICK N \in Nat : /\ Len(wire) = N + 1 /\ Len(wire') = N /\ wire[1] \in Reports
                       /\ Head(wire) = wire[1] /\ \A i \in 1..N : wire'[i] = wire[i + 1]
      BY Shifted DEF TypeOK, SessionTypes
<1>2. ASSUME NEW p \in 1..N PROVE p + 1 \in 1..Len(wire) /\ wire'[p] = wire[p + 1]
      BY <1>1
<1>3. WireRises'
      BY WireFalls DEF PipeInv
<1>4. ReadIsCurrent'
  <2>1. ASSUME Reading, NEW q \in 1..N, IsReply(wire'[q]) PROVE Current(wire'[q], readFrom)
        BY <1>2, <2>1 DEF PipeInv, ReadIsCurrent
  <2>2. ASSUME Reading, result' # None, result'.type = "ok", IsReply(result'.report)
        PROVE  Current(result'.report, readFrom)
    <3>1. CASE result' = result
          BY <2>2, <3>1 DEF PipeInv, ReadIsCurrent
    <3>2. CASE result'.report = Head(wire)
      <4>1. 1 \in 1..Len(wire) /\ result'.report = wire[1]
            BY <1>1, <3>2
      <4> QED BY <2>2, <4>1 DEF PipeInv, ReadIsCurrent
    <3> QED BY <2>2, <3>1, <3>2
  <2>3. /\ readFrom <= version
        /\ Reading => \A i \in 1..Len(got) : /\ Script[i] \in Echoed => got[i].req = Script[i]
                                             /\ Current(got[i], readFrom)
        BY DEF PipeInv, ReadIsCurrent
  <2>4. got' = got /\ readFrom' = readFrom /\ (Reading' <=> Reading)
        BY DEF Reading
  <2> QED BY <1>1, <2>1, <2>2, <2>3, <2>4 DEF ReadIsCurrent
<1>5. \A p \in 1..N : LeftOnWire(p)' <=> LeftOnWire(p + 1)
      BY <1>1, <1>2 DEF LeftOnWire
<1>7. ASSUME NEW q \in 1..Len(wire), q # 1, LeftOnWire(q)
      PROVE  q - 1 \in 1..N /\ LeftOnWire(q - 1)'
  <2>1. q - 1 \in 1..N /\ (q - 1) + 1 = q
        BY <1>1, <1>7
  <2> QED BY <1>5, <1>7, <2>1
<1>8. ASSUME NEW p \in 1..Len(wire'), LeftOnWire(p)'
      PROVE  \/ adjusting' \/ wire'[p].version = version'
             \/ \E q \in 1..Len(wire') : q > p /\ LeftOnWire(q)'
  <2>1. p \in 1..N /\ p + 1 \in 1..Len(wire) /\ LeftOnWire(p + 1) /\ wire'[p] = wire[p + 1]
        BY <1>1, <1>2, <1>5, <1>8
  <2>2. \/ adjusting \/ wire[p + 1].version = version
        \/ \E q \in 1..Len(wire) : q > p + 1 /\ LeftOnWire(q)
        BY <2>1 DEF PipeInv, LastLeft
  <2>3. ASSUME NEW q \in 1..Len(wire), q > p + 1, LeftOnWire(q)
        PROVE  \E z \in 1..Len(wire') : z > p /\ LeftOnWire(z)'
    <3>1. q # 1 /\ q - 1 > p
          BY <1>1, <2>1, <2>3
    <3>2. q - 1 \in 1..N /\ LeftOnWire(q - 1)'
          BY <1>7, <2>3, <3>1
    <3> QED BY <1>1, <3>1, <3>2
  <2> QED BY <2>1, <2>2, <2>3
<1>9. (LeftAhead => LeftAhead') => ReadOfLast'
      BY DEF PipeInv, ReadOfLast, Reading, Idle
<1>6. CASE /\ IsBeEvent(Head(wire))
           /\ queue' = Append(queue, EventOf(Head(wire)))
           /\ queuedAt' = Append(queuedAt, VersionOf(Head(wire)))
  <2>1. PICK K \in Nat : K = Len(queue) /\ K = Len(queuedAt)
        BY LenProperties DEF TypeOK, SessionTypes
  <2>2. /\ VersionOf(wire[1]) = wire[1].version /\ VersionOf(wire[1]) \in 0..MaxVersion
        /\ EventOf(wire[1]) \in Events /\ (EventOf(wire[1]) = "left" <=> wire[1].edge = "left")
        BY <1>1, <1>6, ReportParts DEF VersionOf
  <2>3. /\ Len(queuedAt') = K + 1 /\ queuedAt'[K + 1] = wire[1].version
        /\ \A i \in 1..K : queuedAt'[i] = queuedAt[i]
        BY <1>1, <1>6, <2>1, <2>2, AppendProperties DEF TypeOK, SessionTypes
  <2>4. /\ Len(queue') = K + 1 /\ queue'[K + 1] = EventOf(wire[1])
        /\ \A i \in 1..K : queue'[i] = queue[i]
        BY <1>1, <1>6, <2>1, <2>2, AppendProperties DEF TypeOK, SessionTypes
  <2>5. LeftInQueue(K + 1)' <=> LeftOnWire(1)
        BY <1>1, <1>6, <2>2, <2>4 DEF LeftInQueue, LeftOnWire
  <2>6. \A i \in 1..K : LeftInQueue(i)' <=> LeftInQueue(i)
        BY <2>1, <2>4 DEF LeftInQueue
  <2>7. ASSUME NEW p \in 1..Len(wire), LeftOnWire(p)
        PROVE  (\E q \in 1..Len(wire') : LeftOnWire(q)') \/ LeftInQueue(K + 1)'
    <3>1. p = 1 \/ (p - 1 \in 1..N /\ LeftOnWire(p - 1)')
          BY <1>1, <1>7, <2>7
    <3> QED BY <1>1, <2>5, <2>7, <3>1
  <2>8. ASSUME NEW i \in 1..(K + 1), LeftInQueue(i)'
        PROVE  \/ adjusting \/ queuedAt'[i] = version
               \/ \E j \in 1..(K + 1) : j > i /\ LeftInQueue(j)'
               \/ \E q \in 1..Len(wire') : LeftOnWire(q)'
    <3>1. CASE i = K + 1
      <4>1. 1 \in 1..Len(wire) /\ LeftOnWire(1)
            BY <1>1, <2>5, <2>8, <3>1
      <4>2. adjusting \/ wire[1].version = version \/ \E q \in 1..Len(wire) : q > 1 /\ LeftOnWire(q)
            BY <4>1 DEF PipeInv, LastLeft
      <4>3. ASSUME NEW q \in 1..Len(wire), q > 1, LeftOnWire(q)
            PROVE  \E z \in 1..Len(wire') : LeftOnWire(z)'
        <5>1. q - 1 \in 1..Len(wire') /\ LeftOnWire(q - 1)'
              BY <1>1, <1>7, <4>3
        <5> QED BY <5>1
      <4> QED BY <2>3, <3>1, <4>2, <4>3
    <3>2. CASE i \in 1..K
      <4>1. i \in 1..Len(queue) /\ LeftInQueue(i) /\ queuedAt'[i] = queuedAt[i]
            BY <2>1, <2>3, <2>6, <2>8, <3>2
      <4>2. \/ adjusting \/ queuedAt[i] = version
            \/ \E j \in 1..Len(queue) : j > i /\ LeftInQueue(j)
            \/ \E q \in 1..Len(wire) : LeftOnWire(q)
            BY <4>1 DEF PipeInv, LastLeft
      <4>3. ASSUME NEW j \in 1..Len(queue), j > i, LeftInQueue(j)
            PROVE  j \in 1..(K + 1) /\ LeftInQueue(j)'
            BY <2>1, <2>6, <4>3
      <4>4. K + 1 \in 1..(K + 1) /\ K + 1 > i
            BY <3>2
      <4> QED BY <2>7, <4>1, <4>2, <4>3, <4>4
    <3> QED BY <3>1, <3>2
  <2>9. LastLeft'
        BY <1>6, <1>8, <2>3, <2>4, <2>8 DEF LastLeft
  <2>10. LeftAhead => LeftAhead'
    <3>1. ASSUME NEW i \in 1..Len(queue), LeftInQueue(i) PROVE i \in 1..Len(queue') /\ LeftInQueue(i)'
          BY <2>1, <2>4, <2>6, <3>1
    <3>2. K + 1 \in 1..Len(queue')
          BY <2>4
    <3> QED BY <2>7, <3>1, <3>2 DEF LeftAhead
  <2> QED BY <1>3, <1>4, <1>9, <2>9, <2>10 DEF PipeInv
<1>11. CASE ~IsBeEvent(Head(wire)) /\ UNCHANGED <<queue, queuedAt>>
  <2>1. ~LeftOnWire(1)
        BY <1>1, <1>11 DEF LeftOnWire
  <2>2. \A i : LeftInQueue(i)' <=> LeftInQueue(i)
        BY <1>11 DEF LeftInQueue
  <2>3. ASSUME NEW p \in 1..Len(wire), LeftOnWire(p) PROVE \E q \in 1..Len(wire') : LeftOnWire(q)'
    <3>1. p # 1
          BY <2>1, <2>3
    <3>2. p - 1 \in 1..Len(wire') /\ LeftOnWire(p - 1)'
          BY <1>1, <1>7, <2>3, <3>1
    <3> QED BY <3>2
  <2>4. LastLeft'
    <3>1. ASSUME NEW i \in 1..Len(queue), LeftInQueue(i)
          PROVE  \/ adjusting \/ queuedAt[i] = version
                 \/ \E j \in 1..Len(queue) : j > i /\ LeftInQueue(j)
                 \/ \E q \in 1..Len(wire') : LeftOnWire(q)'
          BY <2>3, <3>1 DEF PipeInv, LastLeft
    <3> QED BY <1>8, <1>11, <2>2, <3>1 DEF LastLeft
  <2>5. LeftAhead => LeftAhead'
        BY <1>11, <2>2, <2>3 DEF LeftAhead
  <2> QED BY <1>3, <1>4, <1>9, <2>4, <2>5 DEF PipeInv
<1> QED BY <1>6, <1>11

\* An event is acted on.
LEMMA HandlePipe ==
  ASSUME TypeOK, PipeInv, Idle, NEW event \in Events, NEW at \in Nat, Handle(event, at),
         at <= version, version' = version, adjusting' = adjusting, result' = result,
         WireRises', LastLeft',
         \A q \in 1..Len(wire') : IsReply(wire'[q]) => Current(wire'[q], at),
         event = "left" => adjusting \/ at = version \/ LeftAhead',
         event # "left" /\ LeftAhead => LeftAhead'
  PROVE  PipeInv'
<1>1. got = <<>> /\ result = None /\ ~Reading /\ readFrom <= version
      BY DEF TypeOK, SessionTypes, Idle, Reading, PipeInv, ReadIsCurrent
<1>2. CASE event = "left"
  <2>1. phase' = "rereading" /\ readFrom' = at /\ got' = got /\ status' = "re-reading"
        BY <1>2 DEF Handle, OnLeft
  <2>2. Reading' /\ ~Idle'
        BY <2>1 DEF Reading, Idle
  <2>3. \A i \in 1..Len(got') : FALSE
        BY <1>1, <2>1
  <2>4. ReadIsCurrent'
        BY <1>1, <2>1, <2>3 DEF ReadIsCurrent
  <2>5. ReadOfLast'
        BY <1>2, <2>1, <2>2 DEF ReadOfLast
  <2> QED BY <2>4, <2>5 DEF PipeInv
<1>3. CASE event # "left"
  <2>1. /\ phase' = phase /\ readFrom' = readFrom /\ got' = got /\ modelFrom' = modelFrom
        /\ status' = status \/ status' = "unknown event"
        BY <1>3 DEF Handle, OnEntered, OnUnknown
  <2>2. ~Reading'
        BY <1>1, <2>1 DEF Reading
  <2>3. ReadIsCurrent'
        BY <1>1, <2>1, <2>2 DEF ReadIsCurrent
  <2>4. ReadOfLast'
        BY <1>3, <2>1, <2>2 DEF PipeInv, ReadOfLast, Idle
  <2> QED BY <2>3, <2>4 DEF PipeInv
<1> QED BY <1>2, <1>3

LEMMA QueuePipe ==
  ASSUME TypeOK, PipeInv, PollQueue
  PROVE  PipeInv'
<1>1. /\ Idle /\ queue # <<>> /\ Handle(Head(queue), Head(queuedAt)) /\ queue' = Tail(queue)
      /\ queuedAt' = Tail(queuedAt) /\ UNCHANGED <<version, adjusting, wire, result>>
      BY DEF PollQueue, boardVars
<1>2. Len(queue) \in Nat /\ Len(queuedAt) = Len(queue) /\ Len(queue) # 0
      BY <1>1, LenProperties, EmptySeq DEF TypeOK, SessionTypes
<1>3. queuedAt \in Seq(0..MaxVersion) /\ queuedAt # <<>>
      BY <1>2, EmptySeq DEF TypeOK, SessionTypes
<1>4. PICK N \in Nat : /\ Len(queue) = N + 1 /\ Len(queue') = N /\ queue[1] \in Events
                       /\ Head(queue) = queue[1] /\ \A i \in 1..N : queue'[i] = queue[i + 1]
      BY <1>1, Shifted DEF TypeOK, SessionTypes
<1>5. PICK K \in Nat : /\ Len(queuedAt) = K + 1 /\ Len(queuedAt') = K /\ queuedAt[1] \in 0..MaxVersion
                       /\ Head(queuedAt) = queuedAt[1] /\ \A i \in 1..K : queuedAt'[i] = queuedAt[i + 1]
      BY <1>1, <1>3, Shifted
<1>6. /\ K = N /\ queuedAt[1] \in Nat /\ 1 \in 1..Len(queue) /\ 1 \in 1..Len(queuedAt)
      BY <1>2, <1>4, <1>5, SessionAssumption
<1>7. ASSUME NEW i \in 1..N
      PROVE  /\ i + 1 \in 1..Len(queuedAt) /\ i + 1 \in 1..Len(queue)
             /\ queuedAt'[i] = queuedAt[i + 1] /\ (LeftInQueue(i)' <=> LeftInQueue(i + 1))
      BY <1>2, <1>4, <1>5, <1>6 DEF LeftInQueue
<1>8. \A p : LeftOnWire(p)' <=> LeftOnWire(p)
      BY <1>1 DEF LeftOnWire
<1>9. ASSUME NEW j \in 1..Len(queue), j > 1, LeftInQueue(j)
      PROVE  j - 1 \in 1..Len(queue') /\ LeftInQueue(j - 1)'
  <2>1. j - 1 \in 1..N /\ (j - 1) + 1 = j
        BY <1>4, <1>9
  <2> QED BY <1>4, <1>7, <1>9, <2>1
<1>10. WireRises'
  <2>1. ASSUME NEW i \in 1..N
        PROVE  queuedAt'[i] <= version /\ \A q \in 1..Len(wire) : IsReply(wire[q]) => Current(wire[q], queuedAt'[i])
        BY <1>7 DEF PipeInv, WireRises
  <2> QED BY <1>1, <1>5, <1>6, <2>1 DEF PipeInv, WireRises
<1>11. LastLeft'
  <2>1. ASSUME NEW i \in 1..N, LeftInQueue(i)'
        PROVE  \/ adjusting \/ queuedAt'[i] = version
               \/ \E j \in 1..Len(queue') : j > i /\ LeftInQueue(j)'
               \/ \E q \in 1..Len(wire) : LeftOnWire(q)
    <3>1. /\ i + 1 \in 1..Len(queue) /\ LeftInQueue(i + 1) /\ queuedAt'[i] = queuedAt[i + 1]
          BY <1>7, <2>1
    <3>2. \/ adjusting \/ queuedAt[i + 1] = version
          \/ \E j \in 1..Len(queue) : j > i + 1 /\ LeftInQueue(j)
          \/ \E q \in 1..Len(wire) : LeftOnWire(q)
          BY <3>1 DEF PipeInv, LastLeft
    <3>3. ASSUME NEW j \in 1..Len(queue), j > i + 1, LeftInQueue(j)
          PROVE  \E z \in 1..Len(queue') : z > i /\ LeftInQueue(z)'
      <4>1. j > 1 /\ j - 1 > i
            BY <3>3
      <4>2. j - 1 \in 1..Len(queue') /\ LeftInQueue(j - 1)'
            BY <1>9, <3>3, <4>1
      <4> QED BY <4>1, <4>2
    <3> QED BY <3>1, <3>2, <3>3
  <2> QED BY <1>1, <1>4, <1>8, <2>1 DEF PipeInv, LastLeft
<1>12. Head(queue) = "left" => adjusting \/ Head(queuedAt) = version \/ LeftAhead'
  <2>1. ASSUME Head(queue) = "left" PROVE LeftInQueue(1)
        BY <1>4, <1>6, <2>1 DEF LeftInQueue
  <2>2. ASSUME LeftInQueue(1)
        PROVE  \/ adjusting \/ queuedAt[1] = version
               \/ \E j \in 1..Len(queue) : j > 1 /\ LeftInQueue(j)
               \/ \E q \in 1..Len(wire) : LeftOnWire(q)
        BY <1>6, <2>2 DEF PipeInv, LastLeft
  <2> QED BY <1>1, <1>5, <1>8, <1>9, <2>1, <2>2 DEF LeftAhead
<1>13. Head(queue) # "left" /\ LeftAhead => LeftAhead'
  <2>1. ASSUME Head(queue) # "left", NEW j \in 1..Len(queue), LeftInQueue(j) PROVE j > 1
        BY <1>4, <2>1 DEF LeftInQueue
  <2> QED BY <1>1, <1>8, <1>9, <2>1 DEF LeftAhead
<1>14. /\ Head(queuedAt) <= version
       /\ \A q \in 1..Len(wire') : IsReply(wire'[q]) => Current(wire'[q], Head(queuedAt))
       BY <1>1, <1>5, <1>6 DEF PipeInv, WireRises
<1>15. Head(queue) \in Events /\ Head(queuedAt) \in Nat
       BY <1>4, <1>5, <1>6
<1> QED BY <1>1, <1>10, <1>11, <1>12, <1>13, <1>14, <1>15, HandlePipe

LEMMA PolledPipe ==
  ASSUME TypeOK, PipeInv, PollWire
  PROVE  PipeInv'
<1>0. /\ Idle /\ queue = <<>> /\ wire # <<>> /\ Handle(EventOf(Head(wire)), VersionOf(Head(wire)))
      /\ wire' = Tail(wire) /\ UNCHANGED <<version, adjusting, queue, result, queuedAt>>
      BY DEF PollWire, hostVars
<1>1. PICK N \in Nat : /\ Len(wire) = N + 1 /\ Len(wire') = N /\ wire[1] \in Reports
                       /\ Head(wire) = wire[1] /\ \A i \in 1..N : wire'[i] = wire[i + 1]
      BY <1>0, Shifted DEF TypeOK, SessionTypes
<1>2. ASSUME NEW p \in 1..N
      PROVE  p + 1 \in 1..Len(wire) /\ wire'[p] = wire[p + 1] /\ (LeftOnWire(p)' <=> LeftOnWire(p + 1))
      BY <1>1 DEF LeftOnWire
<1>3. ASSUME NEW q \in 1..Len(wire), q > 1, LeftOnWire(q)
      PROVE  q - 1 \in 1..Len(wire') /\ LeftOnWire(q - 1)'
  <2>1. q - 1 \in 1..N /\ (q - 1) + 1 = q
        BY <1>1, <1>3
  <2> QED BY <1>1, <1>2, <1>3, <2>1
<1>4. WireRises'
      BY <1>0, WireFalls DEF PipeInv
<1>5. \A i : ~LeftInQueue(i) /\ ~LeftInQueue(i)'
      BY <1>0 DEF LeftInQueue
<1>6. LastLeft'
  <2>1. ASSUME NEW p \in 1..N, LeftOnWire(p)'
        PROVE  \/ adjusting \/ wire'[p].version = version
               \/ \E q \in 1..Len(wire') : q > p /\ LeftOnWire(q)'
    <3>1. p + 1 \in 1..Len(wire) /\ LeftOnWire(p + 1) /\ wire'[p] = wire[p + 1]
          BY <1>2, <2>1
    <3>2. \/ adjusting \/ wire[p + 1].version = version
          \/ \E q \in 1..Len(wire) : q > p + 1 /\ LeftOnWire(q)
          BY <3>1 DEF PipeInv, LastLeft
    <3>3. ASSUME NEW q \in 1..Len(wire), q > p + 1, LeftOnWire(q)
          PROVE  \E z \in 1..Len(wire') : z > p /\ LeftOnWire(z)'
      <4>1. q > 1 /\ q - 1 > p
            BY <3>3
      <4>2. q - 1 \in 1..Len(wire') /\ LeftOnWire(q - 1)'
            BY <1>3, <3>3, <4>1
      <4> QED BY <4>1, <4>2
    <3> QED BY <3>1, <3>2, <3>3
  <2> QED BY <1>0, <1>1, <1>5, <2>1 DEF LastLeft
<1>7. /\ EventOf(wire[1]) \in Events /\ VersionOf(wire[1]) \in 0..MaxVersion
      /\ EventOf(wire[1]) \in Measured => IsBeEvent(wire[1])
      /\ IsBeEvent(wire[1]) => (EventOf(wire[1]) = "left" <=> wire[1].edge = "left")
      BY <1>1, ReportParts, VersionsOf
<1>8. 1 \in 1..Len(wire) /\ VersionOf(wire[1]) \in Nat
      BY <1>1, <1>7, SessionAssumption
<1>9. EventOf(wire[1]) = "left" <=> LeftOnWire(1)
      BY <1>7, <1>8 DEF LeftOnWire, Measured
<1>10. EventOf(wire[1]) = "left" => adjusting \/ VersionOf(wire[1]) = version \/ LeftAhead'
  <2>1. ASSUME LeftOnWire(1)
        PROVE  \/ adjusting \/ wire[1].version = version
               \/ \E q \in 1..Len(wire) : q > 1 /\ LeftOnWire(q)
        BY <1>8, <2>1 DEF PipeInv, LastLeft
  <2>2. LeftOnWire(1) => VersionOf(wire[1]) = wire[1].version
        BY DEF LeftOnWire, VersionOf
  <2> QED BY <1>3, <1>9, <2>1, <2>2 DEF LeftAhead
<1>11. EventOf(wire[1]) # "left" /\ LeftAhead => LeftAhead'
  <2>1. ASSUME EventOf(wire[1]) # "left", NEW q \in 1..Len(wire), LeftOnWire(q) PROVE q > 1
        BY <1>1, <1>9, <2>1
  <2> QED BY <1>3, <1>5, <2>1 DEF LeftAhead
<1>12. CASE IsBeEvent(wire[1])
  <2>1. VersionOf(wire[1]) = wire[1].version /\ wire[1].version <= version
        BY <1>8, <1>12 DEF VersionOf, PipeInv, WireRises
  <2>2. ASSUME NEW q \in 1..N, IsReply(wire'[q]) PROVE Current(wire'[q], wire[1].version)
    <3>1. q + 1 \in 1..Len(wire) /\ 1 < q + 1 /\ IsReply(wire[q + 1])
          BY <1>2, <2>2
    <3>2. Current(wire[q + 1], wire[1].version)
          BY <1>8, <1>12, <3>1 DEF PipeInv, WireRises
    <3> QED BY <1>2, <3>2
  <2> QED BY <1>0, <1>1, <1>4, <1>6, <1>7, <1>8, <1>10, <1>11, <2>1, <2>2, HandlePipe
<1>13. CASE ~IsBeEvent(wire[1])
  <2>1. VersionOf(wire[1]) = 0 /\ 0 <= version /\ EventOf(wire[1]) # "left"
        BY <1>7, <1>13, Numbers DEF VersionOf, Measured
  <2>2. \A q \in 1..N : IsReply(wire'[q]) => Current(wire'[q], 0)
    <3>1. ASSUME NEW q \in 1..N, IsReply(wire'[q]) PROVE Current(wire'[q], 0)
      <4>1. q + 1 \in 1..Len(wire) /\ wire'[q] = wire[q + 1] /\ IsReply(wire[q + 1])
            BY <1>2, <3>1
      <4>2. wire[q + 1].version \in Nat
            BY <4>1, Numbers
      <4> QED BY <4>1, <4>2 DEF Current
    <3> QED BY <3>1
  <2> QED BY <1>0, <1>1, <1>4, <1>6, <1>7, <1>8, <1>10, <1>11, <2>1, <2>2, HandlePipe
<1> QED BY <1>12, <1>13

-----------------------------------------------------------------------------
(* Types.                                                                  *)

LEMMA BoardTypes ==
  ASSUME TypeOK, Board
  PROVE  TypeOK'
<1>1. SessionTypes'
      BY BoardKeepsTypes DEF Board, TypeOK
<1>2. UNCHANGED <<queue, call, result, got, queuedAt, readFrom, phase, model, modelFrom, delivered>>
      BY DEF Board, hostVars, readVars, appVars
<1> QED BY <1>1, <1>2 DEF TypeOK, Reading, Idle

LEMMA ScriptParts ==
  ASSUME TypeOK, Reading
  PROVE  /\ Len(got) \in Nat /\ Len(Script) \in Nat /\ Len(got) + 1 \in 1..Len(Script)
         /\ Script[Len(got) + 1] \in Requests
<1>1. Len(got) \in Nat /\ Len(Script) \in Nat /\ Len(got) < Len(Script)
      BY TuiAssumption, LenProperties DEF TypeOK, SessionTypes
<1>2. Len(got) + 1 \in 1..Len(Script)
      BY <1>1
<1> QED BY <1>1, <1>2, TuiAssumption, ElementOfSeq

LEMMA AskTypes ==
  ASSUME TypeOK, AskNext
  PROVE  TypeOK'
<1>1. Reading /\ ~Idle /\ Script[Len(got) + 1] \in Requests /\ Ask(Script[Len(got) + 1])
      BY ScriptParts DEF AskNext, Reading, Idle
<1>2. SessionTypes' /\ queue' = queue
      BY <1>1, AskKeepsTypes DEF TypeOK
<1>3. UNCHANGED <<got, queuedAt, readFrom, phase, model, modelFrom, delivered>>
      BY DEF AskNext, readVars, appVars
<1> QED BY <1>1, <1>2, <1>3 DEF TypeOK, Reading, Idle

LEMMA RoundtripTypes ==
  ASSUME TypeOK, Roundtrip
  PROVE  TypeOK'
<1>1. /\ Reading /\ ~Idle /\ RoundtripNext
      /\ queuedAt' = (IF queue' # queue THEN Append(queuedAt, VersionOf(Head(wire))) ELSE queuedAt)
      /\ UNCHANGED <<got, readFrom, phase, model, modelFrom, delivered>>
      BY DEF Roundtrip, appVars, Reading, Idle
<1>2. SessionTypes'
      BY <1>1, RoundtripKeepsTypes DEF TypeOK
<1>3. queuedAt' \in Seq(0..MaxVersion) /\ Len(queuedAt') = Len(queue')
  <2>1. CASE queue' = queue
        BY <1>1, <2>1 DEF TypeOK
  <2>2. CASE wire # <<>> /\ queue' = Append(queue, EventOf(Head(wire)))
    <3>1. Head(wire) \in Reports
          BY <2>2, HeadTailProperties DEF TypeOK, SessionTypes
    <3>2. EventOf(Head(wire)) \in Events /\ VersionOf(Head(wire)) \in 0..MaxVersion
          BY <3>1, ReportParts, VersionsOf
    <3>3. Len(queue') = Len(queue) + 1 /\ Len(queue) \in Nat
          BY <2>2, <3>2, AppendProperties, LenProperties DEF TypeOK, SessionTypes
    <3>4. queue' # queue
          BY <3>3
    <3>5. queuedAt' \in Seq(0..MaxVersion) /\ Len(queuedAt') = Len(queuedAt) + 1
          BY <1>1, <3>2, <3>4, AppendProperties DEF TypeOK
    <3> QED BY <3>3, <3>5 DEF TypeOK
  <2> QED BY <1>1, <2>1, <2>2 DEF RoundtripNext, Receive, RecvTimeout, GiveUp, RecvFails
<1> QED BY <1>1, <1>2, <1>3 DEF TypeOK, Reading, Idle

LEMMA Taken ==
  ASSUME TypeOK, Reading, result # None, result.type = "ok", Decodes(result.report, Asked)
  PROVE  /\ result.report \in Replies /\ IsReply(result.report)
         /\ Asked \in Echoed => result.report.req = Asked
<1>1. result \in Oks
      BY DEF TypeOK, SessionTypes, Errors
<1>2. result.report \in Reports /\ IsReply(result.report)
      BY <1>1 DEF Oks, Decodes, IsReply
<1> QED BY <1>2, ReportParts DEF Decodes

\* The read in progress takes a reply, or ends.
LEMMA ReadTypes ==
  ASSUME TypeOK, TakeReply \/ FinishRead \/ Misread \/ RereadTimesOut \/ ReadFails
  PROVE  TypeOK'
<1>1. CASE TakeReply
  <2>1. got' \in Seq(Replies) /\ Len(got') = Len(got) + 1
        BY <1>1, Taken, AppendProperties DEF TakeReply, TypeOK, SessionTypes
  <2>2. Len(got') < Len(Script)
        BY <1>1, <2>1 DEF TakeReply
  <2>3. ~Idle /\ result' = None
        BY <1>1 DEF TakeReply, Reading, Idle
  <2>4. UNCHANGED <<version, adjusting, owed, wire, emitted, queue, call, queuedAt, readFrom,
                    phase, why, model, modelFrom, locked, status, screen, delivered>>
        BY <1>1 DEF TakeReply, boardVars, appVars
  <2> QED BY <2>1, <2>2, <2>3, <2>4 DEF TypeOK, SessionTypes, Reading, Idle
<1>2. CASE FinishRead
  <2>1. model' \in Seq(Replies)
        BY <1>2, Taken, AppendProperties DEF FinishRead, TypeOK, SessionTypes
  <2>2. phase' = "idle" /\ got' = <<>> /\ result' = None /\ got' \in Seq(Replies) /\ modelFrom' = readFrom
        BY <1>2, EmptySeq DEF FinishRead
  <2>3. UNCHANGED <<version, adjusting, owed, wire, emitted, queue, call, queuedAt, readFrom,
                    why, locked, delivered>>
        BY <1>2 DEF FinishRead, boardVars
  <2>4. call = None
        BY <1>2 DEF FinishRead, TypeOK, SessionTypes
  <2> QED BY <2>1, <2>2, <2>3, <2>4 DEF TypeOK, SessionTypes, Reading, Idle
<1>3. CASE Misread \/ ReadFails
  <2>1. phase' = "failed" /\ result' = None
        BY <1>3 DEF Misread, ReadFails, Fail
  <2>2. UNCHANGED <<version, adjusting, owed, wire, emitted, queue, call, got, queuedAt, readFrom,
                    model, modelFrom, locked, delivered>>
        BY <1>3 DEF Misread, ReadFails, Fail, boardVars, readVars
  <2> QED BY <2>1, <2>2 DEF TypeOK, SessionTypes, Reading, Idle
<1>4. CASE RereadTimesOut
  <2>1. phase' = "idle" /\ got' = <<>> /\ result' = None /\ got' \in Seq(Replies)
        BY <1>4, EmptySeq DEF RereadTimesOut
  <2>2. UNCHANGED <<version, adjusting, owed, wire, emitted, queue, call, queuedAt, readFrom,
                    why, model, modelFrom, locked, delivered>>
        BY <1>4 DEF RereadTimesOut, boardVars
  <2>3. call = None
        BY <1>4, ErrorsAre DEF RereadTimesOut, TypeOK, SessionTypes
  <2> QED BY <2>1, <2>2, <2>3 DEF TypeOK, SessionTypes, Reading, Idle
<1> QED BY <1>1, <1>2, <1>3, <1>4

\* What acting on an event does to the edges and the banner.
LEMMA Handled ==
  ASSUME TypeOK, NEW event \in Events, NEW at \in 0..MaxVersion, Handle(event, at)
  PROVE  /\ delivered' = delivered \o First(event) /\ delivered' \in Seq(Measured)
         /\ phase' \in {phase, "rereading"} /\ readFrom' \in 0..MaxVersion
         /\ UNCHANGED <<got, why, model, modelFrom>> /\ screen' = Shown(locked', status', model')
         /\ (event \in Measured => locked' = (event = "entered"))
         /\ (event \notin Measured => locked' = locked)
<1>1. CASE event \in Measured
  <2>1. delivered' = Append(delivered, event)
        BY <1>1 DEF Handle, OnEntered, OnLeft, Measured
  <2>2. Append(delivered, event) = delivered \o <<event>> /\ Append(delivered, event) \in Seq(Measured)
        BY <1>1, AppendIsConcat, AppendProperties DEF TypeOK, SessionTypes
  <2> QED BY <1>1, <2>1, <2>2 DEF First, Handle, OnEntered, OnLeft, Measured, Draw, TypeOK, SessionTypes
<1>2. CASE event \notin Measured
  <2>1. OnUnknown
        BY <1>2 DEF Handle, Events, Measured
  <2>2. delivered \o <<>> = delivered /\ delivered \in Seq(Measured)
        BY ConcatEmptySeq DEF TypeOK, SessionTypes
  <2> QED BY <1>2, <2>1, <2>2 DEF First, OnUnknown, Draw, TypeOK, SessionTypes
<1> QED BY <1>1, <1>2

\* What is polled is an event, with the version it was sent at.
LEMMA PollIsHandle ==
  ASSUME TypeOK, PollQueue \/ PollWire
  PROVE  \E event \in Events, at \in 0..MaxVersion : Handle(event, at)
<1>1. CASE PollQueue
  <2>1. Len(queue) = Len(queuedAt) /\ queue # <<>> /\ Len(queue) \in Nat
        BY <1>1, LenProperties DEF PollQueue, TypeOK, SessionTypes
  <2>2. queuedAt # <<>>
        BY <2>1, EmptySeq DEF TypeOK, SessionTypes
  <2>3. Head(queue) \in Events /\ Head(queuedAt) \in 0..MaxVersion
        BY <2>1, <2>2, HeadTailProperties DEF TypeOK, SessionTypes
  <2> QED BY <1>1, <2>3 DEF PollQueue
<1>2. CASE PollWire
  <2>1. Head(wire) \in Reports
        BY <1>2, HeadTailProperties DEF PollWire, TypeOK, SessionTypes
  <2>2. EventOf(Head(wire)) \in Events /\ VersionOf(Head(wire)) \in 0..MaxVersion
        BY <2>1, ReportParts, VersionsOf
  <2> QED BY <1>2, <2>2 DEF PollWire
<1> QED BY <1>1, <1>2

LEMMA PollTypes ==
  ASSUME TypeOK, PollQueue \/ PollWire
  PROVE  TypeOK'
<1>1. MaxVersion \in Nat
      BY SessionAssumption
<1>2. PICK event \in Events, at \in 0..MaxVersion : Handle(event, at)
      BY PollIsHandle
<1>3. /\ wire' \in Seq(Reports) /\ queue' \in Seq(Events)
      /\ queuedAt' \in Seq(0..MaxVersion) /\ Len(queuedAt') = Len(queue')
  <2>1. CASE PollQueue
    <3>1. /\ Len(queue) = Len(queuedAt) /\ queue # <<>> /\ Len(queue) \in Nat
          /\ queue \in Seq(Events) /\ queuedAt \in Seq(0..MaxVersion)
          BY <2>1, LenProperties DEF PollQueue, TypeOK, SessionTypes
    <3>2. queuedAt # <<>>
          BY <3>1, EmptySeq
    <3>3. Tail(queue) \in Seq(Events) /\ Len(Tail(queue)) = Len(queue) - 1
          BY <3>1, HeadTailProperties
    <3>4. Tail(queuedAt) \in Seq(0..MaxVersion) /\ Len(Tail(queuedAt)) = Len(queuedAt) - 1
          BY <3>1, <3>2, HeadTailProperties
    <3> QED BY <2>1, <3>1, <3>3, <3>4 DEF PollQueue, TypeOK, SessionTypes, boardVars
  <2>2. CASE PollWire
        BY <2>2, HeadTailProperties DEF PollWire, TypeOK, SessionTypes, hostVars
  <2> QED BY <2>1, <2>2
<1>4. /\ delivered' \in Seq(Measured) /\ phase' \in {phase, "rereading"} /\ readFrom' \in 0..MaxVersion
      /\ UNCHANGED <<got, why, model, modelFrom>>
      BY <1>2, Handled
<1>5. Idle /\ UNCHANGED <<version, adjusting, owed, emitted, call, result>>
      BY DEF PollQueue, PollWire, boardVars, hostVars
<1>6. got = <<>> /\ Len(got) = 0 /\ Len(Script) \in Nat /\ Len(Script) # 0
      BY <1>5, TuiAssumption, LenProperties, EmptySeq DEF TypeOK, SessionTypes
<1> QED BY <1>3, <1>4, <1>5, <1>6 DEF TypeOK, SessionTypes, Reading, Idle

LEMMA TypesKept ==
  ASSUME TypeOK, [Next]_vars
  PROVE  TypeOK'
<1>1. CASE UNCHANGED vars
      BY <1>1 DEF vars, sessionVars, boardVars, hostVars, readVars, appVars, TypeOK, SessionTypes, Reading, Idle
<1>2. CASE PollFails
      BY <1>2 DEF PollFails, Fail, sessionVars, boardVars, hostVars, readVars, TypeOK, SessionTypes, Reading, Idle
<1>3. CASE Quit
      BY <1>3 DEF Quit, sessionVars, boardVars, hostVars, readVars, TypeOK, SessionTypes, Reading, Idle
<1> QED BY <1>1, <1>2, <1>3, BoardTypes, AskTypes, RoundtripTypes, ReadTypes, PollTypes DEF Next, Host

-----------------------------------------------------------------------------
(* The edges, in order.                                                    *)

\* The interface acts on the first event of the queue, or of the wire.
LEMMA ActedInOrder ==
  ASSUME TypeOK, EdgesInOrder, PollQueue \/ PollWire
  PROVE  EdgesInOrder'
<1>1. CASE PollQueue
  <2> DEFINE a == delivered
             b == EdgesIn(Tail(queue))
             c == OnWire
             e == First(Head(queue))
  <2>1. /\ queue # <<>> /\ Tail(queue) \in Seq(Events) /\ Head(queue) \in Events
        /\ queue \in Seq(Events)
        BY <1>1, HeadTailProperties DEF PollQueue, TypeOK, SessionTypes
  <2>2. a \in Seq(Measured) /\ b \in Seq(Measured) /\ c \in Seq(Measured) /\ e \in Seq(Measured)
        BY <2>1, OnWireIs, EdgesType, FirstType DEF TypeOK
  <2>3. EdgesIn(queue) = e \o b
        BY <2>1, EdgesTail
  <2>4. delivered' = a \o e
    <3>1. Len(queuedAt) # 0 /\ queuedAt \in Seq(0..MaxVersion)
          BY <2>1, LenProperties, EmptySeq DEF TypeOK, SessionTypes
    <3>2. Head(queuedAt) \in 0..MaxVersion
          BY <3>1, HeadTailProperties, EmptySeq
    <3> QED BY <1>1, <2>1, <3>2, Handled DEF PollQueue
  <2>5. EdgesIn(queue') = b /\ OnWire' = c /\ emitted' = emitted
        BY <1>1 DEF PollQueue, boardVars, OnWire
  <2>6. EdgesIn(emitted) = (a \o (e \o b)) \o c
        BY <2>3 DEF EdgesInOrder
  <2> HIDE DEF a, b, c, e
  <2>7. (a \o e) \o b = a \o (e \o b)
        BY <2>2, EdgesAssociate
  <2>8. (delivered' \o EdgesIn(queue')) \o OnWire' = EdgesIn(emitted')
        BY <2>4, <2>5, <2>6, <2>7
  <2> QED BY <2>8 DEF EdgesInOrder
<1>2. CASE PollWire
  <2> DEFINE a == delivered
             c == EdgesIn(EventsOf(Tail(wire)))
             e == First(EventOf(Head(wire)))
  <2>1. /\ wire # <<>> /\ Tail(wire) \in Seq(Reports) /\ Head(wire) \in Reports /\ wire \in Seq(Reports)
        BY <1>2, HeadTailProperties DEF PollWire, TypeOK, SessionTypes
  <2>2. EventOf(Head(wire)) \in Events /\ VersionOf(Head(wire)) \in 0..MaxVersion
        BY <2>1, ReportParts, VersionsOf
  <2>3. EventsOf(Tail(wire)) \in Seq(Events)
        BY <2>1, EventsType
  <2>4. a \in Seq(Measured) /\ c \in Seq(Measured) /\ e \in Seq(Measured)
        BY <2>3, OnWireIs, EdgesType, FirstType DEF TypeOK
  <2>5. delivered' = a \o e
        BY <1>2, <2>2, Handled DEF PollWire
  <2>6. OnWire = e \o c
        BY <2>1, WireTail, OnWireIs DEF TypeOK
  <2>7. OnWire' = c /\ queue = <<>> /\ queue' = <<>> /\ emitted' = emitted
        BY <1>2 DEF PollWire, hostVars, OnWire, EventsOf
  <2>8. EdgesIn(<<>>) = <<>>
        BY KeepingEmpty DEF EdgesIn
  <2>9. EdgesIn(emitted) = (a \o <<>>) \o (e \o c)
        BY <2>6, <2>7, <2>8 DEF EdgesInOrder
  <2> HIDE DEF a, c, e
  <2>10. a \o e \in Seq(Measured)
         BY <2>4, ConcatProperties
  <2>11. a \o <<>> = a /\ (a \o e) \o <<>> = a \o e
         BY <2>4, <2>10, ConcatEmptySeq
  <2>12. (a \o e) \o c = a \o (e \o c)
         BY <2>4, EdgesAssociate
  <2>13. (delivered' \o EdgesIn(queue')) \o OnWire' = EdgesIn(emitted')
         BY <2>5, <2>7, <2>8, <2>9, <2>11, <2>12
  <2> QED BY <2>13 DEF EdgesInOrder
<1> QED BY <1>1, <1>2

LEMMA OrderKept ==
  ASSUME TypeOK, EdgesInOrder, [Next]_vars
  PROVE  EdgesInOrder'
<1> DEFINE a == delivered
           b == EdgesIn(queue)
<1>1. CASE UNCHANGED <<delivered, queue, wire, emitted>>
      BY <1>1 DEF EdgesInOrder, OnWire
<1>2. CASE Board
  <2>1. UNCHANGED <<queue, delivered>>
        BY <1>2 DEF Board, hostVars, appVars
  <2>2. PICK x \in Seq(Measured) : OnWire' = OnWire \o x /\ EdgesIn(emitted') = EdgesIn(emitted) \o x
        BY <1>2, BoardSendsEdges DEF Board, TypeOK
  <2>3. PICK d \in Seq(Measured) : d = a \o b
        BY OnWireIs, ConcatProperties DEF TypeOK
  <2>4. (d \o OnWire) \o x = d \o (OnWire \o x)
        BY OnWireIs, EdgesAssociate DEF TypeOK
  <2>5. delivered' \o EdgesIn(queue') = d /\ EdgesIn(emitted) = d \o OnWire
        BY <2>1, <2>3 DEF EdgesInOrder
  <2> QED BY <2>2, <2>4, <2>5 DEF EdgesInOrder
<1>3. CASE Roundtrip
  <2>1. UNCHANGED <<emitted, delivered>>
        BY <1>3, RoundtripKeepsTypes DEF Roundtrip, appVars, TypeOK
  <2>2. PICK x \in Seq(Measured) : OnWire = x \o OnWire' /\ EdgesIn(queue') = b \o x
        BY <1>3, RoundtripHearsEdges DEF Roundtrip, TypeOK
  <2>3. a \in Seq(Measured) /\ b \in Seq(Measured) /\ OnWire' \in Seq(Measured)
    <3>1. SessionTypes'
          BY <1>3, RoundtripKeepsTypes DEF Roundtrip, TypeOK
    <3>2. OnWire' \in Seq(Measured)
      <4>1. wire' \in Seq(Reports)
            BY <3>1 DEF SessionTypes
      <4>2. EventsOf(wire') \in Seq(Events)
            BY <4>1, EventsType
      <4>3. OnWire' = EdgesIn(EventsOf(wire'))
            BY DEF OnWire, EventsOf
      <4> QED BY <4>2, <4>3, EdgesType
    <3> QED BY <3>2, OnWireIs DEF TypeOK
  <2>4. PICK d \in Seq(Measured) : d = a \o b
        BY <2>3, ConcatProperties
  <2>5. EdgesIn(emitted') = d \o (x \o OnWire')
        BY <2>1, <2>2, <2>4 DEF EdgesInOrder
  <2> HIDE DEF a, b
  <2>6. (d \o x) \o OnWire' = d \o (x \o OnWire')
        BY <2>3, EdgesAssociate
  <2>7. (a \o b) \o x = a \o (b \o x)
        BY <2>3, EdgesAssociate
  <2>8. delivered' = a
        BY <2>1 DEF a
  <2> QED BY <2>2, <2>4, <2>5, <2>6, <2>7, <2>8 DEF EdgesInOrder
<1>4. CASE AskNext
      BY <1>1, <1>4 DEF AskNext, Ask, appVars
<1>5. CASE TakeReply \/ FinishRead \/ Misread \/ RereadTimesOut \/ ReadFails
      BY <1>1, <1>5 DEF TakeReply, FinishRead, Misread, RereadTimesOut, ReadFails, Fail, boardVars, appVars
<1>6. CASE PollFails \/ Quit \/ UNCHANGED vars
      BY <1>1, <1>6 DEF PollFails, Quit, Fail, vars, sessionVars, boardVars, hostVars, appVars
<1> QED BY <1>2, <1>3, <1>4, <1>5, <1>6, ActedInOrder DEF Next, Host
-----------------------------------------------------------------------------
(* The banner, the screen and the model.                                   *)

LEMMA LastEdgeKept ==
  ASSUME TypeOK, LastEdge, [Next]_vars
  PROVE  LastEdge'
<1>1. CASE UNCHANGED <<adjusting, emitted>>
      BY <1>1 DEF LastEdge
<1>2. ASSUME NEW e \in Edges, SendEdge(e) PROVE LastEdge'
  <2> DEFINE k == EdgesIn(emitted)
  <2>1. EdgesIn(Append(emitted, e)) = IF e \in Measured THEN Append(k, e) ELSE k
        BY KeepingAppend DEF TypeOK, SessionTypes, EdgesIn
  <2>2. emitted' = Append(emitted, e) /\ adjusting' = (e = "entered" \/ (e = "odd" /\ adjusting))
        BY <1>2 DEF SendEdge
  <2>3. k \in Seq(Measured)
        BY OnWireIs DEF TypeOK
  <2>4. CASE e \in Measured
    <3>1. EdgesIn(emitted') = Append(k, e)
          BY <2>1, <2>2, <2>4
    <3> HIDE DEF k
    <3>2. Len(Append(k, e)) = Len(k) + 1 /\ Append(k, e)[Len(k) + 1] = e
          BY <2>3, <2>4, AppendProperties
    <3>3. adjusting' = (e = "entered")
          BY <2>2, <2>4 DEF Measured
    <3> QED BY <3>1, <3>2, <3>3 DEF LastEdge
  <2>5. CASE e \notin Measured
    <3>1. EdgesIn(emitted') = k /\ e = "odd"
          BY <2>1, <2>2, <2>5 DEF Measured, Edges
    <3>2. adjusting' = adjusting
          BY <2>2, <3>1 DEF TypeOK, SessionTypes
    <3> QED BY <3>1, <3>2 DEF LastEdge
  <2> QED BY <2>4, <2>5
<1>3. (\E e \in Edges : SendEdge(e)) \/ UNCHANGED <<adjusting, emitted>>
      BY DEF Next, Host, Board, BoardNext, Answer, LoseRequest, EditByHand, SendNoise,
             Roundtrip, RoundtripNext, Receive, RecvTimeout, GiveUp, RecvFails, AskNext, Ask,
             TakeReply, FinishRead, Misread, RereadTimesOut, ReadFails, PollQueue, PollWire, PollFails,
             Quit, vars, sessionVars, boardVars
<1> QED BY <1>1, <1>2, <1>3

LEMMA DisplayKept ==
  ASSUME TypeOK, BannerFollows, ScreenFollows, [Next]_vars
  PROVE  BannerFollows' /\ ScreenFollows'
<1>1. CASE PollQueue \/ PollWire
  <2>1. PICK event \in Events, at \in 0..MaxVersion : Handle(event, at)
        BY <1>1, PollIsHandle
  <2>2. /\ delivered' = delivered \o First(event) /\ screen' = Shown(locked', status', model')
        /\ (event \in Measured => locked' = (event = "entered"))
        /\ (event \notin Measured => locked' = locked)
        BY <2>1, Handled
  <2>3. BannerFollows'
    <3>1. CASE event \in Measured
      <4>1. /\ delivered' = Append(delivered, event) /\ delivered \in Seq(Measured)
            BY <2>2, <3>1, AppendIsConcat DEF First, TypeOK, SessionTypes
      <4>2. Len(Append(delivered, event)) = Len(delivered) + 1 /\ Append(delivered, event)[Len(delivered) + 1] = event
            BY <3>1, <4>1, AppendProperties
      <4> QED BY <2>2, <3>1, <4>1, <4>2 DEF BannerFollows
    <3>2. CASE event \notin Measured
      <4>1. delivered' = delivered
            BY <2>2, <3>2, ConcatEmptySeq DEF First, TypeOK, SessionTypes
      <4> QED BY <2>2, <3>2, <4>1 DEF BannerFollows
    <3> QED BY <3>1, <3>2
  <2> QED BY <2>2, <2>3 DEF ScreenFollows
<1>2. CASE FinishRead \/ RereadTimesOut
      BY <1>2 DEF FinishRead, RereadTimesOut, Draw, BannerFollows, ScreenFollows
<1>3. CASE Misread \/ ReadFails \/ PollFails \/ Quit
      BY <1>3 DEF Misread, ReadFails, PollFails, Fail, Quit, BannerFollows, ScreenFollows, Idle
<1>4. CASE UNCHANGED appVars
      BY <1>4 DEF appVars, BannerFollows, ScreenFollows, Idle
<1> QED BY <1>1, <1>2, <1>3, <1>4 DEF Next, Host, Board, AskNext, Roundtrip, TakeReply, vars

LEMMA ModelKept ==
  ASSUME TypeOK, PipeInv, ModelIsCurrent, [Next]_vars
  PROVE  ModelIsCurrent'
<1>1. CASE FinishRead
  <2>1. /\ Reading /\ result # None /\ result.type = "ok" /\ Decodes(result.report, Asked)
        /\ model' = Append(got, result.report) /\ modelFrom' = readFrom /\ got \in Seq(Replies)
        BY <1>1 DEF FinishRead, TypeOK, SessionTypes
  <2>2. /\ result.report \in Replies /\ IsReply(result.report)
        /\ Script[Len(got) + 1] \in Echoed => result.report.req = Script[Len(got) + 1]
        BY <2>1, Taken DEF Asked
  <2>3. Current(result.report, readFrom)
        BY <2>1, <2>2 DEF PipeInv, ReadIsCurrent
  <2>4. PICK N \in Nat : N = Len(got)
        BY <2>1, LenProperties
  <2>5. Len(model') = N + 1 /\ model'[N + 1] = result.report /\ \A i \in 1..N : model'[i] = got[i]
        BY <2>1, <2>2, <2>4, AppendProperties
  <2>6. ASSUME NEW i \in 1..(N + 1)
        PROVE  (Script[i] \in Echoed => model'[i].req = Script[i]) /\ Current(model'[i], readFrom)
    <3>1. CASE i = N + 1
          BY <2>2, <2>3, <2>4, <2>5, <3>1
    <3>2. CASE i \in 1..N
      <4>1. (Script[i] \in Echoed => got[i].req = Script[i]) /\ Current(got[i], readFrom)
            BY <2>1, <2>4, <3>2 DEF PipeInv, ReadIsCurrent
      <4> QED BY <2>5, <3>2, <4>1
    <3>3. i = N + 1 \/ i \in 1..N
          OBVIOUS
    <3> QED BY <3>1, <3>2, <3>3
  <2> QED BY <2>1, <2>5, <2>6 DEF ModelIsCurrent
<1>2. CASE PollQueue \/ PollWire
  <2>1. UNCHANGED <<model, modelFrom>>
        BY <1>2, PollIsHandle, Handled
  <2> QED BY <2>1 DEF ModelIsCurrent
<1>3. CASE UNCHANGED <<model, modelFrom>>
      BY <1>3 DEF ModelIsCurrent
<1>4. FinishRead \/ PollQueue \/ PollWire \/ UNCHANGED <<model, modelFrom>>
      BY DEF Next, Host, Board, AskNext, Roundtrip, TakeReply, RereadTimesOut, Misread, ReadFails,
             PollFails, Fail, Quit, vars, appVars
<1> QED BY <1>1, <1>2, <1>3, <1>4
-----------------------------------------------------------------------------
(* The pipe, action by action.                                             *)

LEMMA PipeStays ==
  ASSUME PipeInv, UNCHANGED <<version, adjusting, wire, queue, queuedAt>>
  PROVE  WireRises' /\ LastLeft' /\ (LeftAhead' <=> LeftAhead)
BY DEF PipeInv, WireRises, LastLeft, LeftAhead, LeftOnWire, LeftInQueue

LEMMA BoardPipe ==
  ASSUME TypeOK, PipeInv, Board
  PROVE  PipeInv'
<1>1. UNCHANGED <<hostVars, readVars, phase, status, modelFrom>>
      BY DEF Board, appVars
<1>2. ASSUME Answer PROVE PipeInv'
  <2>1. PICK report \in {Reply(Head(owed), ValueOf(Head(owed))), CmdFail} : wire' = Append(wire, report)
        BY <1>2 DEF Answer
  <2>2. report \in Reports
    <3>1. Head(owed) \in Requests
          BY <1>2, HeadTailProperties DEF Answer, TypeOK, SessionTypes
    <3> QED BY <2>1, <3>1, SentReports DEF TypeOK
  <2>3. IsReply(report) => Current(report, version)
        BY <2>1, Numbers DEF Reply, CmdFail, IsReply, Current, ValueOf
  <2>4. ~IsBeEvent(report)
        BY <2>1 DEF Reply, CmdFail, IsBeEvent
  <2>5. version' = version /\ adjusting' = adjusting /\ adjusting' \in BOOLEAN
        BY <1>2 DEF Answer, TypeOK, SessionTypes
  <2> QED BY <1>1, <2>1, <2>2, <2>3, <2>4, <2>5, SendsPipe
<1>3. ASSUME LoseRequest PROVE PipeInv'
  <2>1. UNCHANGED <<version, adjusting, wire, queue, queuedAt>>
        BY <1>1, <1>3 DEF LoseRequest, hostVars, readVars
  <2>2. WireRises' /\ LastLeft' /\ (LeftAhead' <=> LeftAhead)
        BY <2>1, PipeStays
  <2> QED BY <1>1, <2>1, <2>2 DEF PipeInv, ReadIsCurrent, ReadOfLast, Reading, Idle, hostVars, readVars
<1>4. ASSUME EditByHand PROVE PipeInv'
  <2>1. /\ adjusting /\ adjusting' = adjusting /\ version' = version + 1
        /\ UNCHANGED <<wire, queue, queuedAt, result, got, readFrom, phase, status, modelFrom>>
        BY <1>1, <1>4 DEF EditByHand, hostVars, readVars
  <2>2. WireRises'
        BY <2>1, Numbers DEF PipeInv, WireRises
  <2>3. ReadIsCurrent'
        BY <2>1, Numbers DEF PipeInv, ReadIsCurrent, Reading
  <2> QED BY <2>1, <2>2, <2>3 DEF PipeInv, LastLeft, ReadOfLast
<1>5. ASSUME NEW e \in Edges, SendEdge(e) PROVE PipeInv'
  <2>1. wire' = Append(wire, Edge(e, version)) /\ Edge(e, version) \in Reports /\ version' = version
        BY <1>5, SentReports DEF SendEdge, TypeOK
  <2>2. adjusting' \in BOOLEAN /\ (adjusting => adjusting' \/ e = "left")
        BY <1>5 DEF SendEdge, TypeOK, SessionTypes, Edges
  <2>3. /\ ~IsReply(Edge(e, version)) /\ IsBeEvent(Edge(e, version))
        /\ Edge(e, version).version = version /\ Edge(e, version).edge = e
        BY DEF Edge, IsReply, IsBeEvent
  <2> QED BY <1>1, <2>1, <2>2, <2>3, SendsPipe
<1>6. ASSUME NEW n \in NoiseKinds, SendNoise(n) PROVE PipeInv'
  <2>1. /\ wire' = Append(wire, Noise(n)) /\ Noise(n) \in Reports /\ version' = version
        /\ adjusting' = adjusting /\ adjusting' \in BOOLEAN
        BY <1>6, SentReports DEF SendNoise, TypeOK, SessionTypes
  <2>2. ~IsReply(Noise(n)) /\ ~IsBeEvent(Noise(n))
        BY SessionAssumption DEF Noise, IsReply, IsBeEvent
  <2> QED BY <1>1, <2>1, <2>2, SendsPipe
<1> QED BY <1>2, <1>3, <1>4, <1>5, <1>6 DEF Board, BoardNext

LEMMA RoundtripPipe ==
  ASSUME TypeOK, PipeInv, Roundtrip
  PROVE  PipeInv'
<1>1. /\ Reading /\ ~Idle /\ RoundtripNext
      /\ queuedAt' = (IF queue' # queue THEN Append(queuedAt, VersionOf(Head(wire))) ELSE queuedAt)
      /\ UNCHANGED <<got, readFrom, phase, status, modelFrom>>
      BY DEF Roundtrip, appVars, Reading, Idle
<1>2. UNCHANGED <<version, adjusting>>
      BY <1>1 DEF RoundtripNext, Receive, RecvTimeout, GiveUp, RecvFails, boardVars
<1>3. CASE Receive
  <2>1. wire # <<>> /\ wire' = Tail(wire)
        BY <1>3 DEF Receive
  <2>2. CASE IsBeEvent(Head(wire))
    <3>1. queue' = Append(queue, EventOf(Head(wire))) /\ result' = result
          BY <1>3, <2>2 DEF Receive, IsBeEvent, CmdFail
    <3>2. EventOf(Head(wire)) \in Events
          BY <2>1, HeadTailProperties, ReportParts DEF TypeOK, SessionTypes
    <3>3. Len(queue') = Len(queue) + 1 /\ Len(queue) \in Nat
          BY <3>1, <3>2, AppendProperties, LenProperties DEF TypeOK, SessionTypes
    <3>4. queuedAt' = Append(queuedAt, VersionOf(Head(wire)))
          BY <1>1, <3>3
    <3> QED BY <1>1, <1>2, <2>1, <2>2, <3>1, <3>4, ReceivePipe
  <2>3. CASE ~IsBeEvent(Head(wire))
    <3>1. UNCHANGED <<queue, queuedAt>>
          BY <1>1, <1>3, <2>3 DEF Receive
    <3>2. result' # None /\ result'.type = "ok" => result' = result \/ result'.report = Head(wire)
      <4>1. result' = result \/ result' = Ok(Head(wire)) \/ result' = Error("device")
            BY <1>3, <2>3 DEF Receive, Return
      <4> QED BY <4>1 DEF Ok, Error
    <3> QED BY <1>1, <1>2, <2>1, <2>3, <3>1, <3>2, ReceivePipe
  <2> QED BY <2>2, <2>3
<1>4. CASE RecvTimeout \/ GiveUp \/ RecvFails
  <2>1. /\ UNCHANGED <<wire, queue>>
        /\ result' = result \/ result' = Error("timeout") \/ result' = Error("io")
        BY <1>4 DEF RecvTimeout, GiveUp, RecvFails, Return, boardVars
  <2>2. WireRises' /\ LastLeft' /\ (LeftAhead' <=> LeftAhead)
        BY <1>1, <1>2, <2>1, PipeStays
  <2>3. ReadIsCurrent'
    <3>1. result' # None /\ result'.type = "ok" => result' = result
          BY <2>1 DEF Error
    <3> QED BY <1>1, <1>2, <2>1, <3>1 DEF PipeInv, ReadIsCurrent, Reading
  <2> QED BY <1>1, <1>2, <2>2, <2>3 DEF PipeInv, ReadOfLast, Reading, Idle
<1> QED BY <1>1, <1>3, <1>4 DEF RoundtripNext

LEMMA ReadPipe ==
  ASSUME TypeOK, PipeInv,
         AskNext \/ TakeReply \/ FinishRead \/ Misread \/ RereadTimesOut \/ ReadFails
  PROVE  PipeInv'
<1>1. UNCHANGED <<version, adjusting, wire, queue, queuedAt, readFrom>>
      BY DEF AskNext, Ask, TakeReply, FinishRead, Misread, RereadTimesOut, ReadFails, boardVars, readVars
<1>2. WireRises' /\ LastLeft' /\ (LeftAhead' <=> LeftAhead)
      BY <1>1, PipeStays
<1>3. CASE AskNext
  <2>1. /\ UNCHANGED <<got, phase, status, modelFrom>> /\ Reading
        /\ result' = result \/ result' = Error("io")
        BY <1>3 DEF AskNext, Ask, appVars, readVars
  <2>2. result' # None /\ result'.type = "ok" => result' = result
        BY <2>1 DEF Error
  <2> QED BY <1>1, <1>2, <2>1, <2>2 DEF PipeInv, ReadIsCurrent, ReadOfLast, Reading, Idle
<1>4. CASE TakeReply
  <2>1. /\ Reading /\ result # None /\ result.type = "ok" /\ Decodes(result.report, Asked)
        /\ got' = Append(got, result.report) /\ result' = None /\ UNCHANGED <<phase, status, modelFrom>>
        BY <1>4 DEF TakeReply, appVars
  <2>2. /\ result.report \in Replies /\ IsReply(result.report)
        /\ Script[Len(got) + 1] \in Echoed => result.report.req = Script[Len(got) + 1]
        BY <2>1, Taken DEF Asked
  <2>3. Current(result.report, readFrom)
        BY <2>1, <2>2 DEF PipeInv, ReadIsCurrent
  <2>4. PICK N \in Nat : N = Len(got)
        BY LenProperties DEF TypeOK, SessionTypes
  <2>5. Len(got') = N + 1 /\ got'[N + 1] = result.report /\ \A i \in 1..N : got'[i] = got[i]
        BY <2>1, <2>2, <2>4, AppendProperties DEF TypeOK, SessionTypes
  <2>6. ASSUME NEW i \in 1..(N + 1)
        PROVE  (Script[i] \in Echoed => got'[i].req = Script[i]) /\ Current(got'[i], readFrom)
    <3>1. CASE i = N + 1
          BY <2>2, <2>3, <2>4, <2>5, <3>1
    <3>2. CASE i \in 1..N
      <4>1. (Script[i] \in Echoed => got[i].req = Script[i]) /\ Current(got[i], readFrom)
            BY <2>1, <2>4, <3>2 DEF PipeInv, ReadIsCurrent
      <4> QED BY <2>5, <3>2, <4>1
    <3>3. i = N + 1 \/ i \in 1..N
          OBVIOUS
    <3> QED BY <3>1, <3>2, <3>3
  <2>7. ReadIsCurrent'
        BY <1>1, <2>1, <2>5, <2>6 DEF PipeInv, ReadIsCurrent, Reading
  <2> QED BY <1>1, <1>2, <2>1, <2>7 DEF PipeInv, ReadOfLast, Reading, Idle
<1>5. CASE FinishRead
  <2>1. Reading /\ ~Reading' /\ modelFrom' = readFrom
        BY <1>5 DEF FinishRead, Reading
  <2> QED BY <1>1, <1>2, <2>1 DEF PipeInv, ReadIsCurrent, ReadOfLast
<1>6. CASE RereadTimesOut
  <2>1. ~Reading' /\ status' # ""
        BY <1>6 DEF RereadTimesOut, Reading
  <2> QED BY <1>1, <1>2, <2>1 DEF PipeInv, ReadIsCurrent, ReadOfLast
<1>7. CASE Misread \/ ReadFails
  <2>1. ~Reading' /\ ~Idle'
        BY <1>7 DEF Misread, ReadFails, Fail, Reading, Idle
  <2> QED BY <1>1, <1>2, <2>1 DEF PipeInv, ReadIsCurrent, ReadOfLast
<1> QED BY <1>3, <1>4, <1>5, <1>6, <1>7

LEMMA PipeKept ==
  ASSUME TypeOK, PipeInv, [Next]_vars
  PROVE  PipeInv'
<1>1. CASE PollFails \/ Quit
  <2>1. UNCHANGED <<version, adjusting, wire, queue, queuedAt, readFrom>> /\ ~Reading' /\ ~Idle'
        BY <1>1 DEF PollFails, Quit, Fail, Reading, Idle, sessionVars, boardVars, hostVars, readVars
  <2>2. WireRises' /\ LastLeft' /\ (LeftAhead' <=> LeftAhead)
        BY <2>1, PipeStays
  <2> QED BY <2>1, <2>2 DEF PipeInv, ReadIsCurrent, ReadOfLast
<1>2. CASE UNCHANGED vars
  <2>1. UNCHANGED <<version, adjusting, wire, queue, queuedAt, readFrom, result, got, phase, status, modelFrom>>
        BY <1>2 DEF vars, sessionVars, boardVars, hostVars, readVars, appVars
  <2>2. WireRises' /\ LastLeft' /\ (LeftAhead' <=> LeftAhead)
        BY <2>1, PipeStays
  <2> QED BY <2>1, <2>2 DEF PipeInv, ReadIsCurrent, ReadOfLast, Reading, Idle
<1> QED BY <1>1, <1>2, BoardPipe, RoundtripPipe, ReadPipe, QueuePipe, PolledPipe DEF Next, Host
-----------------------------------------------------------------------------
(* The theorems.                                                           *)

\* It holds at the start and every step keeps it: the board may send an edge,
\* noise or a late answer between any two steps of a read.
THEOREM TuiInductive ==
  /\ Init => TInv
  /\ TInv /\ [Next]_vars => TInv'
<1>1. ASSUME Init PROVE TInv
  <2>1. EdgesIn(<<>>) = <<>>
        BY KeepingEmpty DEF EdgesIn
  <2>2. /\ version = 0 /\ adjusting \in BOOLEAN /\ owed = <<>> /\ wire = <<>> /\ emitted = <<>>
        /\ queue = <<>> /\ call = None /\ result = None /\ phase = "opening"
        /\ got = <<>> /\ queuedAt = <<>> /\ readFrom = 0 /\ model = <<>> /\ modelFrom = 0
        /\ locked = FALSE /\ delivered = <<>> /\ ~Idle
        BY <1>1 DEF Init, BoardInit, HostInit, Idle
  <2>3. 0 \in 0..MaxVersion /\ Len(Script) \in Nat /\ Len(Script) # 0
        BY SessionAssumption, TuiAssumption, LenProperties, EmptySeq
  <2>4. \A X : <<>> \in Seq(X)
        BY EmptySeq
  <2>5. TypeOK
        BY <2>2, <2>3, <2>4 DEF TypeOK, SessionTypes
  <2>6. OnWire = <<>>
    <3>1. [i \in 1..Len(wire) |-> EventOf(wire[i])] = <<>>
          BY <2>2
    <3> QED BY <2>1, <3>1 DEF OnWire
  <2>7. EdgesInOrder
    <3>1. <<>> \o <<>> = <<>>
          BY EmptySeq, ConcatEmptySeq
    <3> QED BY <2>1, <2>2, <2>6, <3>1 DEF EdgesInOrder
  <2>8. LastEdge /\ BannerFollows
        BY <2>1, <2>2 DEF LastEdge, BannerFollows
  <2>9. ScreenFollows
        BY <2>2 DEF ScreenFollows
  <2>10. WireRises /\ LastLeft /\ ReadIsCurrent /\ ReadOfLast /\ ModelIsCurrent
         BY <2>2 DEF WireRises, LastLeft, ReadIsCurrent, ReadOfLast, ModelIsCurrent
  <2> QED BY <2>5, <2>7, <2>8, <2>9, <2>10 DEF TInv
<1>2. ASSUME TInv, [Next]_vars PROVE TInv'
  <2>1. PipeInv'
        BY <1>2, PipeKept DEF TInv, PipeInv
  <2>2. ModelIsCurrent'
        BY <1>2, ModelKept DEF TInv, PipeInv
  <2> QED BY <1>2, <2>1, <2>2, TypesKept, OrderKept, LastEdgeKept, DisplayKept DEF TInv, PipeInv
<1> QED BY <1>1, <1>2

THEOREM TuiInvariant == Spec => []TInv
BY TuiInductive, PTL DEF Spec

\* For every script of requests, every number of edges and edits and every
\* order in which reports arrive, are lost or come late: the interface acts on
\* the board's edges once each and in the order the board sent them.
THEOREM EdgesAlwaysInOrder == Spec => []EdgesInOrder
<1>1. TInv => EdgesInOrder
      BY DEF TInv
<1> QED BY <1>1, TuiInvariant, PTL

\* However many reads timed out before it and answer late, what is on display
\* has no key's value in another key's place and nothing from before the edge
\* it was read for.
THEOREM ModelIsAlwaysCurrent == Spec => []ModelIsCurrent
<1>1. TInv => ModelIsCurrent
      BY DEF TInv
<1> QED BY <1>1, TuiInvariant, PTL

\* Once every edge is handled and the board is out of its adjust mode, values
\* that a hand can change are shown with a note unless each is its own key's
\* and from after the last edit; the rows of the matrix are left out.
THEOREM StaleIsAlwaysNoted == Spec => []StaleIsNoted
<1>1. ASSUME TInv, Settled, status = "", NEW i \in 1..Len(model)
      PROVE  /\ Script[i] \in Echoed => model[i].req = Script[i]
             /\ model[i].req \notin Fixed => model[i].version >= version
  <2>1. TypeOK /\ Idle /\ ~adjusting /\ EdgesIn(queue) = <<>> /\ EdgesIn(EventsOf(wire)) = <<>>
        BY <1>1, OnWireIs DEF TInv, Settled, TypeOK
  <2>2. \A j \in 1..Len(queue) : queue[j] \notin Measured
        BY <2>1, NoEdges DEF TypeOK, SessionTypes
  <2>3. Len(wire) \in Nat /\ \A p \in 1..Len(wire) : wire[p] \in Reports /\ EventOf(wire[p]) \in Events
    <3>1. Len(wire) \in Nat /\ \A p \in 1..Len(wire) : wire[p] \in Reports
          BY <2>1, Numbers
    <3> QED BY <3>1, ReportParts
  <2>4. EventsOf(wire) \in Seq(Events) /\ Len(EventsOf(wire)) = Len(wire)
        /\ \A p \in 1..Len(wire) : EventsOf(wire)[p] = EventOf(wire[p])
        BY <2>3 DEF EventsOf
  <2>5. \A p \in 1..Len(wire) : EventOf(wire[p]) \notin Measured
        BY <2>1, <2>4, NoEdges
  <2>6. ~LeftAhead
    <3>1. ASSUME NEW p \in 1..Len(wire), LeftOnWire(p) PROVE FALSE
          BY <2>3, <2>5, <3>1, ReportParts DEF LeftOnWire, Measured
    <3>2. ASSUME NEW j \in 1..Len(queue), LeftInQueue(j) PROVE FALSE
          BY <2>2, <3>2 DEF LeftInQueue, Measured
    <3> QED BY <3>1, <3>2 DEF LeftAhead
  <2>7. modelFrom = version
        BY <1>1, <2>1, <2>6 DEF TInv, ReadOfLast
  <2> QED BY <1>1, <2>7 DEF TInv, ModelIsCurrent, Current
<1>2. TInv => StaleIsNoted
      BY <1>1 DEF StaleIsNoted
<1> QED BY <1>2, TuiInvariant, PTL

\* The frame on the screen is of the state the interface is in, and once every
\* edge is handled its banner says what the board is doing.
THEOREM ScreenIsAlwaysTrue == Spec => []ScreenIsTrue
<1>1. ASSUME TInv, EdgesIn(queue) = <<>>, OnWire = <<>>, delivered # <<>>
      PROVE  locked = adjusting
  <2>1. delivered \in Seq(Measured)
        BY <1>1 DEF TInv, TypeOK, SessionTypes
  <2>2. delivered \o <<>> = delivered
        BY <2>1, ConcatEmptySeq
  <2>3. EdgesIn(emitted) = delivered
        BY <1>1, <2>2 DEF TInv, EdgesInOrder
  <2>4. adjusting = (delivered[Len(delivered)] = "entered")
        BY <1>1, <2>3 DEF TInv, LastEdge
  <2> QED BY <1>1, <2>4 DEF TInv, BannerFollows
<1>2. TInv => ScreenIsTrue
      BY <1>1 DEF ScreenIsTrue, TInv, ScreenFollows
<1> QED BY <1>2, TuiInvariant, PTL

=============================================================================
