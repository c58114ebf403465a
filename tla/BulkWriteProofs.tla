--------------------------- MODULE BulkWriteProofs ---------------------------
(***************************************************************************)
(* For any keys, profiles, snapshot files, report size and number of       *)
(* commands, cut off anywhere, with one frame of each that the firmware    *)
(* may ignore or strip advanced functions with: at most one key is left    *)
(* mixed, "verified" is true, a restore reaches the profile of its         *)
(* snapshot only and `restore --last` rolls back.                          *)
(*                                                                         *)
(* The records a command writes never leave the invariant's sight: what is *)
(* still to send is the end of the plan in the order of sending (InOrder), *)
(* and as long as the firmware does as told the board holds the old value  *)
(* exactly where a record is still to be sent (Landing).  What is in no    *)
(* plan is untouched whatever the firmware does (Untouched), and the       *)
(* newest snapshot is what its profile held when the command that saved it *)
(* began (Newest).                                                         *)
(***************************************************************************)
EXTENDS BulkWrite, Integers, FiniteSetTheorems, SequenceTheorems, TLAPS

RtLayouts == {"mode", "press", "release"}

\* The cells a command writes.
Cells ==
  IF cmd = None THEN {}
  ELSE IF cmd.op = "set rt" THEN cmd.keys \X RtLayouts
  ELSE IF cmd.op = "set mm" THEN {Travel}
  ELSE IF snap # None THEN {Travel} \cup Recorded(snap)
  ELSE {}

\* What a key is to hold, under a command that writes keys or another one.
Aim(k, l) == IF Bulk THEN Meant(k, l) ELSE Field(Was[k], l)

\* What is written to a cell.
Goal(c) ==
  IF c = Travel THEN (IF cmd.op = "restore" THEN snap.travel ELSE cmd.travel)
  ELSE Aim(c[1], c[2])

Outcomes == {"none", "same", "dry", "refused", "failed", "saved", "verified", "mismatch"}

Snapshots == [profile : Profiles, travel : Travels, keys : Board]

TypeOK ==
  /\ profiles \in [Profiles -> Holding] /\ active \in Profiles
  /\ backups \in Seq(Snapshots)
  /\ cmd \in BulkCommands \cup {None}
  /\ pc \in {"idle", "read", "backup", "plan", "write"}
  /\ outcome \in Outcomes
  /\ start \in [profiles : [Profiles -> Holding], active : Profiles, saved : Nat]
  /\ undo \in [Profiles -> Holding]
  /\ obeyed \in BOOLEAN

\* A command is running, and which phases it goes through.
Phases ==
  /\ pc # "idle" => cmd # None /\ outcome = "none"
  /\ pc = "backup" => cmd.op # "profile"
  /\ pc = "plan" => cmd.op = "set rt"
  /\ pc = "write" => cmd.op # "backup"
  /\ outcome = "verified" => cmd # None /\ cmd.op # "backup"

\* Only `wh profile` leaves the profile it began on, and only that one is written.
OneProfile ==
  /\ cmd = None \/ cmd.op # "profile" => active = start.active
  /\ \A p \in Profiles : p # start.active => profiles[p] = start.profiles[p]
  /\ cmd # None /\ cmd.op \in {"profile", "backup"} => profiles = start.profiles

\* Nothing is written before the backup.
NotYet ==
  pc \in {"read", "backup", "plan"} => profiles = start.profiles /\ active = start.active /\ obeyed

\* Until the backup is saved there is none of this command; then there is one.
Saved ==
  /\ pc \in {"read", "backup"} => Len(backups) = start.saved
  /\ pc \in {"plan", "write"} /\ cmd.op # "profile" =>
       backups # <<>> /\ backups[Len(backups)].profile = active

\* What a restore writes was checked against the board.
Loadable ==
  snap # None =>
    /\ cmd # None /\ cmd.op = "restore"
    /\ IsSnapshot(snap) /\ snap.profile = active /\ DOMAIN snap.keys \subseteq Keys

\* A restore past its checks has its snapshot.
HasSnapshot ==
  cmd # None /\ cmd.op = "restore" /\ (pc \in {"backup", "write"} \/ outcome = "verified")
    => snap # None

\* The records that go last.
AtTheEnd(P) == P \subseteq Cells /\ \A d \in P, c \in Cells : Precedes(d, c) => c \in P

\* What is still to send is the plan's end, in the order of sending.
InOrder ==
  /\ todo = [c \in DOMAIN todo |-> todo[c]]
  /\ pc = "read" => DOMAIN todo = {}
  /\ pc = "backup" => DOMAIN todo = IF cmd.op = "set rt" THEN {} ELSE Cells
  /\ pc = "write" => AtTheEnd(DOMAIN todo)
  /\ pc \in {"backup", "write"} => \A c \in DOMAIN todo : todo[c] = Goal(c)

StartTravel == start.profiles[start.active].travel

\* The old values where a record is still to come, the new ones elsewhere.
AsFar(P) ==
  \A k \in Keys, l \in Layouts :
    Field(Now.keys[k], l) = IF <<k, l>> \in P THEN Field(Was[k], l) ELSE Aim(k, l)

\* That is what the board holds if the firmware does as told, while a command
\* writes ...
Landing ==
  pc = "write" /\ obeyed /\ cmd.op # "profile" =>
    /\ AsFar(DOMAIN todo)
    /\ Travel \in Cells \ DOMAIN todo => Now.travel = Goal(Travel)

\* ... and wherever it was cut off.
HalfWay ==
  obeyed /\ cmd # None /\ cmd.op # "profile" => \E P \in SUBSET Cells : AtTheEnd(P) /\ AsFar(P)

\* Whatever it does, it does it to what the frame names.
Untouched ==
  cmd # None /\ cmd.op # "profile" =>
    /\ \A k \in Keys, l \in Layouts : <<k, l>> \notin Cells => Field(Now.keys[k], l) = Field(Was[k], l)
    /\ Travel \notin Cells => Now.travel = StartTravel

\* What the last command that saved a snapshot began with.
Undone == IF Len(backups) > start.saved THEN start.profiles ELSE undo

IsFrom(s, then) ==
  /\ s = SnapshotOf(then[s.profile], s.profile)
  /\ \A p \in Profiles : p # s.profile => profiles[p] = then[p]

Newest ==
  /\ backups # <<>> => IsFrom(backups[Len(backups)], Undone)
  /\ snap # None /\ cmd.last => IsFrom(snap, undo)

IInv ==
  /\ TypeOK /\ Phases /\ OneProfile /\ NotYet /\ Saved /\ Loadable /\ HasSnapshot
  /\ InOrder /\ Landing /\ HalfWay /\ Untouched /\ Newest /\ VerifiedIsTrue

-----------------------------------------------------------------------------
(* Frames: the records that go first, and no others.                        *)

AllCells == {Travel} \cup (Nat \X Layouts)

LEMMA CellShape ==
  ASSUME NEW c \in AllCells
  PROVE  \/ c = Travel /\ c[2] = "travel"
         \/ c[1] \in Nat /\ c[2] \in Layouts /\ c = <<c[1], c[2]>> /\ c # Travel
<1>1. CASE c = Travel
      BY <1>1 DEF Travel
<1>2. CASE c \in Nat \X Layouts
  <2>1. c[1] \in Nat /\ c[2] \in Layouts /\ c = <<c[1], c[2]>>
        BY <1>2
  <2>2. c[2] # "travel"
        BY <2>1 DEF Layouts, ValueLayouts
  <2> QED BY <2>1, <2>2 DEF Travel
<1> QED BY <1>1, <1>2 DEF AllCells

LEMMA StageIs ==
  /\ Stage("travel") = 0 /\ Stage("apks") = 2 /\ Stage("rtks") = 3
  /\ \A l \in ValueLayouts : Stage(l) = 1 /\ LayoutOrder[l] \in 1..4
  /\ \A l \in Layouts : Stage(l) \in 1..3
  /\ \A c \in AllCells : Stage(c[2]) \in 0..3
<1>1. /\ Stage("travel") = 0 /\ Stage("apks") = 2 /\ Stage("rtks") = 3
      /\ \A l \in ValueLayouts : Stage(l) = 1 /\ LayoutOrder[l] \in 1..4
      BY DEF Stage, ValueLayouts, LayoutOrder
<1>2. \A l \in Layouts : Stage(l) \in 1..3
      BY DEF Stage, Layouts, ValueLayouts
<1> QED BY <1>1, <1>2, CellShape

LEMMA PrecedesTransitive ==
  ASSUME NEW c \in AllCells, NEW d \in AllCells, NEW e \in AllCells, Precedes(e, d), Precedes(d, c)
  PROVE  Precedes(e, c)
<1>1. Stage(c[2]) \in 0..3 /\ Stage(d[2]) \in 0..3 /\ Stage(e[2]) \in 0..3
      BY StageIs
<1>2. Stage(e[2]) <= Stage(d[2]) /\ Stage(d[2]) <= Stage(c[2])
      BY <1>1 DEF Precedes
<1>3. CASE Stage(e[2]) < Stage(c[2])
      BY <1>3 DEF Precedes
<1>4. CASE Stage(e[2]) = Stage(c[2])
  <2>1. Stage(e[2]) = Stage(d[2]) /\ Stage(d[2]) = Stage(c[2])
        BY <1>1, <1>2, <1>4
  <2>2. /\ e # d /\ d # c
        /\ \/ e[1] # d[1] /\ e[1] < d[1]
           \/ e[1] = d[1] /\ LayoutOrder[e[2]] < LayoutOrder[d[2]]
        /\ \/ d[1] # c[1] /\ d[1] < c[1]
           \/ d[1] = c[1] /\ LayoutOrder[d[2]] < LayoutOrder[c[2]]
        BY <1>1, <2>1 DEF Precedes
  <2>3. c # Travel /\ d # Travel /\ e # Travel
    <3>1. \A x, y \in AllCells : Stage(x[2]) = Stage(y[2]) /\ x # y => x # Travel
      <4> SUFFICES ASSUME NEW y \in AllCells, Stage("travel") = Stage(y[2]), Travel # y PROVE FALSE
          BY DEF Travel
      <4>1. y[2] \in Layouts
            BY CellShape
      <4> QED BY <4>1, StageIs
    <3> QED BY <3>1, <2>1, <2>2
  <2>4. /\ c[1] \in Nat /\ d[1] \in Nat /\ e[1] \in Nat
        /\ c[2] \in Layouts /\ d[2] \in Layouts /\ e[2] \in Layouts
        /\ c = <<c[1], c[2]>> /\ d = <<d[1], d[2]>> /\ e = <<e[1], e[2]>>
        BY <2>3, CellShape
  <2>5. CASE Stage(c[2]) = 1
    <3>1. c[2] \in ValueLayouts /\ d[2] \in ValueLayouts /\ e[2] \in ValueLayouts
          BY <2>1, <2>4, <2>5, StageIs DEF Layouts
    <3>2. LayoutOrder[c[2]] \in 1..4 /\ LayoutOrder[d[2]] \in 1..4 /\ LayoutOrder[e[2]] \in 1..4
          BY <3>1, StageIs
    <3>3. \/ e[1] # c[1] /\ e[1] < c[1]
          \/ e[1] = c[1] /\ LayoutOrder[e[2]] < LayoutOrder[c[2]]
          BY <2>2, <2>4, <3>2
    <3>4. e # c
          BY <3>2, <3>3
    <3> QED BY <1>4, <3>3, <3>4 DEF Precedes
  <2>6. CASE Stage(c[2]) # 1
    <3>1. c[2] = d[2] /\ d[2] = e[2]
          BY <2>1, <2>4, <2>6, StageIs DEF Layouts
    <3>2. e[1] # d[1] /\ d[1] # c[1]
          BY <2>2, <2>4, <3>1
    <3>3. e[1] # c[1] /\ e[1] < c[1]
          BY <2>2, <2>4, <3>2
    <3>4. e # c
          BY <3>3
    <3> QED BY <1>4, <3>3, <3>4 DEF Precedes
  <2> QED BY <2>5, <2>6
<1> QED BY <1>1, <1>2, <1>3, <1>4

LEMMA FrameGoesFirst ==
  ASSUME NEW S, S \subseteq AllCells, IsFiniteSet(S)
  PROVE  /\ Frame(S) \subseteq S
         /\ \A c \in Frame(S), d \in S : Precedes(d, c) => d \in Frame(S)
<1>1. Frame(S) \subseteq S
      BY DEF Frame, FirstStage
<1>2. ASSUME NEW c \in Frame(S), NEW d \in S, Precedes(d, c) PROVE d \in Frame(S)
  <2>1. c \in S /\ Cardinality({e \in S : Precedes(e, c)}) < Room(c[2]) /\ \A e \in S : Stage(c[2]) <= Stage(e[2])
        BY <1>2 DEF Frame, FirstStage
  <2>2. Stage(c[2]) \in 0..3 /\ Stage(d[2]) \in 0..3
        BY <2>1, StageIs
  <2>3. Stage(c[2]) <= Stage(d[2]) /\ Stage(d[2]) <= Stage(c[2])
        BY <1>2, <2>1, <2>2 DEF Precedes
  <2>4. Stage(d[2]) = Stage(c[2]) /\ Room(d[2]) = Room(c[2])
        BY <2>2, <2>3 DEF Room
  <2>5. d \in FirstStage(S)
        BY <2>1, <2>4 DEF FirstStage
  <2> DEFINE D == {e \in S : Precedes(e, d)}
             C == {e \in S : Precedes(e, c)}
  <2>6. D \subseteq C
        BY <1>2, <2>1, PrecedesTransitive
  <2>7. IsFiniteSet(C)
        BY FS_Subset
  <2>8. IsFiniteSet(D) /\ Cardinality(D) <= Cardinality(C)
        BY <2>6, <2>7, FS_Subset
  <2>9. Cardinality(D) \in Nat /\ Cardinality(C) \in Nat
        BY <2>7, <2>8, FS_CardinalityType
  <2>10. Room(c[2]) \in Nat
        BY KeysetAssumption DEF Room
  <2>11. Cardinality(C) < Room(c[2])
        BY <2>1
  <2> HIDE DEF C, D
  <2>12. Cardinality(D) < Room(d[2])
        BY <2>4, <2>8, <2>9, <2>10, <2>11
  <2> QED BY <2>5, <2>12 DEF Frame, D
<1> QED BY <1>1, <1>2

-----------------------------------------------------------------------------
(* Settings, and what a frame makes of them.                                *)

\* The values a layout may hold.
FieldRange(l) == IF l = "mode" THEN Mode
                 ELSE IF l \in {"ap", "press", "release"} THEN Travels
                 ELSE Index

LEMMA LayoutsAre == Layouts = {"mode", "ap", "press", "release", "apks", "rtks"}
BY DEF Layouts, ValueLayouts

LEMMA FieldTyped ==
  ASSUME NEW s \in Settings, NEW l \in Layouts
  PROVE  Field(s, l) \in FieldRange(l) /\ Field(s, l) # None
<1>1. Field(s, l) \in FieldRange(l)
      BY LayoutsAre DEF Field, FieldRange, Settings
<1>2. None \notin FieldRange(l)
      BY KeysetAssumption DEF FieldRange
<1> QED BY <1>1, <1>2

LEMMA SnapFieldTyped ==
  ASSUME NEW s \in SnapKey, NEW l \in Layouts, Field(s, l) # None
  PROVE  Field(s, l) \in FieldRange(l)
BY LayoutsAre DEF Field, FieldRange, SnapKey

LEMMA SettingsEqual ==
  ASSUME NEW s \in Settings, NEW t \in Settings, \A l \in Layouts : Field(s, l) = Field(t, l)
  PROVE  s = t
<1>1. s.mode = t.mode /\ s.ap = t.ap /\ s.press = t.press /\ s.release = t.release
      /\ s.apks = t.apks /\ s.rtks = t.rtks
      BY LayoutsAre DEF Field
<1> QED BY <1>1 DEF Settings

LEMMA SettingsAreSnapKeys == Settings \subseteq SnapKey
BY DEF Settings, SnapKey

LEMMA RtModeTyped == ASSUME NEW mode \in Mode PROVE RtMode(mode) \in Mode
BY DEF RtMode, Mode, Nibble, Rt, RtContinuous

LEMMA LandedField ==
  ASSUME NEW b, NEW r, NEW k \in Keys, NEW l \in Layouts
  PROVE  Field(Landed(b, r)[k], l) = Written(r, k, l, Field(b[k], l))
BY LayoutsAre DEF Field, Landed

\* A frame's records, each of its layout's kind.
Fit(r) ==
  /\ Travel \in DOMAIN r => r[Travel] \in Travels
  /\ \A k \in Keys, l \in Layouts : <<k, l>> \in DOMAIN r => r[<<k, l>>] \in FieldRange(l)

LEMMA LandedTyped ==
  ASSUME NEW b \in Board, NEW r, Fit(r)
  PROVE  Landed(b, r) \in Board
<1> SUFFICES ASSUME NEW k \in Keys PROVE Landed(b, r)[k] \in Settings
    BY DEF Landed, Board
<1>1. b[k] \in Settings
      BY DEF Board
<1>2. \A l \in Layouts : Written(r, k, l, Field(b[k], l)) \in FieldRange(l)
      BY <1>1, FieldTyped DEF Written, Fit
<1>3. /\ Written(r, k, "mode", b[k].mode) \in Mode
      /\ Written(r, k, "ap", b[k].ap) \in Travels
      /\ Written(r, k, "press", b[k].press) \in Travels
      /\ Written(r, k, "release", b[k].release) \in Travels
      /\ Written(r, k, "apks", b[k].apks) \in Index
      /\ Written(r, k, "rtks", b[k].rtks) \in Index
      BY <1>2, LayoutsAre DEF Field, FieldRange
<1> QED BY <1>3 DEF Landed, Settings

LEMMA StrippedTyped ==
  ASSUME NEW b \in Board, NEW r
  PROVE  Stripped(b, r) \in Board
<1> SUFFICES ASSUME NEW k \in Keys PROVE Stripped(b, r)[k] \in Settings
    BY DEF Stripped, Board
<1>1. b[k] \in Settings /\ Plain \in Advanced
      BY BulkAssumption DEF Board
<1>2. [b[k] EXCEPT !.mode.rest = Plain] \in Settings
      BY <1>1 DEF Settings, Mode
<1> QED BY <1>1, <1>2 DEF Stripped

LEMMA StrippedField ==
  ASSUME NEW b \in Board, NEW r, NEW k \in Keys, NEW l \in Layouts, l # "mode" \/ <<k, "mode">> \notin DOMAIN r
  PROVE  Field(Stripped(b, r)[k], l) = Field(b[k], l)
<1>1. b[k] \in Settings
      BY DEF Board
<1>2. Stripped(b, r)[k] = IF <<k, "mode">> \in DOMAIN r THEN [b[k] EXCEPT !.mode.rest = Plain] ELSE b[k]
      BY DEF Stripped
<1>3. l # "mode" => Field([b[k] EXCEPT !.mode.rest = Plain], l) = Field(b[k], l)
      BY <1>1, LayoutsAre DEF Field, Settings
<1> QED BY <1>2, <1>3

Hows == {"obeys", "ignores", "strips"}

LEMMA AfterFrameTyped ==
  ASSUME NEW h \in Holding, NEW r, Fit(r), NEW how \in Hows
  PROVE  AfterFrame(h, r, how) \in Holding
<1>1. h.travel \in Travels /\ h.keys \in Board
      BY DEF Holding
<1>2. Landed(h.keys, r) \in Board /\ Stripped(Landed(h.keys, r), r) \in Board
      BY <1>1, LandedTyped, StrippedTyped
<1>3. (IF Travel \in DOMAIN r THEN r[Travel] ELSE h.travel) \in Travels
      BY <1>1 DEF Fit
<1> QED BY <1>1, <1>2, <1>3 DEF AfterFrame, Holding

\* What the frame does not name stays.
LEMMA AfterFrameLeaves ==
  ASSUME NEW h \in Holding, NEW r, Fit(r), NEW how \in Hows
  PROVE  /\ \A k \in Keys, l \in Layouts : <<k, l>> \notin DOMAIN r =>
              Field(AfterFrame(h, r, how).keys[k], l) = Field(h.keys[k], l)
         /\ Travel \notin DOMAIN r => AfterFrame(h, r, how).travel = h.travel
<1>1. h.keys \in Board
      BY DEF Holding
<1>2. Landed(h.keys, r) \in Board
      BY <1>1, LandedTyped
<1>3. ASSUME NEW k \in Keys, NEW l \in Layouts, <<k, l>> \notin DOMAIN r
      PROVE  Field(AfterFrame(h, r, how).keys[k], l) = Field(h.keys[k], l)
  <2>1. Field(Landed(h.keys, r)[k], l) = Field(h.keys[k], l)
        BY <1>3, LandedField DEF Written
  <2>2. Field(Stripped(Landed(h.keys, r), r)[k], l) = Field(Landed(h.keys, r)[k], l)
        BY <1>2, <1>3, StrippedField
  <2> QED BY <2>1, <2>2 DEF AfterFrame
<1>4. Travel \notin DOMAIN r => AfterFrame(h, r, how).travel = h.travel
      BY DEF AfterFrame
<1> QED BY <1>3, <1>4

LEMMA AfterFrameObeyed ==
  ASSUME NEW h \in Holding, NEW r
  PROVE  /\ \A k \in Keys, l \in Layouts :
              Field(AfterFrame(h, r, "obeys").keys[k], l) = Written(r, k, l, Field(h.keys[k], l))
         /\ Travel \in DOMAIN r => AfterFrame(h, r, "obeys").travel = r[Travel]
BY LandedField DEF AfterFrame

-----------------------------------------------------------------------------
(* Commands, snapshots and plans.                                           *)

Ops == {"set rt", "set mm", "restore", "profile", "backup"}

LEMMA CommandIs ==
  ASSUME NEW c \in BulkCommands
  PROVE  /\ c # None /\ c.op \in Ops
         /\ c.op = "set rt" => c.keys \subseteq Keys /\ c.rt \in Travels \X Travels
         /\ c.op = "set mm" => c.travel \in Travels
         /\ c.op = "restore" => c.last \in BOOLEAN /\ (~c.last => c.file \in Files)
         /\ c.op = "profile" => c.profile \in Profiles
<1>1. WellFormedBulk(c) /\ c # None
      BY BulkAssumption
<1> QED BY <1>1 DEF WellFormedBulk, Ops

LEMMA SnapshotsAreSnapshots ==
  ASSUME NEW s \in Snapshots
  PROVE  IsSnapshot(s) /\ s # None /\ DOMAIN s.keys = Keys
<1>1. s.profile \in Profiles /\ s.travel \in Travels /\ s.keys \in Board
      BY DEF Snapshots
<1>2. DOMAIN s.keys = Keys /\ \A k \in Keys : s.keys[k] \in SnapKey
      BY <1>1, SettingsAreSnapKeys DEF Board
<1>3. s # None
      BY BulkAssumption DEF Snapshots
<1> QED BY <1>1, <1>2, <1>3, KeysetAssumption DEF IsSnapshot

LEMMA SnapshotTyped ==
  ASSUME NEW h \in Holding, NEW p \in Profiles
  PROVE  /\ SnapshotOf(h, p) \in Snapshots
         /\ SnapshotOf(h, p).profile = p /\ SnapshotOf(h, p).keys = h.keys /\ SnapshotOf(h, p).travel = h.travel
BY DEF SnapshotOf, Snapshots, Holding

LEMMA CellsAre ==
  ASSUME TypeOK, Loadable
  PROVE  /\ Cells \subseteq {Travel} \cup (Keys \X Layouts)
         /\ Cells \subseteq AllCells /\ IsFiniteSet(Cells)
<1>1. Cells \subseteq {Travel} \cup (Keys \X Layouts)
  <2>1. CASE cmd = None
        BY <2>1 DEF Cells
  <2>2. CASE cmd # None
    <3>1. cmd \in BulkCommands
          BY <2>2 DEF TypeOK
    <3>2. cmd.op = "set rt" => cmd.keys \subseteq Keys
          BY <3>1, CommandIs
    <3>3. RtLayouts \subseteq Layouts
          BY DEF RtLayouts, Layouts, ValueLayouts
    <3>4. snap # None => Recorded(snap) \subseteq Keys \X Layouts
          BY DEF Loadable, Recorded
    <3> QED BY <2>2, <3>2, <3>3, <3>4 DEF Cells
  <2> QED BY <2>1, <2>2
<1>2. Keys \subseteq Nat /\ IsFiniteSet(Keys)
      BY KeysetAssumption
<1>3. IsFiniteSet(Layouts)
  <2>1. Layouts = {"mode"} \cup {"ap"} \cup {"press"} \cup {"release"} \cup {"apks"} \cup {"rtks"}
        BY LayoutsAre
  <2> QED BY <2>1, FS_Singleton, FS_Union
<1>4. IsFiniteSet(Keys \X Layouts)
      BY <1>2, <1>3, FS_Product
<1>5. IsFiniteSet({Travel} \cup (Keys \X Layouts))
      BY <1>4, FS_Singleton, FS_Union
<1>6. IsFiniteSet(Cells)
      BY <1>1, <1>5, FS_Subset
<1> QED BY <1>1, <1>2, <1>6 DEF AllCells

LEMMA AimOutside ==
  ASSUME TypeOK, Loadable, NEW k \in Keys, NEW l \in Layouts, <<k, l>> \notin Cells
  PROVE  Aim(k, l) = Field(Was[k], l)
<1>1. CASE Restoring
  <2>1. <<k, l>> \notin Recorded(snap)
    <3>1. cmd # None /\ cmd.op = "restore" /\ snap # None
          BY <1>1 DEF Restoring
    <3> QED BY <3>1 DEF Cells
  <2> QED BY <1>1, <2>1 DEF Aim, Meant, Bulk
<1>2. CASE ~Restoring /\ Bulk
  <2>1. cmd # None /\ cmd.op = "set rt"
        BY <1>2 DEF Bulk
  <2>2. Cells = cmd.keys \X RtLayouts
        BY <2>1 DEF Cells
  <2>3. k \notin cmd.keys \/ l \notin RtLayouts
        BY <2>2
  <2> QED BY <1>2, <2>3 DEF Aim, Meant, RtLayouts
<1>3. CASE ~Bulk
      BY <1>3 DEF Aim
<1> QED BY <1>1, <1>2, <1>3

LEMMA WasTyped ==
  ASSUME TypeOK, NEW k \in Keys
  PROVE  Was[k] \in Settings /\ Now.keys[k] \in Settings /\ Now \in Holding /\ Now.keys \in Board
         /\ Was \in Board
<1>1. start.profiles[start.active] \in Holding /\ Now \in Holding
      BY DEF TypeOK, Now
<1> QED BY <1>1 DEF Was, Holding, Board

LEMMA AimInside ==
  ASSUME TypeOK, Loadable, NEW k \in Keys, NEW l \in Layouts, <<k, l>> \in Cells
  PROVE  Aim(k, l) \in FieldRange(l)
<1>1. cmd # None /\ cmd \in BulkCommands
      BY DEF Cells, TypeOK
<1>2. CASE cmd.op = "set rt"
  <2>1. k \in cmd.keys /\ l \in RtLayouts
        BY <1>1, <1>2 DEF Cells
  <2>2. ~Restoring /\ Bulk
        BY <1>1, <1>2 DEF Restoring, Bulk
  <2>3. cmd.rt[1] \in Travels /\ cmd.rt[2] \in Travels
        BY <1>1, <1>2, CommandIs
  <2>4. RtMode(Was[k].mode) \in Mode
        BY WasTyped, RtModeTyped DEF Settings
  <2> QED BY <2>1, <2>2, <2>3, <2>4 DEF Aim, Meant, RtLayouts, FieldRange
<1>3. CASE cmd.op # "set rt"
  <2>1. <<k, l>> # Travel
        BY CellShape DEF Travel, Layouts, ValueLayouts
  <2>2. snap # None /\ <<k, l>> \in Recorded(snap)
        BY <1>1, <1>3, <2>1 DEF Cells
  <2>3. Restoring /\ Bulk /\ IsSnapshot(snap)
        BY <1>1, <2>2 DEF Restoring, Bulk, Loadable
  <2>4. k \in DOMAIN snap.keys /\ Field(snap.keys[k], l) # None
        BY <2>2 DEF Recorded
  <2>5. Field(snap.keys[k], l) \in FieldRange(l)
        BY <2>3, <2>4, SnapFieldTyped DEF IsSnapshot
  <2> QED BY <2>2, <2>3, <2>5 DEF Aim, Meant
<1> QED BY <1>2, <1>3

LEMMA GoalOfKey ==
  ASSUME NEW k \in Keys, NEW l \in Layouts
  PROVE  <<k, l>> # Travel /\ Goal(<<k, l>>) = Aim(k, l)
<1>1. <<k, l>> # Travel
      BY DEF Travel, Layouts, ValueLayouts
<1> QED BY <1>1 DEF Goal

LEMMA GoalOfTravel ==
  ASSUME TypeOK, Loadable, Travel \in Cells
  PROVE  Goal(Travel) \in Travels
<1>1. cmd # None /\ cmd \in BulkCommands
      BY DEF Cells, TypeOK
<1>2. cmd.op # "set rt"
      BY <1>1 DEF Cells, Travel, RtLayouts
<1>3. CASE cmd.op = "set mm"
      BY <1>1, <1>3, CommandIs DEF Goal
<1>4. CASE cmd.op # "set mm"
  <2>1. snap # None
        BY <1>1, <1>2, <1>4 DEF Cells
  <2> QED BY <2>1 DEF Goal, Loadable, IsSnapshot
<1> QED BY <1>3, <1>4

\* Any part of what is to be sent carries values of the right kind.
LEMMA PlanFits ==
  ASSUME TypeOK, Loadable, NEW r, DOMAIN r \subseteq Cells, \A c \in DOMAIN r : r[c] = Goal(c)
  PROVE  Fit(r)
BY GoalOfTravel, GoalOfKey, AimInside DEF Fit

LEMMA AtMostOne ==
  ASSUME NEW S, \A x, y \in S : x = y
  PROVE  Cardinality(S) <= 1
<1>1. CASE S = {}
      BY <1>1, FS_EmptySet
<1>2. CASE S # {}
  <2>1. PICK x : x \in S
        BY <1>2
  <2>2. S = {x}
        BY <2>1
  <2> QED BY <2>2, FS_Singleton
<1> QED BY <1>1, <1>2

\* A key's values and the keysets go one after the other.
LEMMA HalfWayIsSplit == ASSUME TypeOK, Loadable, HalfWay PROVE OneKeyIsSplit
<1>1. ASSUME Bulk, obeyed
      PROVE  /\ Cardinality({k \in Keys : ~Old(k, ValueLayouts) /\ ~New(k, ValueLayouts)}) <= 1
             /\ (\E k \in Keys : ~Old(k, {"apks", "rtks"})) => \A k \in Keys : New(k, ValueLayouts)
             /\ (\E k \in Keys : ~Old(k, {"rtks"})) => \A k \in Keys : New(k, {"apks"})
  <2>1. cmd # None /\ cmd.op # "profile"
        BY <1>1 DEF Bulk, Restoring
  <2>2. PICK P \in SUBSET Cells : AtTheEnd(P) /\ AsFar(P)
        BY <1>1, <2>1 DEF HalfWay
  <2>3. \A k \in Keys, l \in Layouts : Aim(k, l) = Meant(k, l)
        BY <1>1 DEF Aim
  <2>4. ASSUME NEW k \in Keys, NEW S \in SUBSET Layouts, ~New(k, S)
        PROVE  \E l \in S : <<k, l>> \in P
    <3>1. PICK l \in S : Field(Now.keys[k], l) # Meant(k, l)
          BY <2>4 DEF New
    <3> QED BY <2>2, <2>3, <3>1 DEF AsFar
  <2>5. ASSUME NEW k \in Keys, NEW S \in SUBSET Layouts, ~Old(k, S)
        PROVE  \E l \in S : <<k, l>> \in Cells \ P
    <3>1. PICK l \in S : Field(Now.keys[k], l) # Field(Was[k], l)
          BY <2>5 DEF Old
    <3>2. <<k, l>> \notin P /\ Aim(k, l) # Field(Was[k], l)
          BY <2>2, <3>1 DEF AsFar
    <3>3. <<k, l>> \in Cells
          BY <3>2, AimOutside
    <3> QED BY <3>2, <3>3
  <2>6. ASSUME NEW c \in P, NEW d \in Cells \ P, Precedes(c, d) PROVE FALSE
        BY <2>2, <2>6 DEF AtTheEnd
  <2>7. /\ ValueLayouts \in SUBSET Layouts /\ {"apks", "rtks"} \in SUBSET Layouts
        /\ {"rtks"} \in SUBSET Layouts /\ {"apks"} \in SUBSET Layouts
        BY DEF Layouts
  <2>8. ASSUME NEW i \in Keys, NEW j \in Keys, ~New(i, ValueLayouts), ~Old(j, ValueLayouts), i < j
        PROVE  FALSE
    <3>1. PICK l \in ValueLayouts : <<i, l>> \in P
          BY <2>4, <2>7, <2>8
    <3>2. PICK m \in ValueLayouts : <<j, m>> \in Cells \ P
          BY <2>5, <2>7, <2>8
    <3>3. Stage(l) = 1 /\ Stage(m) = 1
          BY StageIs
    <3>4. i \in Nat /\ j \in Nat
          BY KeysetAssumption
    <3>5. i # j
          BY <2>8, <3>4
    <3>6. <<i, l>> # <<j, m>>
          BY <3>5
    <3>7. Precedes(<<i, l>>, <<j, m>>)
          BY <2>8, <3>3, <3>5, <3>6 DEF Precedes
    <3> QED BY <2>6, <3>1, <3>2, <3>7
  <2>9. \A i, j \in {k \in Keys : ~Old(k, ValueLayouts) /\ ~New(k, ValueLayouts)} : i = j
    <3>1. Keys \subseteq Nat
          BY KeysetAssumption
    <3> QED BY <2>8, <3>1
  <2>10. Cardinality({k \in Keys : ~Old(k, ValueLayouts) /\ ~New(k, ValueLayouts)}) <= 1
         BY <2>9, AtMostOne
  <2>11. ASSUME NEW i \in Keys, NEW j \in Keys, ~Old(i, {"apks", "rtks"}), ~New(j, ValueLayouts)
         PROVE  FALSE
    <3> DEFINE S == {"apks", "rtks"}
    <3>0. S \in SUBSET Layouts /\ ~Old(i, S)
          BY <2>7, <2>11
    <3> HIDE DEF S
    <3>10. \E m \in S : <<i, m>> \in Cells \ P
          BY <2>5, <3>0
    <3>1. PICK m \in {"apks", "rtks"} : <<i, m>> \in Cells \ P
          BY <3>10 DEF S
    <3>2. PICK l \in ValueLayouts : <<j, l>> \in P
          BY <2>4, <2>7, <2>11
    <3>3. Stage(l) = 1 /\ Stage(m) \in {2, 3}
          BY StageIs
    <3>4. Precedes(<<j, l>>, <<i, m>>)
          BY <3>3 DEF Precedes
    <3> QED BY <2>6, <3>1, <3>2, <3>4
  <2>12. ASSUME NEW i \in Keys, NEW j \in Keys, ~Old(i, {"rtks"}), ~New(j, {"apks"})
         PROVE  FALSE
    <3> DEFINE R == {"rtks"}
               A == {"apks"}
    <3>0. R \in SUBSET Layouts /\ ~Old(i, R) /\ A \in SUBSET Layouts /\ ~New(j, A)
          BY <2>7, <2>12
    <3> HIDE DEF R, A
    <3>10. (\E l \in R : <<i, l>> \in Cells \ P) /\ (\E l \in A : <<j, l>> \in P)
          BY <2>4, <2>5, <3>0
    <3>1. <<i, "rtks">> \in Cells \ P
          BY <3>10 DEF R
    <3>2. <<j, "apks">> \in P
          BY <3>10 DEF A
    <3>3. Precedes(<<j, "apks">>, <<i, "rtks">>)
          BY StageIs DEF Precedes
    <3> QED BY <2>6, <3>1, <3>2, <3>3
  <2> QED BY <2>10, <2>11, <2>12
<1>2. Restoring => Bulk
      BY DEF Bulk
<1> QED BY <1>1, <1>2 DEF OneKeyIsSplit

-----------------------------------------------------------------------------
(* What the steps keep.                                                     *)

LEMMA PlanStays ==
  ASSUME UNCHANGED <<cmd, snap, start>>
  PROVE  /\ Cells' = Cells /\ Was' = Was /\ StartTravel' = StartTravel
         /\ \A k, l : Aim(k, l)' = Aim(k, l)
         /\ \A c : Goal(c)' = Goal(c)
<1>1. Cells' = Cells /\ Was' = Was /\ StartTravel' = StartTravel
      BY DEF Cells, Was, StartTravel
<1>2. Bulk' = Bulk /\ Restoring' = Restoring
      BY DEF Bulk, Restoring
<1>3. ASSUME NEW k, NEW l PROVE Aim(k, l)' = Aim(k, l)
  <2>1. Meant(k, l)' = Meant(k, l)
        BY <1>1, <1>2 DEF Meant
  <2> QED BY <1>1, <1>2, <2>1 DEF Aim
<1>4. ASSUME NEW c PROVE Goal(c)' = Goal(c)
  <2>1. Aim(c[1], c[2])' = Aim(c[1], c[2])
        BY <1>3
  <2> QED BY <2>1 DEF Goal
<1> QED BY <1>1, <1>3, <1>4

Core == <<profiles, active, obeyed, backups, cmd, snap, start, undo>>

LEMMA CoreStays ==
  ASSUME OneProfile, Loadable, Untouched, Newest, HalfWay, UNCHANGED Core
  PROVE  (OneProfile /\ Loadable /\ Untouched /\ Newest /\ HalfWay)'
<1>1. UNCHANGED <<profiles, active, obeyed, backups, cmd, snap, start, undo>>
      BY DEF Core
<1>2. Cells' = Cells /\ Was' = Was /\ StartTravel' = StartTravel /\ \A k, l : Aim(k, l)' = Aim(k, l)
      BY <1>1, PlanStays
<1>3. Now' = Now /\ Undone' = Undone
      BY <1>1 DEF Now, Undone
<1>4. OneProfile' /\ Loadable'
      BY <1>1 DEF OneProfile, Loadable
<1>5. Untouched'
      BY <1>1, <1>2, <1>3 DEF Untouched
<1>6. Newest'
      BY <1>1, <1>3 DEF Newest, IsFrom
<1>7. HalfWay'
      BY <1>1, <1>2, <1>3 DEF HalfWay, AtTheEnd, AsFar
<1> QED BY <1>4, <1>5, <1>6, <1>7

\* A command that ends otherwise than verified, with nothing else changed.
LEMMA EndKeeps ==
  ASSUME IInv, UNCHANGED Core, pc' = "idle", outcome' \in Outcomes \ {"verified"},
         todo' = [c \in DOMAIN todo' |-> todo'[c]]
  PROVE  IInv'
<1>1. UNCHANGED <<profiles, active, obeyed, backups, cmd, snap, start, undo>>
      BY DEF Core
<1>2. (OneProfile /\ Loadable /\ Untouched /\ Newest /\ HalfWay)'
      BY CoreStays DEF IInv
<1>3. TypeOK'
      BY <1>1 DEF IInv, TypeOK
<1>4. Phases' /\ NotYet' /\ Saved' /\ HasSnapshot' /\ Landing' /\ VerifiedIsTrue'
      BY <1>1 DEF IInv, Phases, NotYet, Saved, HasSnapshot, Landing, VerifiedIsTrue
<1>5. InOrder'
      BY DEF InOrder
<1> QED BY <1>2, <1>3, <1>4, <1>5 DEF IInv

\* A command that reads on: its backup is next.
LEMMA ReadKeeps ==
  ASSUME IInv, UNCHANGED Core, pc = "read", pc' = "backup", outcome' = outcome,
         cmd.op \in {"set rt", "set mm", "backup"},
         todo' = [c \in DOMAIN todo' |-> todo'[c]],
         DOMAIN todo' = (IF cmd.op = "set rt" THEN {} ELSE Cells),
         \A c \in DOMAIN todo' : todo'[c] = Goal(c)
  PROVE  IInv'
<1>1. UNCHANGED <<profiles, active, obeyed, backups, cmd, snap, start, undo>>
      BY DEF Core
<1>2. (OneProfile /\ Loadable /\ Untouched /\ Newest /\ HalfWay)'
      BY CoreStays DEF IInv
<1>3. TypeOK'
      BY <1>1 DEF IInv, TypeOK
<1>4. Phases' /\ NotYet' /\ Saved' /\ HasSnapshot' /\ Landing' /\ VerifiedIsTrue'
      BY <1>1 DEF IInv, Phases, NotYet, Saved, HasSnapshot, Landing, VerifiedIsTrue
<1>5. Cells' = Cells /\ \A c : Goal(c)' = Goal(c)
      BY <1>1, PlanStays
<1>6. InOrder'
      BY <1>1, <1>5 DEF InOrder
<1> QED BY <1>2, <1>3, <1>4, <1>6 DEF IInv

LEMMA ReadSetRtKeeps == ASSUME IInv, ReadSetRt PROVE IInv'
<1>1. /\ pc = "read" /\ cmd.op = "set rt" /\ UNCHANGED Core /\ UNCHANGED todo
      /\ \/ pc' = "backup" /\ outcome' = outcome
         \/ pc' = "idle" /\ outcome' = "dry"
      BY DEF ReadSetRt, Goto, EndsAs, Core, boardVars
<1>2. todo = [c \in DOMAIN todo |-> todo[c]] /\ DOMAIN todo = {}
      BY <1>1 DEF IInv, InOrder
<1>3. todo' = [c \in DOMAIN todo' |-> todo'[c]] /\ DOMAIN todo' = {}
      BY <1>1, <1>2
<1>4. CASE pc' = "backup" /\ outcome' = outcome
      BY <1>1, <1>3, <1>4, ReadKeeps
<1>5. CASE pc' = "idle" /\ outcome' = "dry"
      BY <1>1, <1>3, <1>5, EndKeeps DEF Outcomes
<1> QED BY <1>1, <1>4, <1>5

LEMMA ReadBackupKeeps == ASSUME IInv, ReadBackup PROVE IInv'
<1>1. /\ pc = "read" /\ cmd.op = "backup" /\ UNCHANGED Core /\ UNCHANGED todo
      /\ pc' = "backup" /\ outcome' = outcome
      BY DEF ReadBackup, Goto, Core, boardVars
<1>2. todo = [c \in DOMAIN todo |-> todo[c]] /\ DOMAIN todo = {}
      BY <1>1 DEF IInv, InOrder
<1>3. todo' = [c \in DOMAIN todo' |-> todo'[c]] /\ DOMAIN todo' = {}
      BY <1>1, <1>2
<1>4. snap = None
      BY <1>1 DEF IInv, Loadable
<1>5. Cells = {}
      BY <1>1, <1>4 DEF Cells
<1> QED BY <1>1, <1>3, <1>5, ReadKeeps

LEMMA ReadSetMmKeeps == ASSUME IInv, ReadSetMm PROVE IInv'
<1>1. /\ pc = "read" /\ cmd.op = "set mm" /\ UNCHANGED Core
      /\ \/ pc' = "idle" /\ outcome' \in {"same", "dry"} /\ UNCHANGED todo
         \/ pc' = "backup" /\ outcome' = outcome /\ todo' = TravelRecord(cmd.travel)
      BY DEF ReadSetMm, Goto, EndsAs, Core, boardVars
<1>2. todo = [c \in DOMAIN todo |-> todo[c]]
      BY DEF IInv, InOrder
<1>3. CASE pc' = "idle" /\ outcome' \in {"same", "dry"} /\ UNCHANGED todo
  <2>1. todo' = [c \in DOMAIN todo' |-> todo'[c]]
        BY <1>2, <1>3
  <2>2. outcome' \in Outcomes \ {"verified"}
        BY <1>3 DEF Outcomes
  <2> QED BY <1>1, <1>3, <2>1, <2>2, EndKeeps
<1>4. CASE pc' = "backup" /\ outcome' = outcome /\ todo' = TravelRecord(cmd.travel)
  <2>1. cmd # None
        BY <1>1 DEF IInv, Phases
  <2>2. Cells = {Travel}
        BY <1>1, <2>1 DEF Cells
  <2>3. DOMAIN todo' = Cells /\ todo' = [c \in DOMAIN todo' |-> todo'[c]]
        BY <1>4, <2>2 DEF TravelRecord
  <2>4. Goal(Travel) = cmd.travel /\ \A c \in DOMAIN todo' : todo'[c] = Goal(c)
        BY <1>1, <1>4 DEF Goal, TravelRecord
  <2> QED BY <1>1, <1>4, <2>3, <2>4, ReadKeeps
<1> QED BY <1>1, <1>3, <1>4

LEMMA ReadFailsKeeps == ASSUME IInv, ReadFails PROVE IInv'
<1>1. /\ UNCHANGED Core /\ UNCHANGED todo /\ pc' = "idle" /\ outcome' \in {"failed", "refused"}
      BY DEF ReadFails, EndsAs, Core, boardVars
<1>2. todo' = [c \in DOMAIN todo' |-> todo'[c]]
      BY <1>1 DEF IInv, InOrder
<1> QED BY <1>1, <1>2, EndKeeps DEF Outcomes

LEMMA StutterKeeps == ASSUME IInv, UNCHANGED vars PROVE IInv'
<1>1. UNCHANGED <<profiles, active, obeyed, backups, cmd, pc, snap, todo, outcome, start, undo, commands>>
      BY DEF vars, boardVars
<1>2. (OneProfile /\ Loadable /\ Untouched /\ Newest /\ HalfWay)'
      BY <1>1, CoreStays DEF IInv, Core
<1>3. TypeOK'
      BY <1>1 DEF IInv, TypeOK
<1>4. Phases' /\ NotYet' /\ Saved' /\ HasSnapshot'
      BY <1>1 DEF IInv, Phases, NotYet, Saved, HasSnapshot
<1>5. /\ Cells' = Cells /\ Was' = Was /\ \A k, l : Aim(k, l)' = Aim(k, l)
      /\ \A c : Goal(c)' = Goal(c)
      BY <1>1, PlanStays
<1>6. InOrder' /\ Landing'
  <2>1. Now' = Now
        BY <1>1 DEF Now
  <2>2. Landing'
        BY <1>1, <1>5, <2>1 DEF IInv, Landing, AsFar
  <2>3. InOrder'
        BY <1>1, <1>5 DEF IInv, InOrder, AtTheEnd
  <2> QED BY <2>2, <2>3
<1>7. VerifiedIsTrue'
      BY <1>1 DEF IInv, VerifiedIsTrue, New, Old, Now, Was, Meant, Restoring
<1> QED BY <1>2, <1>3, <1>4, <1>6, <1>7 DEF IInv

\* A command begins: what the board holds is what the last one left.
LEMMA BeginKeeps == ASSUME IInv, NEW d \in BulkCommands, Begin(d) PROVE IInv'
<1>1. /\ pc = "idle" /\ cmd' = d /\ pc' = "read" /\ outcome' = "none"
      /\ start' = [profiles |-> profiles, active |-> active, saved |-> Len(backups)]
      /\ undo' = Undone
      /\ snap' = None /\ todo' = Nothing /\ obeyed' = TRUE
      /\ UNCHANGED <<profiles, active, backups>>
      BY DEF Begin, Undone
<1>2. d # None /\ d.op \in Ops
      BY CommandIs
<1>3. start'.profiles = profiles /\ start'.active = active /\ start'.saved = Len(backups)
      BY <1>1
<1>4. Was' = Now.keys /\ StartTravel' = Now.travel /\ Now' = Now
      BY <1>1, <1>3 DEF Was, StartTravel, Now
<1>5. TypeOK'
  <2>1. profiles \in [Profiles -> Holding] /\ active \in Profiles /\ Len(backups) \in Nat
        BY LenProperties DEF IInv, TypeOK
  <2>2. start' \in [profiles : [Profiles -> Holding], active : Profiles, saved : Nat]
        BY <1>1, <2>1
  <2>3. Undone \in [Profiles -> Holding]
        BY DEF IInv, TypeOK, Undone
  <2> QED BY <1>1, <2>1, <2>2, <2>3 DEF IInv, TypeOK, Outcomes
<1>6. Phases' /\ OneProfile' /\ NotYet' /\ Saved' /\ Loadable' /\ HasSnapshot'
      BY <1>1, <1>2, <1>3 DEF Phases, OneProfile, NotYet, Saved, Loadable, HasSnapshot
<1>7. DOMAIN todo' = {} /\ todo' = [c \in DOMAIN todo' |-> todo'[c]]
      BY <1>1 DEF Nothing
<1>8. InOrder' /\ Landing' /\ VerifiedIsTrue'
      BY <1>1, <1>7 DEF InOrder, Landing, VerifiedIsTrue
<1>9. Untouched'
      BY <1>4 DEF Untouched
<1>10. ASSUME NEW k \in Keys, NEW l \in Layouts, <<k, l>> \notin Cells'
       PROVE  Aim(k, l)' = Field(Was[k], l)'
  <2>1. ~Restoring'
        BY <1>1 DEF Restoring
  <2>2. CASE d.op = "set rt"
    <3>1. Cells' = d.keys \X RtLayouts
          BY <1>1, <1>2, <2>2 DEF Cells
    <3>2. k \notin d.keys \/ l \notin RtLayouts
          BY <1>10, <3>1
    <3> QED BY <1>1, <2>1, <3>2 DEF Aim, Meant, RtLayouts
  <2>3. CASE d.op # "set rt"
        BY <1>1, <2>1, <2>3 DEF Aim, Bulk
  <2> QED BY <2>2, <2>3
<1>11. HalfWay'
  <2>1. AsFar(Cells)'
        BY <1>4, <1>10 DEF AsFar
  <2>2. AtTheEnd(Cells)'
        BY DEF AtTheEnd
  <2> QED BY <2>1, <2>2 DEF HalfWay
<1>12. Newest'
  <2>1. Undone' = Undone
    <3>1. ~(Len(backups) > Len(backups))
          BY LenProperties DEF IInv, TypeOK
    <3> QED BY <1>1, <1>3, <3>1 DEF Undone
  <2>2. \A s, then : IsFrom(s, then)' = IsFrom(s, then)
        BY <1>1 DEF IsFrom
  <2>3. backups # <<>> => IsFrom(backups[Len(backups)], Undone)
        BY DEF IInv, Newest
  <2> QED BY <1>1, <2>1, <2>2, <2>3 DEF Newest, IsFrom
<1> QED BY <1>5, <1>6, <1>8, <1>9, <1>11, <1>12 DEF IInv

LEMMA SelectProfileKeeps == ASSUME IInv, SelectProfile PROVE IInv'
<1>1. /\ pc = "read" /\ cmd.op = "profile" /\ active' \in {active, cmd.profile}
      /\ UNCHANGED <<profiles, obeyed, backups, cmd, snap, start, undo>> /\ UNCHANGED todo
      /\ \/ pc' = "write" /\ outcome' = outcome
         \/ pc' = "idle" /\ outcome' = "failed"
      BY DEF SelectProfile, Goto, EndsAs
<1>2. cmd # None /\ cmd \in BulkCommands /\ outcome = "none"
      BY <1>1 DEF IInv, TypeOK, Phases
<1>3. active' \in Profiles
      BY <1>1, <1>2, CommandIs DEF IInv, TypeOK
<1>4. snap = None
      BY <1>1 DEF IInv, Loadable
<1>5. TypeOK'
      BY <1>1, <1>3 DEF IInv, TypeOK, Outcomes
<1>6. Phases' /\ OneProfile' /\ NotYet' /\ Saved' /\ Loadable' /\ HasSnapshot'
      BY <1>1, <1>2, <1>4 DEF IInv, Phases, OneProfile, NotYet, Saved, Loadable, HasSnapshot
<1>7. DOMAIN todo' = {} /\ todo' = [c \in DOMAIN todo' |-> todo'[c]]
      BY <1>1 DEF IInv, InOrder
<1>8. InOrder'
      BY <1>1, <1>7 DEF InOrder, AtTheEnd
<1>9. Landing' /\ Untouched' /\ HalfWay' /\ VerifiedIsTrue'
      BY <1>1, <1>2 DEF Landing, Untouched, HalfWay, VerifiedIsTrue
<1>10. Newest'
  <2>1. Undone' = Undone
        BY <1>1 DEF Undone
  <2> QED BY <1>1, <2>1 DEF IInv, Newest, IsFrom
<1> QED BY <1>5, <1>6, <1>8, <1>9, <1>10 DEF IInv

\* Before the first frame the board is as it was.
LEMMA NothingLanded ==
  ASSUME TypeOK, Loadable, profiles = start.profiles, active = start.active
  PROVE  /\ Now.keys = Was /\ Now.travel = StartTravel /\ AsFar(Cells)
<1>1. Now.keys = Was /\ Now.travel = StartTravel
      BY DEF Now, Was, StartTravel
<1> QED BY <1>1, AimOutside DEF AsFar

LEMMA LastIs == ASSUME backups # <<>>, TypeOK PROVE Last(backups) = backups[Len(backups)] /\ backups[Len(backups)] \in Snapshots
<1>1. Len(backups) \in 1..Len(backups)
      BY LenProperties, EmptySeq DEF TypeOK
<1> QED BY <1>1, ElementOfSeq DEF TypeOK, Last

LEMMA ReadRestoreKeeps == ASSUME IInv, ReadRestore PROVE IInv'
<1>1. /\ pc = "read" /\ cmd.op = "restore"
      /\ UNCHANGED <<profiles, active, obeyed, backups, cmd, start, undo>>
      /\ \/ \E s \in Loaded(cmd) :
              /\ RestoreAllowed(s) /\ snap' = s /\ todo' = RestoreRecords(s)
              /\ pc' = "backup" /\ outcome' = outcome
         \/ pc' = "idle" /\ outcome' = "refused" /\ UNCHANGED <<snap, todo>>
      BY DEF ReadRestore, Goto, EndsAs, boardVars
<1>2. CASE pc' = "idle" /\ outcome' = "refused" /\ UNCHANGED <<snap, todo>>
  <2>1. todo' = [c \in DOMAIN todo' |-> todo'[c]]
        BY <1>2 DEF IInv, InOrder
  <2> QED BY <1>1, <1>2, <2>1, EndKeeps DEF Core, Outcomes
<1>3. ASSUME NEW s \in Loaded(cmd), RestoreAllowed(s), snap' = s, todo' = RestoreRecords(s),
             pc' = "backup", outcome' = outcome
      PROVE  IInv'
  <2>1. cmd # None /\ cmd \in BulkCommands /\ outcome = "none"
        BY <1>1 DEF IInv, TypeOK, Phases
  <2>2. /\ profiles = start.profiles /\ active = start.active /\ obeyed /\ Len(backups) = start.saved
        BY <1>1 DEF IInv, NotYet, Saved
  <2>3. s # None /\ IsSnapshot(s) /\ (cmd.last => backups # <<>> /\ s = backups[Len(backups)])
    <3>1. CASE ~cmd.last
      <4>1. s = cmd.file /\ cmd.file \in Files
            BY <1>1, <1>3, <2>1, <3>1, CommandIs DEF Loaded
      <4> QED BY <3>1, <4>1, BulkAssumption
    <3>2. CASE cmd.last
      <4>1. backups # <<>> /\ s = Last(backups)
            BY <1>3, <3>2 DEF Loaded
      <4>2. s = backups[Len(backups)] /\ s \in Snapshots
            BY <4>1, LastIs DEF IInv
      <4> QED BY <4>1, <4>2, SnapshotsAreSnapshots
    <3> QED BY <3>1, <3>2
  <2>4. s.profile = active /\ DOMAIN s.keys \subseteq Keys
        BY <1>3 DEF RestoreAllowed
  <2>5. TypeOK' /\ Phases' /\ OneProfile' /\ NotYet' /\ Saved' /\ Loadable' /\ HasSnapshot' /\ VerifiedIsTrue'
    <3>1. TypeOK'
          BY <1>1, <1>3 DEF IInv, TypeOK
    <3>2. Phases' /\ OneProfile' /\ NotYet' /\ Saved'
          BY <1>1, <1>3 DEF IInv, Phases, OneProfile, NotYet, Saved
    <3>3. Loadable' /\ HasSnapshot'
          BY <1>1, <1>3, <2>1, <2>3, <2>4 DEF Loadable, HasSnapshot
    <3>4. VerifiedIsTrue'
          BY <1>3, <2>1 DEF VerifiedIsTrue
    <3> QED BY <3>1, <3>2, <3>3, <3>4
  <2>6. Now' = Now /\ Was' = Was /\ StartTravel' = StartTravel
        BY <1>1 DEF Now, Was, StartTravel
  <2>7. Now.keys = Was /\ Now.travel = StartTravel
        BY <2>2, NothingLanded DEF IInv
  <2>8. Cells' = {Travel} \cup Recorded(s)
        BY <1>1, <1>3, <2>1, <2>3 DEF Cells
  <2>9. Untouched'
        BY <2>6, <2>7 DEF Untouched
  <2>10. Restoring' /\ Bulk'
         BY <1>1, <1>3, <2>1, <2>3 DEF Restoring, Bulk
  <2>11. \A k, l : Aim(k, l)' = IF <<k, l>> \in Recorded(s) THEN Field(s.keys[k], l) ELSE Field(Was[k], l)
         BY <1>3, <2>6, <2>10 DEF Aim, Meant
  <2>12. \A k \in Keys, l \in Layouts : <<k, l>> \notin Cells' => Aim(k, l)' = Field(Was[k], l)
    <3> SUFFICES ASSUME NEW k \in Keys, NEW l \in Layouts, <<k, l>> \notin Cells'
                 PROVE  Aim(k, l)' = Field(Was[k], l)
        OBVIOUS
    <3>1. <<k, l>> \notin Recorded(s)
          BY <2>8
    <3> QED BY <2>11, <3>1
  <2>13. HalfWay'
    <3>1. AsFar(Cells)'
          BY <2>6, <2>7, <2>12 DEF AsFar
    <3>2. AtTheEnd(Cells)'
          BY DEF AtTheEnd
    <3> QED BY <3>1, <3>2 DEF HalfWay
  <2>14. Landing'
         BY <1>3 DEF Landing
  <2>15. InOrder'
    <3>1. DOMAIN todo' = Cells' /\ todo' = [c \in DOMAIN todo' |-> todo'[c]]
          BY <1>3, <2>8 DEF RestoreRecords
    <3>2. ASSUME NEW c \in DOMAIN todo' PROVE todo'[c] = Goal(c)'
      <4>1. CASE c = Travel
            BY <1>1, <1>3, <3>1, <3>2, <4>1 DEF RestoreRecords, Goal
      <4>2. CASE c # Travel
        <5>1. c \in Recorded(s)
              BY <2>8, <3>1, <4>2
        <5>2. c = <<c[1], c[2]>>
              BY <5>1 DEF Recorded
        <5>3. todo'[c] = Field(s.keys[c[1]], c[2])
              BY <1>3, <4>2, <5>1 DEF RestoreRecords
        <5>4. Goal(c)' = Aim(c[1], c[2])'
              BY <4>2 DEF Goal
        <5> QED BY <2>11, <5>1, <5>2, <5>3, <5>4
      <4> QED BY <4>1, <4>2
    <3> QED BY <1>1, <1>3, <3>1, <3>2 DEF InOrder
  <2>16. Newest'
    <3>1. Undone' = Undone /\ Undone = undo
      <4>1. ~(Len(backups) > start.saved)
            BY <2>2, LenProperties DEF IInv, TypeOK
      <4> QED BY <1>1, <4>1 DEF Undone
    <3>2. \A t, then : IsFrom(t, then)' = IsFrom(t, then)
          BY <1>1 DEF IsFrom
    <3>3. backups # <<>> => IsFrom(backups[Len(backups)], Undone)
          BY DEF IInv, Newest
    <3> QED BY <1>1, <1>3, <2>3, <3>1, <3>2, <3>3 DEF Newest, IsFrom
  <2> QED BY <2>5, <2>9, <2>13, <2>14, <2>15, <2>16 DEF IInv
<1> QED BY <1>1, <1>2, <1>3

\* The writes begin: nothing is there yet.
LEMMA WritesBegin ==
  ASSUME IInv, pc \in {"backup", "plan"}, cmd.op # "backup",
         UNCHANGED <<profiles, active, obeyed, cmd, snap, start, undo>>,
         pc' = "write", outcome' = outcome,
         todo' = [c \in Cells |-> todo'[c]], \A c \in Cells : todo'[c] = Goal(c)
  PROVE  InOrder' /\ Landing'
<1>1. Cells' = Cells /\ Was' = Was /\ StartTravel' = StartTravel
      /\ (\A k, l : Aim(k, l)' = Aim(k, l)) /\ \A c : Goal(c)' = Goal(c)
      BY PlanStays
<1>2. DOMAIN todo' = Cells
      <2> PICK f : f = [c \in Cells |-> todo'[c]]
          OBVIOUS
      <2> QED OBVIOUS
<1>3. profiles = start.profiles /\ active = start.active
      BY DEF IInv, NotYet
<1>4. AsFar(Cells)
      BY <1>3, NothingLanded DEF IInv
<1>5. Now' = Now
      BY DEF Now
<1>6. AsFar(Cells)'
      BY <1>1, <1>4, <1>5 DEF AsFar
<1>7. Landing'
      BY <1>1, <1>2, <1>6 DEF Landing, AsFar
<1>8. InOrder'
  <2>1. AtTheEnd(DOMAIN todo)'
        BY <1>1, <1>2 DEF AtTheEnd
  <2>2. todo' = [c \in DOMAIN todo' |-> todo'[c]]
        BY <1>2
  <2> QED BY <1>1, <1>2, <2>1, <2>2 DEF InOrder
<1> QED BY <1>7, <1>8

\* The snapshot is of what the command began with.
LEMMA SaveBackupKeeps == ASSUME IInv, SaveBackup PROVE IInv'
<1>1. /\ pc = "backup" /\ UNCHANGED <<profiles, active, obeyed, cmd, snap, start, undo>> /\ UNCHANGED todo
      /\ \/ backups' = Append(backups, SnapshotOf(Now, active)) /\ AfterBackup
         \/ UNCHANGED backups /\ pc' = "idle" /\ outcome' = "refused"
      BY DEF SaveBackup, EndsAs, boardVars
<1>2. todo' = [c \in DOMAIN todo' |-> todo'[c]]
      BY <1>1 DEF IInv, InOrder
<1>3. CASE UNCHANGED backups /\ pc' = "idle" /\ outcome' = "refused"
      BY <1>1, <1>2, <1>3, EndKeeps DEF Core, Outcomes
<1>4. CASE backups' = Append(backups, SnapshotOf(Now, active)) /\ AfterBackup
  <2>0. PICK new : new = SnapshotOf(Now, active)
        OBVIOUS
  <2>1. /\ cmd # None /\ cmd \in BulkCommands /\ outcome = "none"
        /\ profiles = start.profiles /\ active = start.active /\ obeyed /\ Len(backups) = start.saved
        BY <1>1 DEF IInv, TypeOK, Phases, NotYet, Saved
  <2>2. backups \in Seq(Snapshots) /\ active \in Profiles /\ Now \in Holding
        BY DEF IInv, TypeOK, Now
  <2>3. new \in Snapshots /\ new.profile = active
        BY <2>0, <2>2, SnapshotTyped
  <2>4. backups' = Append(backups, new)
        BY <1>4, <2>0
  <2>5. /\ backups' \in Seq(Snapshots) /\ Len(backups') = Len(backups) + 1
        /\ backups'[Len(backups')] = new /\ backups' # <<>> /\ Len(backups) \in Nat
    <3>1. Len(backups) \in Nat
          BY <2>2, LenProperties
    <3>2. Append(backups, new) \in Seq(Snapshots) /\ Len(Append(backups, new)) = Len(backups) + 1
          /\ Append(backups, new)[Len(backups) + 1] = new
          BY <2>2, <2>3, AppendProperties
    <3>3. Append(backups, new) # <<>>
          BY <3>1, <3>2, EmptySeq
    <3> QED BY <2>4, <3>1, <3>2, <3>3
  <2>6. \/ cmd.op = "backup" /\ pc' = "idle" /\ outcome' = "saved"
        \/ cmd.op = "set rt" /\ pc' = "plan" /\ outcome' = outcome
        \/ cmd.op \in {"set mm", "restore"} /\ pc' = "write" /\ outcome' = outcome
    <3>1. cmd.op \in Ops /\ cmd.op # "profile"
      <4>1. cmd.op \in Ops
            BY <2>1, CommandIs
      <4>2. cmd.op # "profile"
            BY <1>1 DEF IInv, Phases
      <4> QED BY <4>1, <4>2
    <3> QED BY <1>4, <3>1 DEF AfterBackup, EndsAs, Goto, Ops
  <2>7. TypeOK'
        BY <1>1, <2>5, <2>6 DEF IInv, TypeOK, Outcomes
  <2>8. Phases' /\ OneProfile' /\ NotYet' /\ Loadable' /\ HasSnapshot' /\ VerifiedIsTrue'
    <3>1. Phases'
          BY <1>1, <2>1, <2>6 DEF Phases
    <3>2. OneProfile' /\ NotYet' /\ Loadable'
          BY <1>1, <2>1, <2>6 DEF IInv, OneProfile, NotYet, Loadable
    <3>3. HasSnapshot' /\ VerifiedIsTrue'
          BY <1>1, <2>1, <2>6 DEF IInv, HasSnapshot, VerifiedIsTrue
    <3> QED BY <3>1, <3>2, <3>3
  <2>9. Saved'
        BY <1>1, <2>3, <2>5, <2>6 DEF Saved
  <2>10. /\ Cells' = Cells /\ Was' = Was /\ StartTravel' = StartTravel /\ Now' = Now
         /\ \A k, l : Aim(k, l)' = Aim(k, l)
    <3>1. Now' = Now
          BY <1>1 DEF Now
    <3> QED BY <1>1, <3>1, PlanStays
  <2>11. Untouched'
         BY <1>1, <2>10 DEF IInv, Untouched
  <2>12. HalfWay'
         BY <1>1, <2>10 DEF IInv, HalfWay, AtTheEnd, AsFar
  <2>13. Newest'
    <3>1. Undone' = start.profiles
          BY <1>1, <2>1, <2>5 DEF Undone
    <3>2. new = SnapshotOf(start.profiles[active], active)
          BY <2>0, <2>1 DEF Now
    <3>3. IsFrom(new, start.profiles)'
          BY <1>1, <2>1, <2>3, <3>2 DEF IsFrom
    <3>4. \A t, then : IsFrom(t, then)' = IsFrom(t, then)
          BY <1>1 DEF IsFrom
    <3>5. snap # None /\ cmd.last => IsFrom(snap, undo)
          BY DEF IInv, Newest
    <3>6. snap' # None /\ cmd'.last => IsFrom(snap, undo)'
          BY <1>1, <3>4, <3>5
    <3>7. (backups # <<>> => IsFrom(backups[Len(backups)], Undone))'
          BY <1>1, <2>5, <3>1, <3>3 DEF IsFrom
    <3> QED BY <3>6, <3>7 DEF Newest
  <2>14. InOrder' /\ Landing'
    <3>1. CASE cmd.op \in {"set mm", "restore"}
      <4>1. DOMAIN todo = Cells /\ todo = [c \in DOMAIN todo |-> todo[c]] /\ \A c \in DOMAIN todo : todo[c] = Goal(c)
            BY <1>1, <3>1 DEF IInv, InOrder
      <4>2. todo' = [c \in Cells |-> todo'[c]] /\ \A c \in Cells : todo'[c] = Goal(c)
            BY <1>1, <4>1
      <4> QED BY <1>1, <2>6, <3>1, <4>2, WritesBegin
    <3>2. CASE cmd.op = "backup"
          BY <1>2, <2>6, <3>2 DEF InOrder, Landing
    <3>3. CASE cmd.op = "set rt"
          BY <1>2, <2>6, <3>3 DEF InOrder, Landing
    <3> QED BY <2>6, <3>1, <3>2, <3>3
  <2> QED BY <2>7, <2>8, <2>9, <2>11, <2>12, <2>13, <2>14 DEF IInv
<1> QED BY <1>1, <1>3, <1>4

\* The writes begin: nothing else changes.
LEMMA WritingKeeps ==
  ASSUME IInv, pc = "plan", UNCHANGED Core, pc' = "write", outcome' = outcome,
         todo' = [c \in Cells |-> todo'[c]], \A c \in Cells : todo'[c] = Goal(c)
  PROVE  IInv'
<1>1. UNCHANGED <<profiles, active, obeyed, backups, cmd, snap, start, undo>>
      BY DEF Core
<1>2. cmd.op = "set rt" /\ cmd # None /\ outcome = "none"
      BY DEF IInv, Phases
<1>3. (OneProfile /\ Loadable /\ Untouched /\ Newest /\ HalfWay)'
      BY CoreStays DEF IInv
<1>4. TypeOK' /\ Phases' /\ NotYet' /\ Saved' /\ HasSnapshot' /\ VerifiedIsTrue'
  <2>1. TypeOK' /\ Phases'
        BY <1>1, <1>2 DEF IInv, TypeOK, Phases
  <2>2. NotYet' /\ Saved' /\ HasSnapshot' /\ VerifiedIsTrue'
        BY <1>1, <1>2 DEF IInv, NotYet, Saved, HasSnapshot, VerifiedIsTrue
  <2> QED BY <2>1, <2>2
<1>5. InOrder' /\ Landing'
      BY <1>1, <1>2, WritesBegin
<1> QED BY <1>3, <1>4, <1>5 DEF IInv

LEMMA PlanRtKeeps == ASSUME IInv, PlanRt PROVE IInv'
<1>1. /\ pc = "plan" /\ UNCHANGED Core /\ pc' = "write" /\ outcome' = outcome
      /\ todo' = RtRecords(Now.keys, cmd.keys, cmd.rt)
      BY DEF PlanRt, Goto, Core, boardVars
<1>2. cmd.op = "set rt" /\ cmd # None /\ profiles = start.profiles /\ active = start.active
      BY <1>1 DEF IInv, Phases, NotYet
<1>3. Now.keys = Was
      BY <1>2, NothingLanded DEF IInv
<1>4. Cells = cmd.keys \X RtLayouts
      BY <1>2 DEF Cells
<1>5. ~Restoring /\ Bulk
      BY <1>2 DEF Restoring, Bulk
<1>6. todo' = [c \in Cells |-> CASE c[2] = "mode"  -> RtMode(Was[c[1]].mode)
                                 [] c[2] = "press" -> cmd.rt[1]
                                 [] OTHER          -> cmd.rt[2]]
      BY <1>1, <1>3, <1>4 DEF RtRecords, RtLayouts
<1>7. todo' = [c \in Cells |-> todo'[c]]
      BY <1>6
<1>8. ASSUME NEW c \in Cells PROVE todo'[c] = Goal(c)
  <2>1. c[1] \in cmd.keys /\ c[2] \in RtLayouts /\ c # Travel
        BY <1>4, <1>8 DEF Travel, RtLayouts
  <2>2. Goal(c) = Meant(c[1], c[2])
        BY <1>5, <2>1 DEF Goal, Aim
  <2>3. c[2] = "mode" \/ c[2] = "press" \/ c[2] = "release"
        BY <2>1 DEF RtLayouts
  <2> QED BY <1>5, <1>6, <2>1, <2>2, <2>3 DEF Meant
<1> QED BY <1>1, <1>7, <1>8, WritingKeeps

\* The frame is the front of what is still to send, and fits.
LEMMA FrameIs ==
  ASSUME IInv, pc = "write", todo # Nothing
  PROVE  /\ Frame(DOMAIN todo) \subseteq DOMAIN todo /\ DOMAIN todo \subseteq Cells
         /\ AtTheEnd(DOMAIN todo \ Frame(DOMAIN todo))
         /\ cmd # None /\ cmd.op \notin {"profile", "backup"}
         /\ Fit(Only(todo, Frame(DOMAIN todo)))
         /\ \A c \in DOMAIN todo : todo[c] = Goal(c)
<1>1. /\ todo = [c \in DOMAIN todo |-> todo[c]] /\ AtTheEnd(DOMAIN todo)
      /\ \A c \in DOMAIN todo : todo[c] = Goal(c)
      BY DEF IInv, InOrder
<1>2. PICK D : D = DOMAIN todo
      OBVIOUS
<1>3. PICK F : F = Frame(D)
      OBVIOUS
<1>4. D \subseteq Cells /\ Cells \subseteq AllCells /\ IsFiniteSet(Cells)
      BY <1>1, <1>2, CellsAre DEF IInv, AtTheEnd
<1>5. D \subseteq AllCells /\ IsFiniteSet(D)
      BY <1>4, FS_Subset
<1>6. F \subseteq D /\ \A c \in F, d \in D : Precedes(d, c) => d \in F
      BY <1>3, <1>5, FrameGoesFirst
<1>7. AtTheEnd(D \ F)
  <2> SUFFICES ASSUME NEW d \in D \ F, NEW c \in Cells, Precedes(d, c) PROVE c \in D \ F
      BY <1>4 DEF AtTheEnd
  <2>1. c \in D
        BY <1>1, <1>2 DEF AtTheEnd
  <2> QED BY <1>6, <2>1
<1>8. D # {}
  <2> SUFFICES ASSUME D = {} PROVE todo = Nothing
      OBVIOUS
  <2>1. todo = [c \in {} |-> todo[c]]
        BY <1>1, <1>2
  <2> QED BY <2>1 DEF Nothing
<1>9. cmd # None /\ cmd.op \notin {"profile", "backup"}
  <2>1. cmd # None /\ cmd.op # "backup"
        BY DEF IInv, Phases
  <2>2. cmd.op # "profile"
    <3> SUFFICES ASSUME cmd.op = "profile" PROVE Cells = {}
        BY <1>4, <1>8
    <3>1. snap = None
          BY DEF IInv, Loadable
    <3> QED BY <2>1, <3>1 DEF Cells
  <2> QED BY <2>1, <2>2
<1>10. Fit(Only(todo, F))
  <2>1. DOMAIN Only(todo, F) = F /\ \A c \in F : Only(todo, F)[c] = todo[c]
        BY DEF Only
  <2>2. \A c \in F : Only(todo, F)[c] = Goal(c)
        BY <1>1, <1>2, <1>6, <2>1
  <2>3. F \subseteq Cells
        BY <1>4, <1>6
  <2> QED BY <2>1, <2>2, <2>3, PlanFits DEF IInv
<1> QED BY <1>1, <1>2, <1>3, <1>4, <1>6, <1>7, <1>9, <1>10

LEMMA SendFrameKeeps == ASSUME IInv, SendFrame PROVE IInv'
<1>1. /\ pc = "write" /\ todo # Nothing
      /\ todo' = Only(todo, DOMAIN todo \ Frame(DOMAIN todo))
      /\ UNCHANGED <<active, backups, cmd, snap, start, undo>>
      /\ \/ \E how \in Hows :
              /\ how = "obeys" \/ obeyed
              /\ profiles' = [profiles EXCEPT ![active] =
                                AfterFrame(@, Only(todo, Frame(DOMAIN todo)), how)]
              /\ obeyed' = (obeyed /\ how = "obeys")
              /\ \/ pc' = "write" /\ outcome' = outcome
                 \/ pc' = "idle" /\ outcome' = "failed"
         \/ pc' = "idle" /\ outcome' = "failed" /\ UNCHANGED <<profiles, obeyed>>
      BY DEF SendFrame, Goto, EndsAs, Hows
<1>2. PICK D : D = DOMAIN todo
      OBVIOUS
<1>3. PICK F : F = Frame(D)
      OBVIOUS
<1>4. /\ F \subseteq D /\ D \subseteq Cells /\ AtTheEnd(D \ F)
      /\ cmd # None /\ cmd.op \notin {"profile", "backup"}
      /\ Fit(Only(todo, F)) /\ \A c \in D : todo[c] = Goal(c)
      BY <1>1, <1>2, <1>3, FrameIs
<1>5. DOMAIN todo' = D \ F /\ \A c \in D \ F : todo'[c] = todo[c]
      BY <1>1, <1>2, <1>3 DEF Only
<1>6. todo' = [c \in DOMAIN todo' |-> todo'[c]]
      BY <1>1, <1>5 DEF Only
<1>7. CASE pc' = "idle" /\ outcome' = "failed" /\ UNCHANGED <<profiles, obeyed>>
      BY <1>1, <1>6, <1>7, EndKeeps DEF Core, Outcomes
<1>8. ASSUME NEW how \in Hows,
             profiles' = [profiles EXCEPT ![active] = AfterFrame(@, Only(todo, F), how)],
             obeyed' = (obeyed /\ how = "obeys"),
             \/ pc' = "write" /\ outcome' = outcome
             \/ pc' = "idle" /\ outcome' = "failed"
      PROVE  IInv'
  <2>1. PICK r : r = Only(todo, F)
        OBVIOUS
  <2>2. Fit(r) /\ DOMAIN r = F /\ \A c \in F : r[c] = Goal(c)
        BY <1>4, <2>1 DEF Only
  <2>3. active = start.active /\ outcome = "none" /\ active \in Profiles /\ profiles \in [Profiles -> Holding]
        BY <1>1, <1>4 DEF IInv, TypeOK, Phases, OneProfile
  <2>4. PICK h : h = Now
        OBVIOUS
  <2>5. h \in Holding
        BY <2>3, <2>4 DEF Now
  <2>6. PICK g : g = AfterFrame(h, r, how)
        OBVIOUS
  <2>7. g \in Holding
        BY <2>2, <2>5, <2>6, AfterFrameTyped
  <2>8. profiles' = [profiles EXCEPT ![active] = g] /\ active' = active
        BY <1>1, <1>8, <2>1, <2>4, <2>6 DEF Now
  <2>9. Now' = g /\ \A p \in Profiles : p # active => profiles'[p] = profiles[p]
        BY <2>3, <2>8 DEF Now
  <2>10. /\ Cells' = Cells /\ Was' = Was /\ StartTravel' = StartTravel
         /\ (\A k, l : Aim(k, l)' = Aim(k, l)) /\ \A c : Goal(c)' = Goal(c)
         BY <1>1, PlanStays
  <2>11. obeyed' \in BOOLEAN /\ (obeyed' => obeyed /\ how = "obeys")
         BY <1>8 DEF IInv, TypeOK
  <2>12. TypeOK'
    <3>1. profiles' \in [Profiles -> Holding]
          BY <2>3, <2>7, <2>8
    <3> QED BY <1>1, <1>8, <2>11, <3>1 DEF IInv, TypeOK, Outcomes
  <2>13. Phases' /\ NotYet' /\ Saved' /\ Loadable' /\ HasSnapshot' /\ VerifiedIsTrue'
    <3>1. Phases' /\ NotYet'
          BY <1>1, <1>4, <1>8, <2>3 DEF IInv, Phases, NotYet
    <3>2. Saved' /\ Loadable'
          BY <1>1, <1>8 DEF IInv, Saved, Loadable
    <3>3. HasSnapshot' /\ VerifiedIsTrue'
          BY <1>1, <1>8, <2>3 DEF IInv, HasSnapshot, VerifiedIsTrue
    <3> QED BY <3>1, <3>2, <3>3
  <2>14. OneProfile'
         BY <1>1, <1>4, <2>3, <2>9 DEF IInv, OneProfile
  <2>15. /\ \A k \in Keys, l \in Layouts : <<k, l>> \notin F => Field(g.keys[k], l) = Field(h.keys[k], l)
         /\ Travel \notin F => g.travel = h.travel
         BY <2>2, <2>5, <2>6, AfterFrameLeaves
  <2>16. Untouched'
    <3>1. \A k \in Keys, l \in Layouts : <<k, l>> \notin Cells => Field(h.keys[k], l) = Field(Was[k], l)
          BY <1>4, <2>4 DEF IInv, Untouched
    <3>2. Travel \notin Cells => h.travel = StartTravel
          BY <1>4, <2>4 DEF IInv, Untouched
    <3>3. \A k \in Keys, l \in Layouts : <<k, l>> \notin Cells => Field(g.keys[k], l) = Field(Was[k], l)
          BY <1>4, <2>15, <3>1
    <3>4. Travel \notin Cells => g.travel = StartTravel
          BY <1>4, <2>15, <3>2
    <3> QED BY <2>9, <2>10, <3>3, <3>4 DEF Untouched
  <2>17. ASSUME obeyed'
         PROVE  AsFar(D \ F)' /\ (Travel \in Cells \ (D \ F) => g.travel = Goal(Travel))
    <3>1. how = "obeys" /\ AsFar(D) /\ (Travel \in Cells \ D => h.travel = Goal(Travel))
          BY <1>1, <1>2, <1>4, <2>4, <2>11, <2>17 DEF IInv, Landing
    <3>2. /\ \A k \in Keys, l \in Layouts : Field(g.keys[k], l) = Written(r, k, l, Field(h.keys[k], l))
          /\ Travel \in F => g.travel = r[Travel]
          BY <2>2, <2>5, <2>6, <3>1, AfterFrameObeyed
    <3>3. ASSUME NEW k \in Keys, NEW l \in Layouts
          PROVE  Field(g.keys[k], l) = IF <<k, l>> \in D \ F THEN Field(Was[k], l) ELSE Aim(k, l)
      <4>1. CASE <<k, l>> \in F
        <5>1. Field(g.keys[k], l) = r[<<k, l>>] /\ <<k, l>> \notin D \ F
              BY <2>2, <3>2, <4>1 DEF Written
        <5> QED BY <2>2, <4>1, <5>1, GoalOfKey
      <4>2. CASE <<k, l>> \notin F
        <5>1. Field(g.keys[k], l) = Field(h.keys[k], l) /\ (<<k, l>> \in D \ F <=> <<k, l>> \in D)
              BY <2>15, <4>2
        <5>2. Field(h.keys[k], l) = IF <<k, l>> \in D THEN Field(Was[k], l) ELSE Aim(k, l)
              BY <2>4, <3>1 DEF AsFar
        <5> QED BY <5>1, <5>2
      <4> QED BY <4>1, <4>2
    <3>4. AsFar(D \ F)'
          BY <2>9, <2>10, <3>3 DEF AsFar
    <3>5. Travel \in Cells \ (D \ F) => g.travel = Goal(Travel)
          BY <2>2, <2>15, <3>1, <3>2
    <3> QED BY <3>4, <3>5
  <2>18. Landing'
         BY <1>5, <2>9, <2>10, <2>17 DEF Landing
  <2>19. AtTheEnd(D \ F)'
         BY <1>4, <2>10 DEF AtTheEnd
  <2>20. HalfWay'
    <3> SUFFICES ASSUME obeyed' PROVE \E P \in SUBSET Cells' : AtTheEnd(P)' /\ AsFar(P)'
        BY DEF HalfWay
    <3>1. D \ F \in SUBSET Cells'
          BY <1>4, <2>10
    <3> QED BY <2>17, <2>19, <3>1
  <2>21. InOrder'
         BY <1>4, <1>5, <1>6, <1>8, <2>10, <2>19 DEF InOrder
  <2>22. Newest'
    <3>1. Undone' = Undone
          BY <1>1 DEF Undone
    <3>2. backups # <<>> /\ backups[Len(backups)].profile = active
          BY <1>1, <1>4 DEF IInv, Saved
    <3>3. snap # None => snap.profile = active
          BY DEF IInv, Loadable
    <3>5. IsFrom(backups[Len(backups)], Undone) /\ (snap # None /\ cmd.last => IsFrom(snap, undo))
          BY <3>2 DEF IInv, Newest
    <3>6. (backups # <<>> => IsFrom(backups[Len(backups)], Undone))'
          BY <1>1, <2>9, <3>1, <3>2, <3>5 DEF IsFrom
    <3>7. (snap # None /\ cmd.last => IsFrom(snap, undo))'
          BY <1>1, <2>9, <3>3, <3>5 DEF IsFrom
    <3> QED BY <3>6, <3>7 DEF Newest
  <2> QED BY <2>12, <2>13, <2>14, <2>16, <2>18, <2>20, <2>21, <2>22 DEF IInv
<1> QED BY <1>1, <1>2, <1>3, <1>7, <1>8

\* "Verified" is said of what was read back.
LEMMA VerifyKeeps == ASSUME IInv, Verify PROVE IInv'
<1>1. /\ pc = "write" /\ todo = Nothing /\ UNCHANGED Core /\ UNCHANGED todo
      /\ pc' = "idle" /\ outcome' = (IF Confirmed THEN "verified" ELSE "mismatch")
      BY DEF Verify, EndsAs, Core, boardVars
<1>2. UNCHANGED <<profiles, active, obeyed, backups, cmd, snap, start, undo>>
      BY <1>1 DEF Core
<1>3. (OneProfile /\ Loadable /\ Untouched /\ Newest /\ HalfWay)'
      BY <1>1, CoreStays DEF IInv
<1>4. cmd # None /\ cmd \in BulkCommands /\ cmd.op \in Ops /\ cmd.op # "backup"
      BY <1>1, CommandIs DEF IInv, TypeOK, Phases
<1>5. outcome' \in {"verified", "mismatch"}
      BY <1>1
<1>6. TypeOK' /\ Phases' /\ NotYet' /\ Saved' /\ Landing'
  <2>1. TypeOK' /\ Phases'
        BY <1>1, <1>2, <1>4, <1>5 DEF IInv, TypeOK, Phases, Outcomes
  <2> QED BY <1>1, <1>2, <2>1 DEF NotYet, Saved, Landing
<1>7. HasSnapshot'
      BY <1>1, <1>2 DEF IInv, HasSnapshot
<1>8. InOrder'
  <2>1. todo = [c \in DOMAIN todo |-> todo[c]]
        BY DEF IInv, InOrder
  <2> QED BY <1>1, <2>1 DEF InOrder
<1>9. VerifiedIsTrue'
  <2>1. /\ Now' = Now /\ Was' = Was /\ Restoring' = Restoring
        BY <1>2 DEF Now, Was, Restoring
  <2>2. \A k, l : Meant(k, l)' = Meant(k, l)
        BY <1>2, <2>1 DEF Meant
  <2>3. ASSUME Confirmed
        PROVE  CASE cmd.op = "set rt"  -> /\ \A k \in Keys : New(k, Layouts)
                                          /\ Now.travel = start.profiles[start.active].travel
                 [] cmd.op = "set mm"  -> Now.travel = cmd.travel /\ \A k \in Keys : Old(k, Layouts)
                 [] cmd.op = "profile" -> active = cmd.profile /\ profiles = start.profiles
                 [] OTHER              -> /\ DOMAIN snap.keys \subseteq Keys
                                          /\ \A k \in Keys : New(k, Layouts)
                                          /\ obeyed => Now.travel = snap.travel
    <3>1. CASE cmd.op = "set rt"
      <4>1. Cells = cmd.keys \X RtLayouts /\ ~Restoring /\ Bulk /\ active = start.active
            BY <1>4, <3>1 DEF IInv, Cells, Restoring, Bulk, OneProfile
      <4>2. RtConfirmed
            BY <2>3, <3>1 DEF Confirmed
      <4>3. Was = start.profiles[active].keys
            BY <4>1 DEF Was
      <4>4. ASSUME NEW k \in Keys, NEW l \in Layouts PROVE Field(Now.keys[k], l) = Meant(k, l)
        <5>1. CASE <<k, l>> \notin Cells
          <6>1. Field(Now.keys[k], l) = Field(Was[k], l)
                BY <1>4, <3>1, <5>1 DEF IInv, Untouched
          <6>2. Aim(k, l) = Field(Was[k], l)
                BY <5>1, AimOutside DEF IInv
          <6> QED BY <4>1, <6>1, <6>2 DEF Aim
        <5>2. CASE <<k, l>> \in Cells
          <6>1. k \in cmd.keys /\ l \in RtLayouts
                BY <4>1, <5>2
          <6>2. l = "mode" \/ l = "press" \/ l = "release"
                BY <6>1 DEF RtLayouts
          <6>3. /\ Now.keys[k].mode = RtMode(Was[k].mode)
                /\ Now.keys[k].press = cmd.rt[1] /\ Now.keys[k].release = cmd.rt[2]
                BY <4>2, <4>3, <6>1 DEF RtConfirmed
          <6> QED BY <4>1, <6>1, <6>2, <6>3 DEF Meant, Field
        <5> QED BY <5>1, <5>2
      <4>5. Travel \notin Cells
            BY <4>1 DEF Travel, RtLayouts
      <4>6. Now.travel = StartTravel
            BY <1>4, <3>1, <4>5 DEF IInv, Untouched
      <4> QED BY <3>1, <4>4, <4>6 DEF New, StartTravel
    <3>2. CASE cmd.op = "set mm"
      <4>1. Cells = {Travel}
            BY <1>4, <3>2 DEF Cells
      <4>2. Now.travel = cmd.travel
            BY <2>3, <3>2 DEF Confirmed
      <4>3. \A k \in Keys, l \in Layouts : <<k, l>> \notin Cells
            BY <4>1, GoalOfKey
      <4>4. \A k \in Keys, l \in Layouts : Field(Now.keys[k], l) = Field(Was[k], l)
            BY <1>4, <3>2, <4>3 DEF IInv, Untouched
      <4> QED BY <3>2, <4>2, <4>4 DEF Old
    <3>3. CASE cmd.op = "profile"
      <4>1. active = cmd.profile
            BY <2>3, <3>3 DEF Confirmed
      <4>2. profiles = start.profiles
            BY <1>4, <3>3 DEF IInv, OneProfile
      <4> QED BY <3>3, <4>1, <4>2
    <3>4. CASE cmd.op = "restore"
      <4>1. snap # None /\ Restoring /\ Bulk /\ DOMAIN snap.keys \subseteq Keys
            BY <1>1, <1>4, <3>4 DEF IInv, HasSnapshot, Restoring, Bulk, Loadable
      <4>2. Cells = {Travel} \cup Recorded(snap)
            BY <1>4, <3>4, <4>1 DEF Cells
      <4>3. RestoreConfirmed
            BY <2>3, <3>4 DEF Confirmed
      <4>4. ASSUME NEW k \in Keys, NEW l \in Layouts PROVE Field(Now.keys[k], l) = Meant(k, l)
        <5>1. CASE <<k, l>> \notin Cells
          <6>1. Field(Now.keys[k], l) = Field(Was[k], l)
                BY <1>4, <3>4, <5>1 DEF IInv, Untouched
          <6>2. Aim(k, l) = Field(Was[k], l)
                BY <5>1, AimOutside DEF IInv
          <6> QED BY <4>1, <6>1, <6>2 DEF Aim
        <5>2. CASE <<k, l>> \in Cells
          <6>1. <<k, l>> \in Recorded(snap)
                BY <4>2, <5>2, GoalOfKey
          <6>2. k \in DOMAIN snap.keys
                BY <6>1 DEF Recorded
          <6>3. Field(Now.keys[k], l) = Field(snap.keys[k], l)
                BY <4>3, <6>1, <6>2 DEF RestoreConfirmed
          <6> QED BY <4>1, <6>1, <6>3 DEF Meant
        <5> QED BY <5>1, <5>2
      <4>5. obeyed => Now.travel = snap.travel
        <5>1. DOMAIN todo = {}
              BY <1>1 DEF Nothing
        <5>2. Goal(Travel) = snap.travel
              BY <3>4 DEF Goal
        <5> QED BY <1>1, <3>4, <4>2, <5>1, <5>2 DEF IInv, Landing
      <4> QED BY <3>4, <4>1, <4>4, <4>5 DEF New
    <3> QED BY <1>4, <3>1, <3>2, <3>3, <3>4 DEF Ops
  <2>4. outcome' = "verified" => Confirmed
        BY <1>1
  <2>5. \A k : /\ New(k, Layouts)' = New(k, Layouts) /\ Old(k, Layouts)' = Old(k, Layouts)
        BY <2>1, <2>2 DEF New, Old
  <2> QED BY <1>2, <2>1, <2>3, <2>4, <2>5 DEF VerifiedIsTrue
<1> QED BY <1>3, <1>6, <1>7, <1>8, <1>9 DEF IInv

LEMMA InitKeeps == ASSUME Init PROVE IInv
<1>1. /\ profiles \in InitialProfiles /\ active \in Profiles
      /\ backups = <<>> /\ cmd = None /\ pc = "idle" /\ snap = None /\ todo = Nothing
      /\ outcome = "none" /\ obeyed = TRUE /\ undo = profiles
      /\ start = [profiles |-> profiles, active |-> active, saved |-> 0]
      BY DEF Init
<1>2. profiles \in [Profiles -> Holding]
      BY <1>1, BulkAssumption
<1>3. TypeOK
      BY <1>1, <1>2, EmptySeq DEF TypeOK, Outcomes
<1>4. Phases /\ OneProfile /\ NotYet /\ Saved /\ Loadable /\ HasSnapshot
      BY <1>1 DEF Phases, OneProfile, NotYet, Saved, Loadable, HasSnapshot
<1>5. InOrder /\ Landing /\ HalfWay /\ Untouched /\ Newest /\ VerifiedIsTrue
  <2>1. InOrder
        BY <1>1 DEF InOrder, Nothing
  <2> QED BY <1>1, <2>1 DEF Landing, HalfWay, Untouched, Newest, VerifiedIsTrue
<1> QED BY <1>3, <1>4, <1>5 DEF IInv

LEMMA NextKeeps == ASSUME IInv, [Next]_vars PROVE IInv'
<1>1. CASE \E d \in BulkCommands : Begin(d)
      BY <1>1, BeginKeeps
<1>2. CASE UNCHANGED vars
      BY <1>2, StutterKeeps
<1> QED BY <1>1, <1>2, ReadSetRtKeeps, ReadSetMmKeeps, ReadRestoreKeeps, ReadBackupKeeps,
           SelectProfileKeeps, SaveBackupKeeps, PlanRtKeeps, SendFrameKeeps, VerifyKeeps,
           ReadFailsKeeps
        DEF Next

-----------------------------------------------------------------------------
(* The theorems.                                                            *)

\* Whatever commands are run, wherever they are cut off and whatever the
\* firmware makes of one frame of each, the invariant holds.
THEOREM BulkInvariant == Spec => []IInv
<1>1. Init => IInv
      BY InitKeeps
<1>2. IInv /\ [Next]_vars => IInv'
      BY NextKeeps
<1> QED BY <1>1, <1>2, PTL DEF Spec

\* A write of whole keys that is cut off leaves at most one key mixed, and a
\* restore shows no keyset before every value has landed, nor a rapid trigger
\* keyset before every actuation point one (ops::restore_all, write_key_records).
THEOREM AtMostOneKeyIsSplit == Spec => []OneKeyIsSplit
<1>1. IInv => OneKeyIsSplit
      BY HalfWayIsSplit DEF IInv
<1> QED BY <1>1, BulkInvariant, PTL

\* "Verified" is said only of a board that holds what was asked and nothing
\* else that is new, also if the firmware ignored a frame of the command or
\* stripped advanced functions with it (verify_rt, verify_restore).
THEOREM VerifiedMeansVerified == Spec => []VerifiedIsTrue
<1>1. IInv => VerifiedIsTrue
      BY DEF IInv
<1> QED BY <1>1, BulkInvariant, PTL

\* A restore writes the profile its snapshot was taken on and no other
\* (check_restore_profile).
THEOREM RestoresStayOnTheirProfile == Spec => RestoreHitsItsProfile
<1>1. ASSUME IInv, [Next]_vars
      PROVE  [\A p \in Profiles : Restoring /\ profiles'[p] # profiles[p] => p = snap.profile]_vars
  <2> SUFFICES ASSUME NEW p \in Profiles, Restoring, profiles'[p] # profiles[p] PROVE p = snap.profile
      OBVIOUS
  <2>1. snap.profile = active
        BY <1>1 DEF IInv, Loadable, Restoring
  <2>2. SendFrame
        BY <1>1 DEF Next, Begin, ReadSetRt, ReadSetMm, ReadRestore, ReadBackup, SelectProfile,
                    SaveBackup, PlanRt, Verify, ReadFails, vars, boardVars
  <2>3. \A q \in Profiles : q # active => profiles'[q] = profiles[q]
        BY <1>1, <2>2 DEF SendFrame, IInv, TypeOK
  <2> QED BY <2>1, <2>3
<1> QED BY <1>1, BulkInvariant, PTL DEF Spec, RestoreHitsItsProfile

\* `wh restore --last`, once verified, has undone the last command that took a
\* snapshot, however that one ended (report_verification).
THEOREM RestoreLastRollsBack == Spec => RollBackWorks
<1>1. ASSUME IInv, IInv', [Next]_vars,
             cmd # None, pc = "write", cmd.op = "restore", cmd.last, outcome' = "verified",
             NEW p \in Profiles
      PROVE  profiles'[p].keys = undo[p].keys /\ (obeyed => profiles'[p] = undo[p])
  <2>1. outcome = "none" /\ cmd \in BulkCommands
        BY <1>1 DEF IInv, Phases, TypeOK
  <2>2. Verify
        BY <1>1, <2>1 DEF Next, Begin, ReadSetRt, ReadSetMm, ReadRestore, ReadBackup, SelectProfile,
                          SaveBackup, PlanRt, SendFrame, ReadFails, Goto, EndsAs, vars, boardVars
  <2>3. UNCHANGED <<profiles, active, obeyed, backups, cmd, snap, start, undo>>
        BY <2>2 DEF Verify, boardVars
  <2>4. snap # None /\ IsFrom(snap, undo) /\ snap.profile = active /\ active \in Profiles
        BY <1>1 DEF IInv, HasSnapshot, Newest, Loadable, TypeOK
  <2>5. undo[active] \in Holding /\ Now \in Holding /\ profiles \in [Profiles -> Holding]
        BY <1>1, <2>4 DEF IInv, TypeOK, Now
  <2>6. snap.keys = undo[active].keys /\ snap.travel = undo[active].travel
    <3>1. snap = SnapshotOf(undo[active], active)
          BY <2>4 DEF IsFrom
    <3> QED BY <3>1, <2>4, <2>5, SnapshotTyped
  <2>7. snap.keys \in Board /\ Now.keys \in Board /\ DOMAIN snap.keys = Keys
        BY <2>5, <2>6 DEF Holding, Board
  <2>8. Now' = Now /\ Restoring /\ Restoring' = Restoring /\ Was' = Was
        BY <1>1, <2>3, <2>4 DEF Now, Restoring, Was
  <2>9. \A k \in Keys : New(k, Layouts)'
        BY <1>1, <2>3 DEF IInv, VerifiedIsTrue
  <2>10. obeyed => Now.travel = snap.travel
         BY <1>1, <2>3, <2>8 DEF IInv, VerifiedIsTrue
  <2>11. ASSUME NEW k \in Keys PROVE Now.keys[k] = snap.keys[k]
    <3>1. Now.keys[k] \in Settings /\ snap.keys[k] \in Settings
          BY <2>7 DEF Board
    <3>2. ASSUME NEW l \in Layouts PROVE Field(Now.keys[k], l) = Field(snap.keys[k], l)
      <4>1. <<k, l>> \in Recorded(snap)
            BY <2>7, <3>1, FieldTyped DEF Recorded
      <4>2. Field(Now.keys[k], l) = Meant(k, l)'
            BY <2>8, <2>9 DEF New
      <4>3. Meant(k, l)' = Field(snap.keys[k], l)
            BY <2>3, <2>8, <4>1 DEF Meant
      <4> QED BY <4>2, <4>3
    <3> QED BY <3>1, <3>2, SettingsEqual
  <2>12. Now.keys = undo[active].keys
         BY <2>6, <2>7, <2>11 DEF Board
  <2>13. obeyed => Now = undo[active]
         BY <2>5, <2>6, <2>10, <2>12 DEF Holding
  <2>14. p # active => profiles[p] = undo[p]
         BY <2>4 DEF IsFrom
  <2> QED BY <2>3, <2>12, <2>13, <2>14 DEF Now
<1>2. ASSUME IInv, [Next]_vars
      PROVE  [cmd # None /\ pc = "write" /\ cmd.op = "restore" /\ cmd.last /\ outcome' = "verified" =>
                \A p \in Profiles : /\ profiles'[p].keys = undo[p].keys
                                    /\ obeyed => profiles'[p] = undo[p]]_vars
  <2>1. IInv'
        BY <1>2, NextKeeps
  <2> QED BY <1>1, <1>2, <2>1
<1> QED BY <1>2, BulkInvariant, PTL DEF Spec, RollBackWorks

=============================================================================
