------------------------------ MODULE BulkWrite ------------------------------
(***************************************************************************)
(* The commands that do not go through keyset::plan, one after another on  *)
(* one board: `wh set rt --set`, `wh set mm`, `wh restore FILE`,           *)
(* `wh restore --last`, `wh profile N` and `wh backup`.                    *)
(*                                                                         *)
(* They cut their records every MAX_RECORDS_PER_REPORT, in the middle of a *)
(* key if need be, and each has a verification of its own.  A roundtrip    *)
(* may fail with the frame taken or not, and the firmware may acknowledge  *)
(* a frame and do something else with it, which is what the verifications  *)
(* are for.  A snapshot names the profile it was taken on; the board has   *)
(* several, and a command reaches the active one only.                     *)
(*                                                                         *)
(* The owner's hands are left out (they are WriteCommand's subject), so    *)
(* reads that follow one another are one step.  The store keeps what it is *)
(* given and its newest snapshot is the one saved last (Store).            *)
(***************************************************************************)
EXTENDS Keyset, SequencesExt

CONSTANTS
  Profiles,        \* the profiles of the board
  Plain,           \* the rest of a MODE value with no advanced function
  InitialProfiles, \* what the profiles may hold when the first command runs
  Files,           \* the snapshot files, hand-edited ones included
  BulkCommands,    \* the command lines the operator may type
  MaxCommands      \* bound: commands run one after the other

\* What one profile holds: the global record's travel and every key.
Holding == [travel : Travels, keys : Board]

\* A snapshot's keys are the usages it lists; a file may lack the profile, and
\* the keysets of a key.
SnapKey == [mode : Mode, ap : Travels, press : Travels, release : Travels,
            apks : Index \cup {None}, rtks : Index \cup {None}]

IsSnapshot(s) ==
  /\ s.profile \in Profiles \cup {None} /\ s.travel \in Travels
  /\ DOMAIN s.keys \subseteq Nat
  /\ \A k \in DOMAIN s.keys : s.keys[k] \in SnapKey

\* What a command line carries; a field its operation has no use for is None.
WellFormedBulk(c) ==
  CASE c.op = "set rt"  -> c.keys \subseteq Keys /\ c.keys # {}
                             /\ c.rt \in Travels \X Travels /\ c.dry \in BOOLEAN
    [] c.op = "set mm"  -> c.travel \in Travels /\ c.dry \in BOOLEAN
    [] c.op = "restore" -> c.last \in BOOLEAN /\ (~c.last => c.file \in Files)
    [] c.op = "profile" -> c.profile \in Profiles
    [] OTHER            -> c.op = "backup"

ASSUME BulkAssumption ==
  /\ Plain \in Advanced
  /\ InitialProfiles \subseteq [Profiles -> Holding]
  /\ \A f \in Files : IsSnapshot(f)
  /\ \A c \in BulkCommands : WellFormedBulk(c)
  /\ MaxCommands \in Nat
  /\ None \notin Files \cup BulkCommands
  /\ None \notin [profile : Profiles, travel : Travels, keys : Board]

VARIABLES
  profiles,  \* what every profile holds
  active,    \* the profile in use
  backups,   \* the snapshots saved, oldest first
  cmd,       \* the command line being run
  pc,        \* where it is
  snap,      \* the snapshot a restore writes
  todo,      \* the records it has still to send
  outcome,   \* how the last command ended
  start,     \* profiles, active and the number of backups when it began
  obeyed,    \* the firmware did as told with every frame of this command
  undo,      \* what the profiles held when the last command before this one
             \* that saved a snapshot began
  commands   \* commands begun so far

boardVars == <<profiles, active, obeyed>>
vars == <<boardVars, backups, cmd, pc, snap, todo, outcome, start, undo, commands>>

-----------------------------------------------------------------------------
(* Records and frames.  What is to be written is a function from pairs of  *)
(* key and layout to values; the travel is nobody's key's.                 *)

Nothing == [c \in {} |-> None]

Travel == <<None, "travel">>

TravelRecord(v) == [c \in {Travel} |-> v]

\* The MODE set_rt writes: rapid trigger on, continuous kept as it is.
RtMode(mode) == [mode EXCEPT !.touch = IF @ = RtContinuous THEN RtContinuous ELSE Rt]

RtRecords(board, keys, rt) ==
  [c \in keys \X {"mode", "press", "release"} |->
     CASE c[2] = "mode"  -> RtMode(board[c[1]].mode)
       [] c[2] = "press" -> rt[1]
       [] OTHER          -> rt[2]]

\* What a snapshot records.
Recorded(s) == {c \in (DOMAIN s.keys) \X Layouts : Field(s.keys[c[1]], c[2]) # None}

RestoreRecords(s) ==
  [c \in {Travel} \cup Recorded(s) |->
     IF c = Travel THEN s.travel ELSE Field(s.keys[c[1]], c[2])]

\* restore_all: the travel, the values of every key, then the keysets.
Stage(layout) == IF layout = "travel" THEN 0
                 ELSE IF layout \in ValueLayouts THEN 1
                 ELSE IF layout = "apks" THEN 2
                 ELSE 3

LayoutOrder == [ap |-> 1, mode |-> 2, press |-> 3, release |-> 4]

\* Seeded fault: the vendor's grouping, every key's MODE first.
PrecedesByLayout(d, c) ==
  \/ Stage(d[2]) < Stage(c[2])
  \/ /\ Stage(d[2]) = Stage(c[2]) /\ d # c
     /\ \/ d[2] = c[2] /\ d[1] < c[1]
        \/ d[2] # c[2] /\ LayoutOrder[d[2]] < LayoutOrder[c[2]]

\* The layouts of the first key, then those of the next; the order in which the
\* operator named the keys is left out, they go by number.
Precedes(d, c) ==
  \/ Stage(d[2]) < Stage(c[2])
  \/ /\ Stage(d[2]) = Stage(c[2]) /\ d # c
     /\ \/ d[1] # c[1] /\ d[1] < c[1]
        \/ d[1] = c[1] /\ LayoutOrder[d[2]] < LayoutOrder[c[2]]

\* write_key_records fills a report with values, in the middle of a key if need
\* be; the travel and every keyset go in a report of their own.
Room(layout) == IF Stage(layout) = 1 THEN MaxRecords ELSE 1

FirstStage(cells) == {c \in cells : \A d \in cells : Stage(c[2]) <= Stage(d[2])}

Frame(cells) ==
  {c \in FirstStage(cells) : Cardinality({d \in cells : Precedes(d, c)}) < Room(c[2])}

Only(records, cells) == [c \in cells |-> records[c]]

-----------------------------------------------------------------------------
(* What the board does with a frame: as told, nothing, or as told except   *)
(* that a key whose MODE is written loses its advanced function.           *)

Stripped(board, frame) ==
  [k \in Keys |-> IF <<k, "mode">> \in DOMAIN frame
                  THEN [board[k] EXCEPT !.mode.rest = Plain] ELSE board[k]]

AfterFrame(h, frame, how) ==
  IF how = "ignores" THEN h
  ELSE [travel |-> IF Travel \in DOMAIN frame THEN frame[Travel] ELSE h.travel,
        keys   |-> IF how = "strips" THEN Stripped(Landed(h.keys, frame), frame)
                   ELSE Landed(h.keys, frame)]

-----------------------------------------------------------------------------
Init ==
  /\ profiles \in InitialProfiles /\ active \in Profiles
  /\ backups = <<>> /\ cmd = None /\ pc = "idle" /\ snap = None /\ todo = Nothing
  /\ outcome = "none" /\ obeyed = TRUE /\ undo = profiles /\ commands = 0
  /\ start = [profiles |-> profiles, active |-> active, saved |-> 0]

Now == profiles[active]

Begin(c) ==
  /\ pc = "idle" /\ commands < MaxCommands
  /\ cmd' = c /\ pc' = "read" /\ outcome' = "none" /\ commands' = commands + 1
  /\ start' = [profiles |-> profiles, active |-> active, saved |-> Len(backups)]
  /\ undo' = (IF Len(backups) > start.saved THEN start.profiles ELSE undo)
  /\ snap' = None /\ todo' = Nothing /\ obeyed' = TRUE
  /\ UNCHANGED <<profiles, active, backups>>

Goto(l) == pc' = l /\ UNCHANGED outcome

EndsAs(how) == pc' = "idle" /\ outcome' = how

\* The key names are resolved against the board's matrix.  A dry run reads the
\* modes, prints the frames and stops.
ReadSetRt ==
  /\ pc = "read" /\ cmd.op = "set rt"
  /\ \/ ~cmd.dry /\ Goto("backup")
     \/ cmd.dry /\ EndsAs("dry")
  /\ UNCHANGED <<boardVars, backups, cmd, snap, todo, start, undo, commands>>

ReadSetMm ==
  /\ pc = "read" /\ cmd.op = "set mm"
  /\ \/ Now.travel = cmd.travel /\ EndsAs("same") /\ UNCHANGED todo
     \/ Now.travel # cmd.travel /\ cmd.dry /\ EndsAs("dry") /\ UNCHANGED todo
     \/ /\ Now.travel # cmd.travel /\ ~cmd.dry
        /\ Goto("backup") /\ todo' = TravelRecord(cmd.travel)
  /\ UNCHANGED <<boardVars, backups, cmd, snap, start, undo, commands>>

\* Seeded fault: a snapshot with no profile is taken to be the board's own.
RestoreAllowedUnrecorded(s) == s.profile \in {active, None} /\ DOMAIN s.keys \subseteq Keys

\* check_restore_profile, then check_restore_matrix.
RestoreAllowed(s) == s.profile = active /\ DOMAIN s.keys \subseteq Keys

Loaded(c) ==
  IF ~c.last THEN {c.file} ELSE IF backups = <<>> THEN {} ELSE {Last(backups)}

ReadRestore ==
  /\ pc = "read" /\ cmd.op = "restore"
  /\ \/ \E s \in Loaded(cmd) :
          /\ RestoreAllowed(s)
          /\ snap' = s /\ todo' = RestoreRecords(s) /\ Goto("backup")
     \/ /\ \A s \in Loaded(cmd) : ~RestoreAllowed(s)
        /\ EndsAs("refused") /\ UNCHANGED <<snap, todo>>
  /\ UNCHANGED <<boardVars, backups, cmd, start, undo, commands>>

ReadBackup ==
  /\ pc = "read" /\ cmd.op = "backup"
  /\ Goto("backup")
  /\ UNCHANGED <<boardVars, backups, cmd, snap, todo, start, undo, commands>>

\* The board may ignore the request, and its acknowledgement does not say
\* which profile it is on.
SelectProfile ==
  /\ pc = "read" /\ cmd.op = "profile"
  /\ active' \in {active, cmd.profile}
  /\ Goto("write") \/ EndsAs("failed")
  /\ UNCHANGED <<profiles, obeyed, backups, cmd, snap, todo, start, undo, commands>>

-----------------------------------------------------------------------------
\* Seeded fault: a snapshot does not record the keysets.
SnapshotOfValues(h, p) ==
  [profile |-> p, travel |-> h.travel,
   keys |-> [k \in Keys |-> [h.keys[k] EXCEPT !.apks = None, !.rtks = None]]]

SnapshotOf(h, p) == [profile |-> p, travel |-> h.travel, keys |-> h.keys]

AfterBackup == CASE cmd.op = "backup" -> EndsAs("saved")
                 [] cmd.op = "set rt" -> Goto("plan")
                 [] OTHER             -> Goto("write")

\* The whole board is read and the snapshot saved, or the command ends.
SaveBackup ==
  /\ pc = "backup"
  /\ \/ backups' = Append(backups, SnapshotOf(Now, active)) /\ AfterBackup
     \/ UNCHANGED backups /\ EndsAs("refused")
  /\ UNCHANGED <<boardVars, cmd, snap, todo, start, undo, commands>>

\* set_rt reads every selected key's MODE, after the backup.
PlanRt ==
  /\ pc = "plan"
  /\ Goto("write")
  /\ todo' = RtRecords(Now.keys, cmd.keys, cmd.rt)
  /\ UNCHANGED <<boardVars, backups, cmd, snap, start, undo, commands>>

\* A frame is taken and acknowledged, taken with the acknowledgement lost, or
\* lost itself.  Bound: the firmware disobeys once in a command.
SendFrame ==
  /\ pc = "write" /\ todo # Nothing
  /\ todo' = Only(todo, DOMAIN todo \ Frame(DOMAIN todo))
  /\ \/ \E how \in {"obeys", "ignores", "strips"} :
          /\ how = "obeys" \/ obeyed
          /\ profiles' = [profiles EXCEPT ![active] =
                            AfterFrame(@, Only(todo, Frame(DOMAIN todo)), how)]
          /\ obeyed' = (obeyed /\ how = "obeys")
          /\ Goto("write") \/ EndsAs("failed")
     \/ EndsAs("failed") /\ UNCHANGED <<profiles, obeyed>>
  /\ UNCHANGED <<active, backups, cmd, snap, start, undo, commands>>

-----------------------------------------------------------------------------
(* The verifications.                                                      *)

\* Seeded fault: only the touch nibble of MODE is compared.
RtConfirmedByNibble ==
  \A k \in cmd.keys :
    /\ Now.keys[k].mode.touch = RtMode(start.profiles[active].keys[k].mode).touch
    /\ Now.keys[k].press = cmd.rt[1] /\ Now.keys[k].release = cmd.rt[2]

\* verify_rt compares the whole MODE with the one planned, and both
\* sensitivities.
RtConfirmed ==
  \A k \in cmd.keys :
    /\ Now.keys[k].mode = RtMode(start.profiles[active].keys[k].mode)
    /\ Now.keys[k].press = cmd.rt[1] /\ Now.keys[k].release = cmd.rt[2]

\* verify_restore compares what the snapshot recorded of each of its keys, and
\* not the travel.  A key the board lacks reads back as what was written.
RestoreConfirmed ==
  \A k \in DOMAIN snap.keys \cap Keys, l \in Layouts :
    <<k, l>> \in Recorded(snap) => Field(Now.keys[k], l) = Field(snap.keys[k], l)

Confirmed ==
  CASE cmd.op = "set rt"  -> RtConfirmed
    [] cmd.op = "set mm"  -> Now.travel = cmd.travel
    [] cmd.op = "restore" -> RestoreConfirmed
    [] OTHER              -> active = cmd.profile

Verify ==
  /\ pc = "write" /\ todo = Nothing
  /\ EndsAs(IF Confirmed THEN "verified" ELSE "mismatch")
  /\ UNCHANGED <<boardVars, backups, cmd, snap, todo, start, undo, commands>>

\* A read's roundtrip fails; past the writes, what was written stays.
ReadFails ==
  /\ \/ pc = "plan"
     \/ pc = "read" /\ cmd.op \in {"set rt", "set mm", "restore"}
     \/ pc = "write" /\ todo = Nothing
  /\ EndsAs(IF pc = "write" THEN "failed" ELSE "refused")
  /\ UNCHANGED <<boardVars, backups, cmd, snap, todo, start, undo, commands>>

Next ==
  \/ \E c \in BulkCommands : Begin(c)
  \/ ReadSetRt \/ ReadSetMm \/ ReadRestore \/ ReadBackup \/ SelectProfile
  \/ SaveBackup \/ PlanRt \/ SendFrame \/ Verify \/ ReadFails

Spec == Init /\ [][Next]_vars

-----------------------------------------------------------------------------
(* Properties.                                                             *)

Was == start.profiles[start.active].keys

Restoring == cmd # None /\ cmd.op = "restore" /\ snap # None

\* What the command means key k to hold in layout l.
Meant(k, l) ==
  IF Restoring
  THEN IF <<k, l>> \in Recorded(snap) THEN Field(snap.keys[k], l)
       ELSE Field(Was[k], l)
  ELSE IF k \notin cmd.keys THEN Field(Was[k], l)
  ELSE CASE l = "mode"    -> RtMode(Was[k].mode)
         [] l = "press"   -> cmd.rt[1]
         [] l = "release" -> cmd.rt[2]
         [] OTHER         -> Field(Was[k], l)

Bulk == Restoring \/ (cmd # None /\ cmd.op = "set rt")

Old(k, layouts) == \A l \in layouts : Field(Now.keys[k], l) = Field(Was[k], l)
New(k, layouts) == \A l \in layouts : Field(Now.keys[k], l) = Meant(k, l)

\* However a write of whole keys is cut off, at most one key holds a mixture of
\* its old values and its new ones: records go key by key (ops::ap_records
\* calls the vendor's grouping by layout strictly worse for this reason).  A
\* restore that is cut off shows no keyset before every value has landed, and
\* no rapid trigger keyset before every actuation point one (ops::restore_all).
OneKeyIsSplit ==
  /\ Bulk /\ obeyed =>
       Cardinality({k \in Keys : ~Old(k, ValueLayouts) /\ ~New(k, ValueLayouts)}) <= 1
  /\ Restoring /\ obeyed =>
       /\ (\E k \in Keys : ~Old(k, {"apks", "rtks"})) => \A k \in Keys : New(k, ValueLayouts)
       /\ (\E k \in Keys : ~Old(k, {"rtks"})) => \A k \in Keys : New(k, {"apks"})

\* A restore changes only the profile its snapshot was taken on
\* (check_restore_profile).
RestoreHitsItsProfile ==
  [][\A p \in Profiles : Restoring /\ profiles'[p] # profiles[p] => p = snap.profile]_vars

\* A command says "verified" only of a board that holds what was asked, or what
\* the snapshot recorded, and, key by key, nothing else that is new, advanced
\* functions included, though the firmware may have acknowledged a frame and
\* ignored it or stripped advanced functions with it (SendFrame: these faults,
\* once in a command); but of the travel a restore writes that is so only if the
\* firmware did as told.
VerifiedIsTrue ==
  outcome = "verified" =>
    CASE cmd.op = "set rt"  -> /\ \A k \in Keys : New(k, Layouts)
                               /\ Now.travel = start.profiles[start.active].travel
      [] cmd.op = "set mm"  -> Now.travel = cmd.travel /\ \A k \in Keys : Old(k, Layouts)
      [] cmd.op = "profile" -> active = cmd.profile /\ profiles = start.profiles
      [] OTHER              -> /\ DOMAIN snap.keys \subseteq Keys
                               /\ \A k \in Keys : New(k, Layouts)
                               /\ obeyed => Now.travel = snap.travel

\* `wh restore --last`, once verified, undoes the last command that took a
\* snapshot, however that one ended and whatever the firmware made of it:
\* "use `wh restore --last` to roll back" (report_verification).
RollBackWorks ==
  [][cmd # None /\ pc = "write" /\ cmd.op = "restore" /\ cmd.last /\ outcome' = "verified" =>
       \A p \in Profiles : /\ profiles'[p].keys = undo[p].keys
                           /\ obeyed => profiles'[p] = undo[p]]_vars
=============================================================================
