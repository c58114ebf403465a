---------------------------- MODULE WriteCommand ----------------------------
(***************************************************************************)
(* One `wh` write command after another against a keyboard whose owner may *)
(* be editing it by hand at the same time: `wh keyset create`, `set`,      *)
(* `delete` and `remove`, `wh set ap`, `wh set ap --base` and              *)
(* `wh set rt --off`.  All of them share one shape:                        *)
(*                                                                         *)
(*   read membership, settle the selection and the value, read every       *)
(*   selected key into a plan, confirm when the selection is the whole     *)
(*   board, back the whole board up, send the value frames, send one       *)
(*   membership frame per key, read every planned key back.                *)
(*                                                                         *)
(* A step reads or writes one key (or one frame); between two steps the    *)
(* board's own adjust mode may change a value, and any roundtrip may fail, *)
(* which ends the command.                                                 *)
(***************************************************************************)
EXTENDS Keyset

CONSTANTS
  InitialBoards,  \* the boards a run may start from
  Commands,       \* the command lines the operator may type
  MaxRuns,        \* bound: commands run one after the other
  MaxEdits        \* bound: distinct hand edits during one command; with 0
                  \* the board stays in the mode it starts in

Ops == {"create", "keyset set", "delete", "remove", "rt off", "set ap", "ap base"}

\* Commands that name a keyset by its index; the others but "ap base" take a
\* resolved selection.
ByIndex     == {"keyset set", "delete"}
BySelection == {"create", "remove", "rt off", "set ap"}

\* A press and a release sensitivity; an actuation point is a pair of equals.
Pairs == Travels \X Travels

Command == [op : Ops, kind : Kinds, keys : SUBSET Keys, index : Nat,
            value : Pairs \cup {None}, dry : BOOLEAN]

WellFormed(c) ==
  /\ c \in Command
  /\ c.kind = "ap" /\ c.value # None => c.value[1] = c.value[2]
  /\ c.op \in {"set ap", "ap base"} => c.kind = "ap" /\ c.value # None
  /\ c.op = "rt off" => c.kind = "rt"
  /\ c.op = "keyset set" => c.value # None
  /\ c.op = "remove" => c.value = None
  /\ c.op \in BySelection <=> c.keys # {}

ASSUME WriteCommandAssumption ==
  /\ InitialBoards \subseteq Board
  /\ \A c \in Commands : WellFormed(c)
  /\ MaxRuns \in Nat
  /\ MaxEdits \in Nat

VARIABLES
  board,      \* what every key holds
  adjusting,  \* the board is in its own adjust mode
  wire,       \* adjust-mode edges sent and not yet received
  edits,      \* hand edits during this command: <<key, layout, stage>>
  cmd,        \* the command line being run
  pc,         \* where it is
  todo,       \* keys the current phase has still to read
  entries,    \* the membership it read
  sel,        \* the keys it writes
  index,      \* the membership it writes; None leaves membership alone
  seen,       \* the distinct base values read so far
  change,     \* what the plan asks of every selected key
  before,     \* each selected key as the plan read it
  backup,     \* each key as the auto-backup read it
  pending,    \* value records the board has not taken
  pendingKs,  \* keys whose membership record the board has not taken
  bad,        \* keys whose readback disagreed
  outcome,    \* how the last command ended
  answered,   \* the operator typed yes
  heard,      \* the edges queued by the session
  lost,       \* hand edits that an acknowledged frame wrote over
  lockedAtStart, \* the board was already in adjust mode when it began
  runs        \* commands begun so far

handVars == <<board, adjusting, wire, edits>>
planVars == <<entries, sel, index, seen, change, before>>
tailVars == <<backup, pending, pendingKs, bad, answered, lost>>
startVars == <<cmd, lockedAtStart, runs>>
vars == <<handVars, planVars, tailVars, startVars, pc, todo, outcome, heard>>

-----------------------------------------------------------------------------
(* What a command works out from the membership it read.                   *)

Selected(c, m) ==
  IF c.op \in ByIndex THEN Members(m, c.index)
  ELSE IF c.op = "ap base" THEN Free(m)
  ELSE c.keys

\* The membership value to write: None keeps membership as it is, and no
\* member at all means the indices are exhausted.
Indices(c, m) ==
  IF c.op \in {"delete", "remove", "rt off"} THEN {0}
  ELSE IF c.op \in {"keyset set", "ap base"} THEN {None}
  ELSE IF c.op = "set ap" /\ KeepsKeyset(m, c.keys) THEN {None}
  ELSE NextIndex(m)

\* resolve_index refuses index 0 and an index nothing holds; `--base` refuses
\* a board with no free key.
Resolves(c, m) ==
  /\ c.op \in ByIndex => c.index # 0
  /\ Selected(c, m) # {}
  /\ Indices(c, m) # {}

NeedsBase(c) == c.value = None

\* The keys whose value says what the base is.
BaseKeys(c, m) ==
  IF ~NeedsBase(c) THEN {}
  ELSE IF c.op \in {"remove", "rt off"} THEN Free(m) \ c.keys
  ELSE Free(m)

BaseOf(kind, s) == IF kind = "ap" THEN <<s.ap, s.ap>> ELSE <<s.press, s.release>>

\* The value to write; none when the base is split or cannot be read.
Bases(c, values) ==
  IF ~NeedsBase(c) THEN {c.value}
  ELSE IF values = {} /\ c.op = "remove" /\ c.kind = "ap" THEN {<<NoSignalBase, NoSignalBase>>}
  ELSE IF \E v \in values : values = {v} THEN values
  ELSE {}

ChangeFor(c, v) ==
  IF c.kind = "ap" THEN ChangeAp(v[1])
  ELSE IF c.op \in {"create", "keyset set"} THEN ChangeRtOn(v)
  ELSE ChangeRtOff(v)

\* Seeded fault: rapid trigger off asks nothing.
NeedsConfirmNotOff(c, keys, idx) ==
  /\ ~c.dry
  /\ Cardinality(keys) = Cardinality(Keys)
  /\ \/ c.op \in {"create", "remove"}
     \/ c.op = "set ap" /\ idx # None

\* Whether this write over the whole board waits for a typed yes.
NeedsConfirm(c, keys, idx) ==
  /\ ~c.dry
  /\ Cardinality(keys) = Cardinality(Keys)
  /\ \/ c.op \in {"create", "remove", "rt off"}
     \/ c.op = "set ap" /\ idx # None

\* The plan's records, and what each key should hold once they have landed.
Records == ValueRecords([k \in sel |-> before[k]], change)

MembershipRecord(k) ==
  [p \in {<<k, KeysetLayout(change.kind)>>} |-> index]

Wanted(k) ==
  LET values == Landed([j \in Keys |-> before[k]], Records)[k]
  IN  IF index = None THEN values
      ELSE Landed([j \in Keys |-> values], MembershipRecord(k))[k]

-----------------------------------------------------------------------------
Init ==
  /\ board \in InitialBoards
  /\ adjusting \in BOOLEAN
  /\ wire = {} /\ edits = {} /\ heard = {} /\ lost = {}
  /\ cmd = None /\ pc = "idle" /\ todo = {} /\ outcome = "none"
  /\ entries = None /\ sel = {} /\ index = None /\ seen = {} /\ change = None
  /\ before = [k \in Keys |-> None] /\ backup = [k \in Keys |-> None]
  /\ pending = {} /\ pendingKs = {} /\ bad = {} /\ answered = FALSE
  /\ lockedAtStart = FALSE /\ runs = 0

(***************************************************************************)
(* Reports travel in order, so a roundtrip that returns its reply has      *)
(* queued every edge sent before.  One that returns an error may have      *)
(* stopped anywhere on the way there, with edges left on the wire.         *)
(***************************************************************************)
HearNothing == wire' = {} /\ UNCHANGED heard   \* seeded fault: edges are dropped

Hear == heard' = heard \cup wire /\ wire' = {}

HearSome == \E got \in SUBSET wire : heard' = heard \cup got /\ wire' = wire \ got

HandsOff == UNCHANGED <<board, adjusting, edits>>

EndsAs(how) == pc' = "idle" /\ outcome' = how /\ todo' = {}

\* The keys are visited in ascending order.
IsFirst(k, keys) == k \in keys /\ \A j \in keys : k <= j

(***************************************************************************)
(* The operator types a command.  Opening the session hears nothing of     *)
(* what was sent before it.                                                *)
(***************************************************************************)
Begin(c) ==
  /\ pc = "idle" /\ runs < MaxRuns
  /\ cmd' = c /\ pc' = "membership" /\ outcome' = "none" /\ runs' = runs + 1
  /\ lockedAtStart' = adjusting
  /\ wire' = {} /\ heard' = {} /\ edits' = {} /\ lost' = {} /\ todo' = {}
  /\ entries' = None /\ sel' = {} /\ index' = None /\ seen' = {} /\ change' = None
  /\ before' = [k \in Keys |-> None] /\ backup' = [k \in Keys |-> None]
  /\ pending' = {} /\ pendingKs' = {} /\ bad' = {} /\ answered' = FALSE
  /\ UNCHANGED <<board, adjusting>>

\* One layout over the whole board.  Adjust mode edits values, never
\* membership, so the sweep is one step.
ReadMembership ==
  LET m == [k \in Keys |-> IF cmd.kind = "ap" THEN board[k].apks ELSE board[k].rtks]
  IN
  /\ pc = "membership"
  /\ entries' = m
  /\ Hear /\ HandsOff
  /\ \/ /\ Resolves(cmd, m)
        /\ sel' = Selected(cmd, m)
        /\ index' \in Indices(cmd, m)
        /\ todo' = BaseKeys(cmd, m)
        /\ pc' = "base"
        /\ UNCHANGED outcome
     \/ /\ ~Resolves(cmd, m)
        /\ EndsAs("refused")
        /\ UNCHANGED <<sel, index>>
  /\ UNCHANGED <<seen, change, before, tailVars, startVars>>

ReadBase(k) ==
  /\ pc = "base" /\ IsFirst(k, todo)
  /\ seen' = seen \cup {BaseOf(cmd.kind, board[k])}
  /\ todo' = todo \ {k}
  /\ Hear /\ HandsOff
  /\ UNCHANGED <<pc, outcome, entries, sel, index, change, before, tailVars, startVars>>

SettleChange ==
  /\ pc = "base" /\ todo = {}
  /\ \/ \E v \in Bases(cmd, seen) :
          /\ change' = ChangeFor(cmd, v)
          /\ pc' = "plan" /\ todo' = sel
          /\ UNCHANGED outcome
     \/ /\ Bases(cmd, seen) = {}
        /\ EndsAs("refused")
        /\ UNCHANGED change
  /\ UNCHANGED <<handVars, heard, entries, sel, index, seen, before, tailVars, startVars>>

PlanKey(k) ==
  /\ pc = "plan" /\ IsFirst(k, todo)
  /\ before' = [before EXCEPT ![k] = board[k]]
  /\ todo' = todo \ {k}
  /\ Hear /\ HandsOff
  /\ UNCHANGED <<pc, outcome, entries, sel, index, seen, change, tailVars, startVars>>

(***************************************************************************)
(* With the plan complete: the whole-board confirmation, then either the   *)
(* dry run's end or the backup.                                            *)
(***************************************************************************)
Consent(yes) ==
  /\ pc = "plan" /\ todo = {}
  /\ answered' = (yes /\ NeedsConfirm(cmd, sel, index))
  /\ \/ /\ NeedsConfirm(cmd, sel, index) /\ ~yes
        /\ EndsAs("refused")
        /\ UNCHANGED <<pending, pendingKs>>
     \/ /\ ~NeedsConfirm(cmd, sel, index) \/ yes
        /\ cmd.dry
        /\ EndsAs("dry")
        /\ UNCHANGED <<pending, pendingKs>>
     \/ /\ ~NeedsConfirm(cmd, sel, index) \/ yes
        /\ ~cmd.dry
        /\ pc' = "backup" /\ todo' = Keys
        /\ pending' = DOMAIN Records
        /\ pendingKs' = (IF index = None THEN {} ELSE sel)
        /\ UNCHANGED outcome
  /\ UNCHANGED <<handVars, heard, planVars, startVars, backup, bad, lost>>

\* Seeded fault: the backup reuses what the plan read.
BackupKeyFromPlan(k) ==
  /\ pc = "backup" /\ IsFirst(k, todo)
  /\ backup' = [backup EXCEPT ![k] = IF before[k] = None THEN board[k] ELSE before[k]]
  /\ todo' = todo \ {k}
  /\ Hear /\ HandsOff
  /\ UNCHANGED <<pc, outcome, planVars, pending, pendingKs, bad, answered, lost, startVars>>

BackupKey(k) ==
  /\ pc = "backup" /\ IsFirst(k, todo)
  /\ backup' = [backup EXCEPT ![k] = board[k]]
  /\ todo' = todo \ {k}
  /\ Hear /\ HandsOff
  /\ UNCHANGED <<pc, outcome, planVars, pending, pendingKs, bad, answered, lost, startVars>>

\* The snapshot is saved, or the store refuses it and nothing is written.
SaveBackup ==
  /\ pc = "backup" /\ todo = {}
  /\ \/ pc' = "apply" /\ UNCHANGED <<outcome, todo>>
     \/ EndsAs("refused")
  /\ UNCHANGED <<handVars, heard, planVars, tailVars, startVars>>

(***************************************************************************)
(* A frame is sent.  It lands and is acknowledged; or the roundtrip ends   *)
(* in an error, and with it the command, whether the frame was lost or     *)
(* refused or has landed and only its acknowledgement was not read.        *)
(***************************************************************************)
EditedSince(p, stages) == \E stage \in stages : <<p[1], p[2], stage>> \in edits
SincePlan   == {"planned", "backedup", "verified", "after"}
SinceBackup == {"backedup", "verified", "after"}

Overwritten(records) ==
  {p \in DOMAIN records : EditedSince(p, SincePlan) /\ Field(board[p[1]], p[2]) # records[p]}

Send(records) ==
  \/ /\ board' = Landed(board, records)
     /\ lost' = lost \cup Overwritten(records)
     /\ Hear
     /\ UNCHANGED <<pc, outcome, todo>>
  \/ /\ board' \in {board, Landed(board, records)}
     /\ HearSome
     /\ EndsAs("failed")
     /\ UNCHANGED lost

SendValues ==
  /\ pc = "apply" /\ pending # {}
  /\ \E batch \in Cuts(pending) :
       /\ IsNextBatch(batch, pending)
       /\ Send([p \in batch |-> Records[p]])
       /\ pending' = pending \ batch
  /\ UNCHANGED <<adjusting, edits, planVars, backup, pendingKs, bad, answered, startVars>>

\* Seeded fault: membership does not wait for the values.
SendMembershipEarly(k) ==
  /\ pc = "apply" /\ IsFirst(k, pendingKs)
  /\ Send(MembershipRecord(k))
  /\ pendingKs' = pendingKs \ {k}
  /\ UNCHANGED <<adjusting, edits, planVars, backup, pending, bad, answered, startVars>>

SendMembership(k) ==
  /\ pc = "apply" /\ pending = {} /\ IsFirst(k, pendingKs)
  /\ Send(MembershipRecord(k))
  /\ pendingKs' = pendingKs \ {k}
  /\ UNCHANGED <<adjusting, edits, planVars, backup, pending, bad, answered, startVars>>

StartVerify ==
  /\ pc = "apply" /\ pending = {} /\ pendingKs = {}
  /\ pc' = "verify" /\ todo' = sel
  /\ UNCHANGED <<handVars, heard, outcome, planVars, tailVars, startVars>>

VerifyKey(k) ==
  /\ pc = "verify" /\ IsFirst(k, todo)
  /\ bad' = IF board[k] = Wanted(k) THEN bad ELSE bad \cup {k}
  /\ todo' = todo \ {k}
  /\ Hear /\ HandsOff
  /\ UNCHANGED <<pc, outcome, planVars, backup, pending, pendingKs, answered, lost, startVars>>

Report ==
  /\ pc = "verify" /\ todo = {}
  /\ EndsAs(IF bad = {} THEN "verified" ELSE "mismatch")
  /\ UNCHANGED <<handVars, heard, planVars, tailVars, startVars>>

\* Seeded fault: a failed read of the backup starts the backup again.
ReadFailsRetrying ==
  /\ \/ pc = "membership"
     \/ pc \in {"base", "plan", "backup", "verify"} /\ todo # {}
  /\ \/ pc = "backup" /\ todo' = Keys /\ UNCHANGED <<pc, outcome>>
     \/ pc # "backup" /\ EndsAs(IF pc = "verify" THEN "failed" ELSE "refused")
  /\ HearSome /\ HandsOff
  /\ UNCHANGED <<planVars, tailVars, startVars>>

\* A read's roundtrip fails, whichever phase it is in.
ReadFails ==
  /\ \/ pc = "membership"
     \/ pc \in {"base", "plan", "backup", "verify"} /\ todo # {}
  /\ EndsAs(IF pc = "verify" THEN "failed" ELSE "refused")
  /\ HearSome /\ HandsOff
  /\ UNCHANGED <<planVars, tailVars, startVars>>

(***************************************************************************)
(* The owner's hands: the adjust mode of the board itself.                 *)
(***************************************************************************)
EnterAdjust ==
  /\ ~adjusting /\ MaxEdits > 0
  /\ adjusting' = TRUE /\ wire' = wire \cup {"entered"}
  /\ UNCHANGED <<board, edits, heard, pc, todo, outcome, planVars, tailVars, startVars>>

LeaveAdjust ==
  /\ adjusting /\ MaxEdits > 0
  /\ adjusting' = FALSE /\ wire' = wire \cup {"left"}
  /\ UNCHANGED <<board, edits, heard, pc, todo, outcome, planVars, tailVars, startVars>>

Stage(k) ==
  IF pc = "idle" THEN "after"
  ELSE IF pc = "verify" /\ k \notin todo THEN "verified"
  ELSE IF backup[k] # None THEN "backedup"
  ELSE IF before[k] # None THEN "planned"
  ELSE "unread"

Edit(k, l, v) ==
  /\ adjusting
  /\ Field(board[k], l) # v
  /\ board' = Landed(board, [p \in {<<k, l>>} |-> v])
  /\ edits' = edits \cup {<<k, l, Stage(k)>>}
  /\ Cardinality(edits') <= MaxEdits
  /\ UNCHANGED <<adjusting, wire, heard, pc, todo, outcome, planVars, tailVars, startVars>>

-----------------------------------------------------------------------------
Program ==
  \/ ReadMembership \/ SettleChange \/ SaveBackup \/ SendValues
  \/ StartVerify \/ Report \/ ReadFails
  \/ \E yes \in BOOLEAN : Consent(yes)
  \/ \E k \in Keys : \/ ReadBase(k) \/ PlanKey(k) \/ BackupKey(k)
                     \/ SendMembership(k) \/ VerifyKey(k)

Hands ==
  \/ EnterAdjust \/ LeaveAdjust
  \/ \E k \in Keys, l \in {"ap", "press", "release"}, v \in Travels : Edit(k, l, v)

Next == Program \/ Hands \/ \E c \in Commands : Begin(c)

Spec == Init /\ [][Next]_vars

\* The board answers or a timeout ends the roundtrip, so the program's own
\* steps go on; the operator need never answer a prompt, nor stop editing.
AwaitsAnswer == pc = "plan" /\ todo = {} /\ NeedsConfirm(cmd, sel, index)

FairSpec == Spec /\ WF_vars(~AwaitsAnswer /\ Program)

-----------------------------------------------------------------------------
(* Properties.                                                             *)

\* Every variable holds a value of its kind.
TypeOK ==
  /\ board \in Board /\ adjusting \in BOOLEAN
  /\ wire \subseteq {"entered", "left"} /\ heard \subseteq {"entered", "left"}
  /\ edits \subseteq Keys \X Layouts \X (SincePlan \cup {"unread"})
  /\ lost \subseteq Keys \X Layouts
  /\ cmd \in Commands \cup {None}
  /\ pc \in {"idle", "membership", "base", "plan", "backup", "apply", "verify"}
  /\ outcome \in {"none", "refused", "dry", "failed", "mismatch", "verified"}
  /\ todo \subseteq Keys /\ sel \subseteq Keys /\ bad \subseteq Keys
  /\ entries \in Membership \cup {None}
  /\ index \in Index \cup {None}
  /\ change \in Change \cup {None}
  /\ seen \subseteq Pairs
  /\ before \in [Keys -> Settings \cup {None}]
  /\ backup \in [Keys -> Settings \cup {None}]
  /\ pending \subseteq Keys \X ValueLayouts /\ pendingKs \subseteq Keys
  /\ answered \in BOOLEAN /\ lockedAtStart \in BOOLEAN
  /\ runs \in Nat

\* No write ever carries touch nibble 0: echoing "follow global travel" back
\* would be a semantic change (plan's unchanged_at_global).
NeverWritesGlobalNibble ==
  pc = "apply" => \A k \in Keys : <<k, "mode">> \in pending => Records[<<k, "mode">>].touch # Global

\* What the hands have left alone since the plan read it.
Untouched(k) == {l \in Layouts : ~EditedSince(<<k, l>>, SincePlan)}

Agree(s, t, layouts) == \A l \in layouts : Field(s, l) = Field(t, l)

Sending == pc \in {"apply", "verify"} \/ outcome \in {"failed", "mismatch", "verified"}

\* However a write ends, each planned key holds either all of its old values
\* or all of its new ones, apart from what was edited by hand meanwhile: a
\* failure lands on a key boundary (WritePlan::frames).
KeysMoveWhole ==
  Sending =>
    \A k \in sel :
      \/ Agree(board[k], before[k], Untouched(k) \cap ValueLayouts)
      \/ Agree(board[k], Wanted(k), Untouched(k) \cap ValueLayouts)

\* Values go out first and membership last, so a key in a new keyset never
\* shows it before every value of the write has landed (keyset::delete).
MembershipComesLast ==
  Sending /\ (\E k \in sel : Field(board[k], KeysetLayout(cmd.kind)) # entries[k]) =>
    \A k \in sel : Agree(board[k], Wanted(k), Untouched(k) \cap ValueLayouts)

\* A frame of this command is among the board's changes of this step.
FrameSent == pending' # pending \/ pendingKs' # pendingKs

\* A frame changes a field only if the auto-backup holds what it held, or it
\* was edited by hand after the backup read it.
BackedUpFirst ==
  FrameSent =>
    \A k \in Keys, l \in Layouts :
      Field(board'[k], l) # Field(board[k], l) =>
        /\ backup[k] # None
        /\ \/ Field(backup[k], l) = Field(board[k], l)
           \/ EditedSince(<<k, l>>, SinceBackup)

OverwrittenIsBackedUp == [][BackedUpFirst]_vars

\* No frame of a dry run reaches the board, and none of a write that moves
\* every key into or out of a keyset reaches it without a typed yes, except
\* `wh keyset delete`, whose keyset the operator named.
WritesAreConsented ==
  [][FrameSent /\ board' # board =>
       /\ ~cmd.dry
       /\ sel = Keys /\ cmd.op \in BySelection
            /\ (\E k \in Keys : Field(Wanted(k), KeysetLayout(cmd.kind)) # entries[k])
          => answered]_vars

Now(kind) == [k \in Keys |-> Field(board[k], KeysetLayout(kind))]

\* The selected keys are one whole keyset (create, set
\* ap), the same one as before (keyset set), or in none (delete, remove, rt
\* off); every other key is in the keyset it was in.
MembershipAsPromised ==
  /\ \A k \in Keys \ sel : Now(cmd.kind)[k] = entries[k]
  /\ \A k \in sel :
       CASE cmd.op \in {"delete", "remove", "rt off"} -> Now(cmd.kind)[k] = 0
         [] cmd.op \in {"create", "set ap"} -> /\ Now(cmd.kind)[k] # 0
                                               /\ Members(Now(cmd.kind), Now(cmd.kind)[k]) = sel
         [] OTHER -> Now(cmd.kind)[k] = entries[k]

\* What the operator asked of a key, said without the plan.
Fulfilled(k, l) ==
  LET now == board[k]
      was == before[k]
      ask == IF cmd.value = None
             THEN IF seen = {} THEN {<<NoSignalBase, NoSignalBase>>} ELSE seen
             ELSE {cmd.value}
  IN  CASE l = "mode" ->
             /\ now.mode.rest = was.mode.rest
             /\ cmd.kind = "ap" => now.mode.touch # Global
             /\ cmd.op \in {"create", "keyset set"} /\ cmd.kind = "rt"
                  => now.mode.touch \in {Rt, RtContinuous}
             /\ cmd.op \in {"delete", "remove", "rt off"} /\ cmd.kind = "rt"
                  => now.mode.touch \notin RtNibbles
        [] l = "ap"      -> IF cmd.kind = "ap" THEN <<now.ap, now.ap>> \in ask ELSE now.ap = was.ap
        [] l = "press"   -> IF cmd.kind = "rt" THEN \E v \in ask : now.press = v[1]
                                               ELSE now.press = was.press
        [] l = "release" -> IF cmd.kind = "rt" THEN \E v \in ask : now.release = v[2]
                                               ELSE now.release = was.release
        [] l = "apks"    -> cmd.kind = "ap" \/ now.apks = was.apks
        [] OTHER         -> cmd.kind = "rt" \/ now.rtks = was.rtks

\* "N keys verified" means the board holds what the operator asked of every
\* selected key and still holds whatever was not asked to change, apart from
\* hand edits made after the key was read back; and that the keysets of all
\* keys are what was asked.
VerifiedKeepsPromise ==
  outcome = "verified" =>
    /\ \A k \in sel, l \in Layouts :
         EditedSince(<<k, l>>, {"verified", "after"}) \/ Fulfilled(k, l)
    /\ MembershipAsPromised

\* A command that wrote over a hand edit, with a frame the board acknowledged,
\* tells of the adjust-mode entry the edit came from, however the command ends
\* after that, unless the board was already adjusting when it began: the plan,
\* the write and the readback agree with each other and say nothing.  It is not
\* so of a frame that landed and whose roundtrip failed: the error may come
\* before the edge is read, and then nobody reads it (with_session).
LostEditIsNoted == lost # {} => "entered" \in heard \/ lockedAtStart

\* Once past its prompts a command comes to an end, whatever the hands do.
CommandEnds == pc = "backup" ~> pc = "idle"
=============================================================================
