------------------------- MODULE WriteCommandProofs -------------------------
(***************************************************************************)
(* Theorems about WriteCommand and the words it prints, for every board,   *)
(* command and bound.  Four parts, each on the ones before it:             *)
(*                                                                         *)
(*   1  what the keyset layer's operators return;                          *)
(*   2  what is planned and backed up: type correctness, touch nibble 0,   *)
(*      backed up before overwritten, lost edits noted;                    *)
(*   3  the order of the writes and what they leave behind: a key moves as *)
(*      a whole, membership comes last, nothing is written without         *)
(*      consent, and a command that says it verified has done as asked;    *)
(*   4  what is announced: the lines come true, the prompts are true.      *)
(*                                                                         *)
(* TypeOK alone says nothing about a plan: that what is about to be sent   *)
(* was read, planned and backed up is a fact about the order of the        *)
(* phases, and IInv keeps it from phase to phase.  OInv adds what the      *)
(* board holds meanwhile.  The words also speak of keys the plan never     *)
(* read: those the base was settled on and those only the backup has seen. *)
(* While nobody edits the board these still hold what was read, and AInv   *)
(* says so.                                                                *)
(***************************************************************************)
EXTENDS Announce, FiniteSetTheorems, TLAPS

-----------------------------------------------------------------------------
(* 1  The keyset layer, for every board, change and membership.            *)

\* The values a layout may hold.
FieldRange(l) == IF l = "mode" THEN Mode
                 ELSE IF l \in {"ap", "press", "release"} THEN Travels
                 ELSE Index

-----------------------------------------------------------------------------
\* A key's settings hold a value of the right kind in every layout.
LEMMA FieldInRange ==
  ASSUME NEW s \in Settings, NEW l \in Layouts
  PROVE  Field(s, l) \in FieldRange(l)
  BY DEF Field, FieldRange, Settings, Layouts, ValueLayouts

\* A touch change turns a nibble into a nibble.
LEMMA TouchInRange ==
  ASSUME NEW n \in Nibble, NEW touch
  PROVE  ApplyTouch(n, touch) \in Nibble
  BY DEF ApplyTouch, Nibble, Global, Single, Rt, RtContinuous

\* No change moves a key onto the global nibble: it only ever stays there.
LEMMA TouchNeverGoesGlobal ==
  ASSUME NEW n \in Nibble, NEW touch, ApplyTouch(n, touch) = Global
  PROVE  n = Global
  BY DEF ApplyTouch, Nibble, Global, Single, Rt, RtContinuous, RtNibbles, RtGlobal

\* A change applied to settings gives settings.
LEMMA TargetIsSettings ==
  ASSUME NEW s \in Settings, NEW c \in Change
  PROVE  Target(s, c) \in Settings
  <1>1. ApplyTouch(s.mode.touch, c.touch) \in Nibble
    BY TouchInRange DEF Settings, Mode
  <1>2. [s.mode EXCEPT !.touch = ApplyTouch(s.mode.touch, c.touch)] \in Mode
    BY <1>1 DEF Settings, Mode
  <1>3. (IF c.ap = None THEN s.ap ELSE c.ap) \in Travels
    BY DEF Settings, Change
  <1>4. /\ (IF c.rt = None THEN s.press ELSE c.rt[1]) \in Travels
        /\ (IF c.rt = None THEN s.release ELSE c.rt[2]) \in Travels
    BY DEF Settings, Change
  <1> QED BY <1>2, <1>3, <1>4 DEF Target, Settings

\* A planned record is for a planned key and a value layout, and carries a
\* value of that layout.
LEMMA RecordsInRange ==
  ASSUME NEW S, NEW old \in [S -> Settings], NEW c \in Change,
         NEW p \in DOMAIN ValueRecords(old, c)
  PROVE  /\ p[1] \in S /\ p[2] \in ValueLayouts /\ p = <<p[1], p[2]>>
         /\ p[2] \in RecordLayouts(old[p[1]], c)
         /\ ValueRecords(old, c)[p] = Field(Target(old[p[1]], c), p[2])
         /\ ValueRecords(old, c)[p] \in FieldRange(p[2])
  <1>1. /\ p \in S \X ValueLayouts
        /\ p[2] \in RecordLayouts(old[p[1]], c)
        /\ ValueRecords(old, c)[p] = Field(Target(old[p[1]], c), p[2])
    BY DEF ValueRecords
  <1>2. p[1] \in S /\ p[2] \in ValueLayouts /\ p[2] \in Layouts
    BY <1>1 DEF Layouts
  <1>3. Target(old[p[1]], c) \in Settings
    BY <1>2, TargetIsSettings
  <1>4. Field(Target(old[p[1]], c), p[2]) \in FieldRange(p[2])
    BY <1>2, <1>3, FieldInRange
  <1> QED BY <1>1, <1>2, <1>4

\* plan never writes touch nibble 0, not even to echo it.
THEOREM RecordsNeverGlobal ==
  ASSUME NEW S, NEW old \in [S -> Settings], NEW c \in Change,
         NEW p \in DOMAIN ValueRecords(old, c), p[2] = "mode"
  PROVE  ValueRecords(old, c)[p].touch # Global
  <1> DEFINE s == old[p[1]]
             t == Target(s, c)
  <1>1. s \in Settings /\ "mode" \in RecordLayouts(s, c)
        /\ ValueRecords(old, c)[p] = t.mode
    BY RecordsInRange DEF Field
  <1>2. ~(t.mode = s.mode /\ t.mode.touch = Global)
    BY <1>1 DEF RecordLayouts, ValueLayouts
  <1>3. t.mode = [s.mode EXCEPT !.touch = ApplyTouch(s.mode.touch, c.touch)]
    BY <1>1 DEF Target, Settings
  <1>4. s.mode \in Mode /\ s.mode.touch \in Nibble
    BY <1>1 DEF Settings, Mode
  <1>5. ASSUME t.mode.touch = Global PROVE FALSE
    <2>1. ApplyTouch(s.mode.touch, c.touch) = Global
      BY <1>3, <1>4, <1>5 DEF Mode
    <2>2. s.mode.touch = Global
      BY <2>1, <1>4, TouchNeverGoesGlobal
    <2>3. t.mode = s.mode
      BY <2>1, <2>2, <1>3, <1>4 DEF Mode
    <2> QED BY <2>3, <1>2, <1>5
  <1> QED BY <1>1, <1>5

\* A frame leaves a board a board when its records carry values of the right
\* kind.
LEMMA LandedIsBoard ==
  ASSUME NEW b \in Board, NEW r,
         \A k \in Keys, l \in Layouts : <<k, l>> \in DOMAIN r => r[<<k, l>>] \in FieldRange(l)
  PROVE  Landed(b, r) \in Board
  <1> SUFFICES ASSUME NEW k \in Keys
               PROVE  Landed(b, r)[k] \in Settings
    BY DEF Landed, Board
  <1>1. b[k] \in Settings
    BY DEF Board
  <1>2. \A l \in Layouts : Written(r, k, l, Field(b[k], l)) \in FieldRange(l)
    BY <1>1, FieldInRange DEF Written
  <1>3. /\ Written(r, k, "mode", b[k].mode) \in Mode
        /\ Written(r, k, "ap", b[k].ap) \in Travels
        /\ Written(r, k, "press", b[k].press) \in Travels
        /\ Written(r, k, "release", b[k].release) \in Travels
        /\ Written(r, k, "apks", b[k].apks) \in Index
        /\ Written(r, k, "rtks", b[k].rtks) \in Index
    BY <1>2 DEF Field, FieldRange, Layouts, ValueLayouts
  <1> QED BY <1>3 DEF Landed, Settings

\* A frame changes exactly the fields its records name.
LEMMA LandedField ==
  ASSUME NEW b \in Board, NEW r, NEW k \in Keys, NEW l \in Layouts
  PROVE  Field(Landed(b, r)[k], l) = Written(r, k, l, Field(b[k], l))
  BY DEF Field, Landed, Layouts, ValueLayouts

-----------------------------------------------------------------------------
\* next_index never hands out an index some key holds, nor 0, nor one past
\* the largest there is.
THEOREM NextIndexIsFresh ==
  ASSUME NEW m \in Membership, NEW i \in NextIndex(m)
  PROVE  i \in Index \ {0} /\ Members(m, i) = {}
  <1>1. CASE Live(m) = {}
    <2>1. i = 1
      BY <1>1 DEF NextIndex
    <2>2. \A k \in Keys : m[k] = 0
      BY <1>1 DEF Live
    <2>3. MaxIndex \in Nat /\ MaxIndex >= 1
      BY KeysetAssumption
    <2>4. 1 \in Index \ {0}
      BY <2>3 DEF Index
    <2>5. Members(m, 1) = {}
      BY <2>2 DEF Members
    <2> QED BY <2>1, <2>4, <2>5
  <1>2. CASE Live(m) # {}
    <2>1. PICK n \in Live(m) : n < MaxIndex /\ (\A j \in Live(m) : j <= n) /\ i = n + 1
      BY <1>2 DEF NextIndex
    <2>2. Live(m) \subseteq Nat \ {0}
      BY DEF Live, Membership, Index
    <2>3. i \in Index \ {0}
      BY <2>1, <2>2, KeysetAssumption DEF Index
    <2>4. i \notin Live(m)
      BY <2>1, <2>2
    <2> QED BY <2>3, <2>4 DEF Live, Members
  <1> QED BY <1>1, <1>2

\* `wh set ap` leaves membership alone exactly when the selection is one
\* whole keyset: ap_membership_for decides it by comparing lengths.
THEOREM KeepMeansOneWholeKeyset ==
  ASSUME NEW m \in Membership, NEW ks \in SUBSET Keys
  PROVE  KeepsKeyset(m, ks) <=> \E i \in Live(m) : ks = Members(m, i)
  <1>1. IsFiniteSet(ks) /\ \A i : IsFiniteSet(Members(m, i)) /\ IsFiniteSet(Taken(m, ks, i))
    BY KeysetAssumption, FS_Subset DEF Members, Taken
  <1>2. \A i \in Live(m) : Members(m, i) # {}
    BY DEF Live, Members
  <1>3. ASSUME NEW i \in Losing(m, ks),
               Cardinality(Members(m, i)) = Cardinality(Taken(m, ks, i)),
               Cardinality(Taken(m, ks, i)) = Cardinality(ks)
        PROVE  i \in Live(m) /\ ks = Members(m, i)
    <2>1. Taken(m, ks, i) \subseteq Members(m, i) /\ Taken(m, ks, i) \subseteq ks
      BY DEF Taken
    <2>2. Taken(m, ks, i) = Members(m, i)
      BY <2>1, <1>1, <1>3, FS_Subset
    <2>3. Taken(m, ks, i) = ks
      BY <2>1, <1>1, <1>3, FS_Subset
    <2> QED BY <2>2, <2>3 DEF Losing
  <1>4. ASSUME NEW i \in Live(m), ks = Members(m, i)
        PROVE  KeepsKeyset(m, ks)
    <2>1. Taken(m, ks, i) = ks /\ ks # {}
      BY <1>4, <1>2 DEF Taken
    <2>2. \A j \in Live(m) : Taken(m, ks, j) # {} => j = i
      BY <1>4 DEF Taken, Members
    <2>3. Losing(m, ks) = {i}
      BY <2>1, <2>2, <1>4 DEF Losing
    <2> QED BY <2>1, <2>3, <1>4 DEF KeepsKeyset
  <1> QED BY <1>3, <1>4 DEF KeepsKeyset

-----------------------------------------------------------------------------
(* 2  What is planned and backed up.                                       *)

\* A field some frame has still to write.
Due(k, l) == \/ <<k, l>> \in pending
             \/ k \in pendingKs /\ l = KeysetLayout(change.kind)

CommandKnown == pc # "idle" => cmd \in Commands /\ runs > 0

\* The plan is complete once its phase is over.
PlanRead ==
  /\ pc = "plan" => change \in Change /\ \A k \in sel \ todo : before[k] \in Settings
  /\ pc \in {"backup", "apply", "verify"} =>
       change \in Change /\ \A k \in sel : before[k] \in Settings

\* So is the backup, and none of it exists earlier.
BackupRead ==
  /\ pc \in {"membership", "base", "plan"} => backup = [k \in Keys |-> None]
  /\ pc = "backup" => \A k \in Keys \ todo : backup[k] \in Settings
  /\ pc = "apply" => \A k \in Keys : backup[k] \in Settings

\* What is due was planned.
DueIsPlanned ==
  pc \in {"backup", "apply"} =>
    /\ pending \subseteq DOMAIN Records
    /\ pendingKs \subseteq sel
    /\ pendingKs # {} => index \in Index

\* What is due still holds what the backup read, or was edited since.
DueIsBackedUp ==
  pc \in {"backup", "apply"} =>
    \A k \in Keys, l \in Layouts :
      Due(k, l) /\ backup[k] # None =>
        \/ Field(backup[k], l) = Field(board[k], l)
        \/ EditedSince(<<k, l>>, SinceBackup)

\* A hand on the board during a command was there when it began, or its entry
\* is on the wire or already heard.
HandsNoted ==
  runs > 0 /\ (adjusting \/ edits # {}) => lockedAtStart \/ "entered" \in heard \cup wire

IInv ==
  /\ TypeOK
  /\ CommandKnown
  /\ PlanRead
  /\ BackupRead
  /\ DueIsPlanned
  /\ DueIsBackedUp
  /\ HandsNoted
  /\ LostEditIsNoted

-----------------------------------------------------------------------------
LEMMA KeysetLayoutIsLayout ==
  ASSUME NEW kind
  PROVE  KeysetLayout(kind) \in Layouts \ ValueLayouts /\ FieldRange(KeysetLayout(kind)) = Index
  BY DEF KeysetLayout, Layouts, ValueLayouts, FieldRange

LEMMA CommandTyped ==
  ASSUME NEW c \in Commands
  PROVE  c.keys \subseteq Keys /\ (c.value # None => c.value \in Pairs)
  BY WriteCommandAssumption DEF WellFormed, Command

LEMMA IndicesTyped ==
  ASSUME NEW c, NEW m \in Membership
  PROVE  Indices(c, m) \subseteq Index \cup {None}
  <1>1. 0 \in Index
    BY KeysetAssumption DEF Index
  <1>2. NextIndex(m) \subseteq Index
    BY NextIndexIsFresh
  <1> QED BY <1>1, <1>2 DEF Indices

LEMMA BasesTyped ==
  ASSUME NEW c \in Commands, NEW values \in SUBSET Pairs
  PROVE  Bases(c, values) \subseteq Pairs
  <1>1. <<NoSignalBase, NoSignalBase>> \in Pairs
    BY KeysetAssumption DEF Pairs
  <1> QED BY <1>1, CommandTyped DEF Bases, NeedsBase

LEMMA ChangeForTyped ==
  ASSUME NEW c, NEW v \in Pairs
  PROVE  ChangeFor(c, v) \in Change
  BY DEF ChangeFor, Pairs, Change, Kinds, ChangeAp, ChangeRtOn, ChangeRtOff

LEMMA BaseTyped ==
  ASSUME NEW kind, NEW s \in Settings
  PROVE  BaseOf(kind, s) \in Pairs
  BY DEF BaseOf, Pairs, Settings

-----------------------------------------------------------------------------
THEOREM Initial == Init => IInv
  <1> SUFFICES ASSUME Init PROVE IInv
    OBVIOUS
  <1>1. TypeOK
    BY WriteCommandAssumption DEF Init, TypeOK
  <1> QED BY <1>1 DEF Init, IInv, CommandKnown, PlanRead, BackupRead, DueIsPlanned,
                     DueIsBackedUp, HandsNoted, LostEditIsNoted

-----------------------------------------------------------------------------
(* Every action keeps the invariant. *)

LEMMA BeginKeeps ==
  ASSUME IInv, NEW c \in Commands, Begin(c)
  PROVE  IInv'
  <1>1. TypeOK'
    <2>1. runs' \in Nat
      BY DEF IInv, TypeOK, Begin
    <2>2. [k \in Keys |-> None] \in [Keys -> Settings \cup {None}]
      OBVIOUS
    <2>3. before' \in [Keys -> Settings \cup {None}] /\ backup' \in [Keys -> Settings \cup {None}]
      BY <2>2 DEF Begin
    <2> QED BY <2>1, <2>3 DEF IInv, TypeOK, Begin
  <1>2. CommandKnown'
    BY DEF IInv, TypeOK, CommandKnown, Begin
  <1>3. PlanRead'
    BY DEF IInv, PlanRead, Begin, vars
  <1>4. BackupRead'
    BY DEF IInv, BackupRead, Begin, vars
  <1>5. DueIsPlanned'
    BY DEF IInv, DueIsPlanned, Records, Begin, vars
  <1>6. DueIsBackedUp'
    BY DEF IInv, DueIsBackedUp, Due, EditedSince, Begin, vars
  <1>7. HandsNoted'
    BY DEF IInv, HandsNoted, Begin, vars
  <1>8. LostEditIsNoted'
    BY DEF IInv, LostEditIsNoted, Begin, vars
  <1> QED BY <1>1, <1>2, <1>3, <1>4, <1>5, <1>6, <1>7, <1>8 DEF IInv

LEMMA ReadMembershipKeeps ==
  ASSUME IInv, ReadMembership
  PROVE  IInv'
  <1>1. TypeOK'
    <2> DEFINE m == [k \in Keys |-> IF cmd.kind = "ap" THEN board[k].apks ELSE board[k].rtks]
    <2>1. m \in Membership
      BY DEF IInv, TypeOK, Board, Settings, Membership
    <2>2. cmd \in Commands
      BY DEF IInv, CommandKnown, ReadMembership
    <2>3. Indices(cmd, m) \subseteq Index \cup {None}
      BY <2>1, IndicesTyped
    <2>4. Selected(cmd, m) \subseteq Keys /\ BaseKeys(cmd, m) \subseteq Keys
      BY <2>2, CommandTyped DEF Selected, BaseKeys, Members, Free
    <2>5. /\ sel' \subseteq Keys /\ index' \in Index \cup {None} /\ todo' \subseteq Keys
          /\ pc' \in {"base", "idle"} /\ outcome' \in {"none", "refused", "dry", "failed", "mismatch", "verified"}
      <3>1. CASE Resolves(cmd, m)
        BY <3>1, <2>3, <2>4 DEF ReadMembership, IInv, TypeOK
      <3>2. CASE ~Resolves(cmd, m)
        BY <3>2 DEF ReadMembership, EndsAs, IInv, TypeOK
      <3> QED BY <3>1, <3>2
    <2>6. entries' = m
      BY DEF ReadMembership
    <2>7. wire' \subseteq {"entered", "left"} /\ heard' \subseteq {"entered", "left"}
      BY DEF IInv, TypeOK, ReadMembership, Hear
    <2> HIDE DEF m
    <2> QED BY <2>1, <2>5, <2>6, <2>7 DEF IInv, TypeOK, ReadMembership, HandsOff, tailVars, startVars
  <1>2. CommandKnown'
    BY DEF IInv, CommandKnown, ReadMembership, Hear, HandsOff, EndsAs, handVars, planVars, tailVars, startVars
  <1>3. PlanRead'
    BY DEF IInv, PlanRead, ReadMembership, Hear, HandsOff, EndsAs, handVars, planVars, tailVars, startVars
  <1>4. BackupRead'
    BY DEF IInv, BackupRead, ReadMembership, Hear, HandsOff, EndsAs, handVars, planVars, tailVars, startVars
  <1>5. DueIsPlanned'
    BY DEF IInv, DueIsPlanned, Records, ReadMembership, Hear, HandsOff, EndsAs, handVars, planVars, tailVars, startVars
  <1>6. DueIsBackedUp'
    BY DEF IInv, DueIsBackedUp, Due, EditedSince, ReadMembership, Hear, HandsOff, EndsAs, handVars, planVars, tailVars, startVars
  <1>7. HandsNoted'
    BY DEF IInv, HandsNoted, ReadMembership, Hear, HandsOff, EndsAs, handVars, planVars, tailVars, startVars
  <1>8. LostEditIsNoted'
    BY DEF IInv, LostEditIsNoted, ReadMembership, Hear, HandsOff, EndsAs, handVars, planVars, tailVars, startVars
  <1> QED BY <1>1, <1>2, <1>3, <1>4, <1>5, <1>6, <1>7, <1>8 DEF IInv

LEMMA ReadBaseKeeps ==
  ASSUME IInv, NEW k \in Keys, ReadBase(k)
  PROVE  IInv'
  <1>1. TypeOK'
    <2>1. BaseOf(cmd.kind, board[k]) \in Pairs
      BY BaseTyped DEF IInv, TypeOK, Board
    <2> QED BY <2>1 DEF IInv, TypeOK, ReadBase, Hear, HandsOff, tailVars, startVars
  <1>2. CommandKnown'
    BY DEF IInv, CommandKnown, ReadBase, Hear, HandsOff, EndsAs, handVars, planVars, tailVars, startVars
  <1>3. PlanRead'
    BY DEF IInv, PlanRead, ReadBase, Hear, HandsOff, EndsAs, handVars, planVars, tailVars, startVars
  <1>4. BackupRead'
    BY DEF IInv, BackupRead, ReadBase, Hear, HandsOff, EndsAs, handVars, planVars, tailVars, startVars
  <1>5. DueIsPlanned'
    BY DEF IInv, DueIsPlanned, Records, ReadBase, Hear, HandsOff, EndsAs, handVars, planVars, tailVars, startVars
  <1>6. DueIsBackedUp'
    BY DEF IInv, DueIsBackedUp, Due, EditedSince, ReadBase, Hear, HandsOff, EndsAs, handVars, planVars, tailVars, startVars
  <1>7. HandsNoted'
    BY DEF IInv, HandsNoted, ReadBase, Hear, HandsOff, EndsAs, handVars, planVars, tailVars, startVars
  <1>8. LostEditIsNoted'
    BY DEF IInv, LostEditIsNoted, ReadBase, Hear, HandsOff, EndsAs, handVars, planVars, tailVars, startVars
  <1> QED BY <1>1, <1>2, <1>3, <1>4, <1>5, <1>6, <1>7, <1>8 DEF IInv

LEMMA SettleChangeKeeps ==
  ASSUME IInv, SettleChange
  PROVE  IInv'
  <1>1. TypeOK'
    <2>1. cmd \in Commands /\ seen \in SUBSET Pairs
      BY DEF IInv, CommandKnown, TypeOK, SettleChange
    <2>2. \A v \in Bases(cmd, seen) : ChangeFor(cmd, v) \in Change
      BY <2>1, BasesTyped, ChangeForTyped
    <2> QED BY <2>2 DEF IInv, TypeOK, SettleChange, EndsAs, handVars, tailVars, startVars
  <1>2. CommandKnown'
    BY DEF IInv, CommandKnown, SettleChange, Hear, HandsOff, EndsAs, handVars, planVars, tailVars, startVars
  <1>3. PlanRead'
    <2>1. cmd \in Commands /\ seen \in SUBSET Pairs
      BY DEF IInv, CommandKnown, TypeOK, SettleChange
    <2>2. \A v \in Bases(cmd, seen) : ChangeFor(cmd, v) \in Change
      BY <2>1, BasesTyped, ChangeForTyped
    <2> QED BY <2>2 DEF PlanRead, SettleChange, EndsAs
  <1>4. BackupRead'
    BY DEF IInv, BackupRead, SettleChange, Hear, HandsOff, EndsAs, handVars, planVars, tailVars, startVars
  <1>5. DueIsPlanned'
    BY DEF IInv, DueIsPlanned, Records, SettleChange, Hear, HandsOff, EndsAs, handVars, planVars, tailVars, startVars
  <1>6. DueIsBackedUp'
    BY DEF IInv, DueIsBackedUp, Due, EditedSince, SettleChange, Hear, HandsOff, EndsAs, handVars, planVars, tailVars, startVars
  <1>7. HandsNoted'
    BY DEF IInv, HandsNoted, SettleChange, Hear, HandsOff, EndsAs, handVars, planVars, tailVars, startVars
  <1>8. LostEditIsNoted'
    BY DEF IInv, LostEditIsNoted, SettleChange, Hear, HandsOff, EndsAs, handVars, planVars, tailVars, startVars
  <1> QED BY <1>1, <1>2, <1>3, <1>4, <1>5, <1>6, <1>7, <1>8 DEF IInv

LEMMA PlanKeyKeeps ==
  ASSUME IInv, NEW k \in Keys, PlanKey(k)
  PROVE  IInv'
  <1>1. TypeOK'
    BY DEF IInv, TypeOK, PlanKey, Hear, HandsOff, Board, tailVars, startVars
  <1>2. CommandKnown'
    BY DEF IInv, CommandKnown, PlanKey, Hear, HandsOff, EndsAs, handVars, planVars, tailVars, startVars
  <1>3. PlanRead'
    <2>1. board[k] \in Settings /\ before \in [Keys -> Settings \cup {None}] /\ sel \subseteq Keys
      BY DEF IInv, TypeOK, Board
    <2> QED BY <2>1 DEF IInv, PlanRead, PlanKey
  <1>4. BackupRead'
    BY DEF IInv, BackupRead, PlanKey, Hear, HandsOff, EndsAs, handVars, planVars, tailVars, startVars
  <1>5. DueIsPlanned'
    BY DEF IInv, DueIsPlanned, Records, PlanKey, Hear, HandsOff, EndsAs, handVars, planVars, tailVars, startVars
  <1>6. DueIsBackedUp'
    BY DEF IInv, DueIsBackedUp, Due, EditedSince, PlanKey, Hear, HandsOff, EndsAs, handVars, planVars, tailVars, startVars
  <1>7. HandsNoted'
    BY DEF IInv, HandsNoted, PlanKey, Hear, HandsOff, EndsAs, handVars, planVars, tailVars, startVars
  <1>8. LostEditIsNoted'
    BY DEF IInv, LostEditIsNoted, PlanKey, Hear, HandsOff, EndsAs, handVars, planVars, tailVars, startVars
  <1> QED BY <1>1, <1>2, <1>3, <1>4, <1>5, <1>6, <1>7, <1>8 DEF IInv

LEMMA ConsentKeeps ==
  ASSUME IInv, NEW yes \in BOOLEAN, Consent(yes)
  PROVE  IInv'
  <1>1. TypeOK'
    <2>1. pending' \subseteq Keys \X ValueLayouts
      <3>1. CASE pc' = "backup"
        <4>1. [k \in sel |-> before[k]] \in [sel -> Settings] /\ change \in Change /\ sel \subseteq Keys
          BY DEF IInv, PlanRead, Consent, TypeOK
        <4>2. \A p \in DOMAIN Records : p \in Keys \X ValueLayouts
          BY <4>1, RecordsInRange DEF Records
        <4> QED BY <3>1, <4>2 DEF Consent, EndsAs, IInv, TypeOK
      <3>2. CASE pc' # "backup"
        BY <3>2 DEF Consent, EndsAs, IInv, TypeOK
      <3> QED BY <3>1, <3>2
    <2>2. answered' \in BOOLEAN
      BY DEF Consent, NeedsConfirm
    <2>3. pendingKs' \subseteq Keys /\ todo' \subseteq Keys /\ pc' \in {"idle", "backup"}
          /\ outcome' \in {"none", "refused", "dry", "failed", "mismatch", "verified"}
      BY DEF Consent, EndsAs, IInv, TypeOK
    <2> QED BY <2>1, <2>2, <2>3 DEF IInv, TypeOK, Consent, handVars, planVars, startVars
  <1>2. CommandKnown'
    BY DEF IInv, CommandKnown, Consent, Hear, HandsOff, EndsAs, handVars, planVars, tailVars, startVars
  <1>3. PlanRead'
    <2>1. pc = "plan" /\ todo = {} /\ pc' \in {"idle", "backup"}
      BY DEF Consent, EndsAs
    <2> QED BY <2>1 DEF IInv, PlanRead, Consent, planVars
  <1>4. BackupRead'
    BY DEF IInv, BackupRead, Consent, Hear, HandsOff, EndsAs, handVars, planVars, tailVars, startVars
  <1>5. DueIsPlanned'
    <2>1. CASE pc' = "backup"
      <3>1. pending' = DOMAIN Records /\ Records' = Records /\ sel' = sel /\ index' = index
        BY <2>1 DEF Consent, EndsAs, Records, planVars
      <3>2. pendingKs' = IF index = None THEN {} ELSE sel
        BY <2>1 DEF Consent, EndsAs
      <3>3. index \in Index \cup {None}
        BY DEF IInv, TypeOK
      <3> QED BY <3>1, <3>2, <3>3 DEF DueIsPlanned
    <2>2. CASE pc' # "backup"
      BY <2>2 DEF Consent, EndsAs, DueIsPlanned
    <2> QED BY <2>1, <2>2
  <1>6. DueIsBackedUp'
    <2>1. pc = "plan" /\ backup' = [k \in Keys |-> None]
      BY DEF IInv, BackupRead, Consent
    <2> QED BY <2>1 DEF DueIsBackedUp
  <1>7. HandsNoted'
    BY DEF IInv, HandsNoted, Consent, Hear, HandsOff, EndsAs, handVars, planVars, tailVars, startVars
  <1>8. LostEditIsNoted'
    BY DEF IInv, LostEditIsNoted, Consent, Hear, HandsOff, EndsAs, handVars, planVars, tailVars, startVars
  <1> QED BY <1>1, <1>2, <1>3, <1>4, <1>5, <1>6, <1>7, <1>8 DEF IInv

LEMMA BackupKeyKeeps ==
  ASSUME IInv, NEW k \in Keys, BackupKey(k)
  PROVE  IInv'
  <1>1. TypeOK'
    BY DEF IInv, TypeOK, BackupKey, Hear, HandsOff, Board, planVars, startVars
  <1>2. CommandKnown'
    BY DEF IInv, CommandKnown, BackupKey, Hear, HandsOff, EndsAs, handVars, planVars, tailVars, startVars
  <1>3. PlanRead'
    BY DEF IInv, PlanRead, BackupKey, Hear, HandsOff, EndsAs, handVars, planVars, tailVars, startVars
  <1>4. BackupRead'
    <2>1. board[k] \in Settings /\ backup \in [Keys -> Settings \cup {None}]
      BY DEF IInv, TypeOK, Board
    <2> QED BY <2>1 DEF IInv, BackupRead, BackupKey
  <1>5. DueIsPlanned'
    BY DEF IInv, DueIsPlanned, Records, BackupKey, Hear, HandsOff, EndsAs, handVars, planVars, tailVars, startVars
  <1>6. DueIsBackedUp'
    <2>1. backup \in [Keys -> Settings \cup {None}]
      BY DEF IInv, TypeOK
    <2> QED BY <2>1 DEF IInv, DueIsBackedUp, Due, EditedSince, BackupKey, HandsOff, planVars
  <1>7. HandsNoted'
    BY DEF IInv, HandsNoted, BackupKey, Hear, HandsOff, EndsAs, handVars, planVars, tailVars, startVars
  <1>8. LostEditIsNoted'
    BY DEF IInv, LostEditIsNoted, BackupKey, Hear, HandsOff, EndsAs, handVars, planVars, tailVars, startVars
  <1> QED BY <1>1, <1>2, <1>3, <1>4, <1>5, <1>6, <1>7, <1>8 DEF IInv

LEMMA SaveBackupKeeps ==
  ASSUME IInv, SaveBackup
  PROVE  IInv'
  <1>1. TypeOK'
    BY DEF IInv, TypeOK, SaveBackup, EndsAs, handVars, planVars, tailVars, startVars
  <1>2. CommandKnown'
    BY DEF IInv, CommandKnown, SaveBackup, Hear, HandsOff, EndsAs, handVars, planVars, tailVars, startVars
  <1>3. PlanRead'
    BY DEF IInv, PlanRead, SaveBackup, Hear, HandsOff, EndsAs, handVars, planVars, tailVars, startVars
  <1>4. BackupRead'
    BY DEF IInv, BackupRead, SaveBackup, Hear, HandsOff, EndsAs, handVars, planVars, tailVars, startVars
  <1>5. DueIsPlanned'
    BY DEF IInv, DueIsPlanned, Records, SaveBackup, Hear, HandsOff, EndsAs, handVars, planVars, tailVars, startVars
  <1>6. DueIsBackedUp'
    BY DEF IInv, DueIsBackedUp, Due, EditedSince, SaveBackup, Hear, HandsOff, EndsAs, handVars, planVars, tailVars, startVars
  <1>7. HandsNoted'
    BY DEF IInv, HandsNoted, SaveBackup, Hear, HandsOff, EndsAs, handVars, planVars, tailVars, startVars
  <1>8. LostEditIsNoted'
    BY DEF IInv, LostEditIsNoted, SaveBackup, Hear, HandsOff, EndsAs, handVars, planVars, tailVars, startVars
  <1> QED BY <1>1, <1>2, <1>3, <1>4, <1>5, <1>6, <1>7, <1>8 DEF IInv

LEMMA StartVerifyKeeps ==
  ASSUME IInv, StartVerify
  PROVE  IInv'
  <1>1. TypeOK'
    BY DEF IInv, TypeOK, StartVerify, handVars, planVars, tailVars, startVars
  <1>2. CommandKnown'
    BY DEF IInv, CommandKnown, StartVerify, Hear, HandsOff, EndsAs, handVars, planVars, tailVars, startVars
  <1>3. PlanRead'
    BY DEF IInv, PlanRead, StartVerify, Hear, HandsOff, EndsAs, handVars, planVars, tailVars, startVars
  <1>4. BackupRead'
    BY DEF IInv, BackupRead, StartVerify, Hear, HandsOff, EndsAs, handVars, planVars, tailVars, startVars
  <1>5. DueIsPlanned'
    BY DEF IInv, DueIsPlanned, Records, StartVerify, Hear, HandsOff, EndsAs, handVars, planVars, tailVars, startVars
  <1>6. DueIsBackedUp'
    BY DEF IInv, DueIsBackedUp, Due, EditedSince, StartVerify, Hear, HandsOff, EndsAs, handVars, planVars, tailVars, startVars
  <1>7. HandsNoted'
    BY DEF IInv, HandsNoted, StartVerify, Hear, HandsOff, EndsAs, handVars, planVars, tailVars, startVars
  <1>8. LostEditIsNoted'
    BY DEF IInv, LostEditIsNoted, StartVerify, Hear, HandsOff, EndsAs, handVars, planVars, tailVars, startVars
  <1> QED BY <1>1, <1>2, <1>3, <1>4, <1>5, <1>6, <1>7, <1>8 DEF IInv

LEMMA VerifyKeyKeeps ==
  ASSUME IInv, NEW k \in Keys, VerifyKey(k)
  PROVE  IInv'
  <1>1. TypeOK'
    BY DEF IInv, TypeOK, VerifyKey, Hear, HandsOff, planVars, startVars
  <1>2. CommandKnown'
    BY DEF IInv, CommandKnown, VerifyKey, Hear, HandsOff, EndsAs, handVars, planVars, tailVars, startVars
  <1>3. PlanRead'
    BY DEF IInv, PlanRead, VerifyKey, Hear, HandsOff, EndsAs, handVars, planVars, tailVars, startVars
  <1>4. BackupRead'
    BY DEF IInv, BackupRead, VerifyKey, Hear, HandsOff, EndsAs, handVars, planVars, tailVars, startVars
  <1>5. DueIsPlanned'
    BY DEF IInv, DueIsPlanned, Records, VerifyKey, Hear, HandsOff, EndsAs, handVars, planVars, tailVars, startVars
  <1>6. DueIsBackedUp'
    BY DEF IInv, DueIsBackedUp, Due, EditedSince, VerifyKey, Hear, HandsOff, EndsAs, handVars, planVars, tailVars, startVars
  <1>7. HandsNoted'
    BY DEF IInv, HandsNoted, VerifyKey, Hear, HandsOff, EndsAs, handVars, planVars, tailVars, startVars
  <1>8. LostEditIsNoted'
    BY DEF IInv, LostEditIsNoted, VerifyKey, Hear, HandsOff, EndsAs, handVars, planVars, tailVars, startVars
  <1> QED BY <1>1, <1>2, <1>3, <1>4, <1>5, <1>6, <1>7, <1>8 DEF IInv

LEMMA ReportKeeps ==
  ASSUME IInv, Report
  PROVE  IInv'
  <1>1. TypeOK'
    BY DEF IInv, TypeOK, Report, EndsAs, handVars, planVars, tailVars, startVars
  <1>2. CommandKnown'
    BY DEF IInv, CommandKnown, Report, Hear, HandsOff, EndsAs, handVars, planVars, tailVars, startVars
  <1>3. PlanRead'
    BY DEF IInv, PlanRead, Report, Hear, HandsOff, EndsAs, handVars, planVars, tailVars, startVars
  <1>4. BackupRead'
    BY DEF IInv, BackupRead, Report, Hear, HandsOff, EndsAs, handVars, planVars, tailVars, startVars
  <1>5. DueIsPlanned'
    BY DEF IInv, DueIsPlanned, Records, Report, Hear, HandsOff, EndsAs, handVars, planVars, tailVars, startVars
  <1>6. DueIsBackedUp'
    BY DEF IInv, DueIsBackedUp, Due, EditedSince, Report, Hear, HandsOff, EndsAs, handVars, planVars, tailVars, startVars
  <1>7. HandsNoted'
    BY DEF IInv, HandsNoted, Report, Hear, HandsOff, EndsAs, handVars, planVars, tailVars, startVars
  <1>8. LostEditIsNoted'
    BY DEF IInv, LostEditIsNoted, Report, Hear, HandsOff, EndsAs, handVars, planVars, tailVars, startVars
  <1> QED BY <1>1, <1>2, <1>3, <1>4, <1>5, <1>6, <1>7, <1>8 DEF IInv

LEMMA ReadFailsKeeps ==
  ASSUME IInv, ReadFails
  PROVE  IInv'
  <1>1. TypeOK'
    BY DEF IInv, TypeOK, ReadFails, EndsAs, HearSome, HandsOff, planVars, tailVars, startVars
  <1>2. CommandKnown'
    BY DEF IInv, CommandKnown, ReadFails, HearSome, HandsOff, EndsAs, handVars, planVars, tailVars, startVars
  <1>3. PlanRead'
    BY DEF IInv, PlanRead, ReadFails, HearSome, HandsOff, EndsAs, handVars, planVars, tailVars, startVars
  <1>4. BackupRead'
    BY DEF IInv, BackupRead, ReadFails, HearSome, HandsOff, EndsAs, handVars, planVars, tailVars, startVars
  <1>5. DueIsPlanned'
    BY DEF IInv, DueIsPlanned, Records, ReadFails, HearSome, HandsOff, EndsAs, handVars, planVars, tailVars, startVars
  <1>6. DueIsBackedUp'
    BY DEF IInv, DueIsBackedUp, Due, EditedSince, ReadFails, HearSome, HandsOff, EndsAs, handVars, planVars, tailVars, startVars
  <1>7. HandsNoted'
    BY DEF IInv, HandsNoted, ReadFails, HearSome, HandsOff, EndsAs, handVars, planVars, tailVars, startVars
  <1>8. LostEditIsNoted'
    BY DEF IInv, LostEditIsNoted, ReadFails, HearSome, HandsOff, EndsAs, handVars, planVars, tailVars, startVars
  <1> QED BY <1>1, <1>2, <1>3, <1>4, <1>5, <1>6, <1>7, <1>8 DEF IInv

LEMMA EnterAdjustKeeps ==
  ASSUME IInv, EnterAdjust
  PROVE  IInv'
  <1>1. TypeOK'
    BY DEF IInv, TypeOK, EnterAdjust, planVars, tailVars, startVars
  <1>2. CommandKnown'
    BY DEF IInv, CommandKnown, EnterAdjust, Hear, HandsOff, EndsAs, handVars, planVars, tailVars, startVars
  <1>3. PlanRead'
    BY DEF IInv, PlanRead, EnterAdjust, Hear, HandsOff, EndsAs, handVars, planVars, tailVars, startVars
  <1>4. BackupRead'
    BY DEF IInv, BackupRead, EnterAdjust, Hear, HandsOff, EndsAs, handVars, planVars, tailVars, startVars
  <1>5. DueIsPlanned'
    BY DEF IInv, DueIsPlanned, Records, EnterAdjust, Hear, HandsOff, EndsAs, handVars, planVars, tailVars, startVars
  <1>6. DueIsBackedUp'
    BY DEF IInv, DueIsBackedUp, Due, EditedSince, EnterAdjust, Hear, HandsOff, EndsAs, handVars, planVars, tailVars, startVars
  <1>7. HandsNoted'
    BY DEF IInv, HandsNoted, EnterAdjust, Hear, HandsOff, EndsAs, handVars, planVars, tailVars, startVars
  <1>8. LostEditIsNoted'
    BY DEF IInv, LostEditIsNoted, EnterAdjust, Hear, HandsOff, EndsAs, handVars, planVars, tailVars, startVars
  <1> QED BY <1>1, <1>2, <1>3, <1>4, <1>5, <1>6, <1>7, <1>8 DEF IInv

LEMMA LeaveAdjustKeeps ==
  ASSUME IInv, LeaveAdjust
  PROVE  IInv'
  <1>1. TypeOK'
    BY DEF IInv, TypeOK, LeaveAdjust, planVars, tailVars, startVars
  <1>2. CommandKnown'
    BY DEF IInv, CommandKnown, LeaveAdjust, Hear, HandsOff, EndsAs, handVars, planVars, tailVars, startVars
  <1>3. PlanRead'
    BY DEF IInv, PlanRead, LeaveAdjust, Hear, HandsOff, EndsAs, handVars, planVars, tailVars, startVars
  <1>4. BackupRead'
    BY DEF IInv, BackupRead, LeaveAdjust, Hear, HandsOff, EndsAs, handVars, planVars, tailVars, startVars
  <1>5. DueIsPlanned'
    BY DEF IInv, DueIsPlanned, Records, LeaveAdjust, Hear, HandsOff, EndsAs, handVars, planVars, tailVars, startVars
  <1>6. DueIsBackedUp'
    BY DEF IInv, DueIsBackedUp, Due, EditedSince, LeaveAdjust, Hear, HandsOff, EndsAs, handVars, planVars, tailVars, startVars
  <1>7. HandsNoted'
    BY DEF IInv, HandsNoted, LeaveAdjust, Hear, HandsOff, EndsAs, handVars, planVars, tailVars, startVars
  <1>8. LostEditIsNoted'
    BY DEF IInv, LostEditIsNoted, LeaveAdjust, Hear, HandsOff, EndsAs, handVars, planVars, tailVars, startVars
  <1> QED BY <1>1, <1>2, <1>3, <1>4, <1>5, <1>6, <1>7, <1>8 DEF IInv

\* The three actions that change the board: what is due stays what the backup
\* read, because a frame writes only what was due and is no longer.
LEMMA EditKeeps ==
  ASSUME IInv, NEW k \in Keys, NEW l \in {"ap", "press", "release"}, NEW v \in Travels,
         Edit(k, l, v)
  PROVE  IInv'
  <1> DEFINE r == [p \in {<<k, l>>} |-> v]
  <1>1. board \in Board /\ board' = Landed(board, r) /\ l \in Layouts
    BY DEF IInv, TypeOK, Edit, Layouts, ValueLayouts
  <1>2. board' \in Board
    BY <1>1, LandedIsBoard DEF FieldRange
  <1>3. Stage(k) \in SincePlan \cup {"unread"}
    BY DEF Stage, SincePlan
  <1>4. TypeOK'
    BY <1>1, <1>2, <1>3 DEF IInv, TypeOK, Edit, planVars, tailVars, startVars
  <1>5. CommandKnown'
    BY DEF IInv, CommandKnown, Edit, startVars
  <1>6. PlanRead'
    BY DEF IInv, PlanRead, Edit, planVars
  <1>7. BackupRead'
    BY DEF IInv, BackupRead, Edit, tailVars
  <1>8. DueIsPlanned'
    BY DEF IInv, DueIsPlanned, Records, Edit, planVars, tailVars
  <1>9. DueIsBackedUp'
    <2> SUFFICES ASSUME pc' \in {"backup", "apply"}, NEW j \in Keys, NEW f \in Layouts,
                        Due(j, f)', backup'[j] # None
                 PROVE  \/ Field(backup'[j], f) = Field(board'[j], f)
                        \/ EditedSince(<<j, f>>, SinceBackup)'
      BY DEF DueIsBackedUp
    <2>1. pc' = pc /\ backup' = backup /\ edits' = edits \cup {<<k, l, Stage(k)>>}
      BY DEF Edit, tailVars
    <2>2. Due(j, f)
      BY DEF Due, Edit, planVars, tailVars
    <2>3. CASE j = k /\ f = l
      <3>1. Stage(k) = "backedup"
        BY <2>1, <2>3 DEF Stage
      <3> QED BY <2>1, <2>3, <3>1 DEF EditedSince, SinceBackup
    <2>4. CASE ~(j = k /\ f = l)
      <3>1. Field(board'[j], f) = Field(board[j], f)
        <4>1. <<j, f>> \notin DOMAIN r
          BY <2>4
        <4>2. Field(Landed(board, r)[j], f) = Written(r, j, f, Field(board[j], f))
          BY <1>1, LandedField
        <4> QED BY <1>1, <4>1, <4>2 DEF Written
      <3> QED BY <2>1, <2>2, <3>1 DEF IInv, DueIsBackedUp, EditedSince
    <2> QED BY <2>3, <2>4
  <1>10. HandsNoted'
    BY DEF IInv, HandsNoted, Edit, startVars
  <1>11. LostEditIsNoted'
    BY DEF IInv, LostEditIsNoted, Edit, startVars, tailVars
  <1> QED BY <1>4, <1>5, <1>6, <1>7, <1>8, <1>9, <1>10, <1>11 DEF IInv

\* What sending any records that were due does.
LEMMA SendKeeps ==
  ASSUME IInv, NEW records, pc = "apply", Send(records),
         \A k \in Keys, l \in Layouts : <<k, l>> \in DOMAIN records => records[<<k, l>>] \in FieldRange(l),
         DOMAIN records \subseteq Keys \X Layouts,
         pending' \subseteq pending, pendingKs' \subseteq pendingKs,
         \A k \in Keys, l \in Layouts : <<k, l>> \in DOMAIN records => ~Due(k, l)',
         UNCHANGED <<adjusting, edits, planVars, backup, bad, answered, startVars>>
  PROVE  IInv'
  <1>0. /\ heard \subseteq heard' /\ heard' \cup wire' = heard \cup wire
        /\ lost' # lost => heard' = heard \cup wire
    BY DEF Send, Hear, HearSome
  <1>1. board' \in Board
    BY LandedIsBoard DEF IInv, TypeOK, Send
  <1>2. /\ pc' \in {"apply", "idle"} /\ todo' \subseteq Keys
        /\ outcome' \in {"none", "refused", "dry", "failed", "mismatch", "verified"}
        /\ lost' \subseteq Keys \X Layouts
    BY DEF IInv, TypeOK, Send, Overwritten, EndsAs
  <1>3. TypeOK'
    BY <1>1, <1>2, <1>0 DEF IInv, TypeOK, planVars, startVars
  <1>4. CommandKnown'
    BY DEF IInv, CommandKnown, startVars
  <1>5. PlanRead'
    BY <1>2 DEF IInv, PlanRead, planVars
  <1>6. BackupRead'
    BY <1>2 DEF IInv, BackupRead
  <1>7. DueIsPlanned'
    BY <1>2 DEF IInv, DueIsPlanned, Records, planVars
  <1>8. DueIsBackedUp'
    <2> SUFFICES ASSUME pc' = "apply", NEW j \in Keys, NEW f \in Layouts,
                        Due(j, f)', backup'[j] # None
                 PROVE  \/ Field(backup'[j], f) = Field(board'[j], f)
                        \/ EditedSince(<<j, f>>, SinceBackup)'
      BY <1>2 DEF DueIsBackedUp
    <2>1. Due(j, f)
      BY DEF Due, planVars
    <2>2. Field(board'[j], f) = Field(board[j], f)
      <3>1. <<j, f>> \notin DOMAIN records
        OBVIOUS
      <3>2. board \in Board
        BY DEF IInv, TypeOK
      <3>3. Field(Landed(board, records)[j], f) = Written(records, j, f, Field(board[j], f))
        BY <3>2, LandedField
      <3> QED BY <3>1, <3>3 DEF Send, Written
    <2> QED BY <2>1, <2>2 DEF IInv, DueIsBackedUp, EditedSince
  <1>9. HandsNoted'
    BY <1>0 DEF IInv, HandsNoted, startVars
  <1>10. LostEditIsNoted'
    <2>1. CASE lost' = lost
      BY <1>0, <2>1 DEF IInv, LostEditIsNoted, startVars
    <2>2. CASE lost' # lost
      <3>1. edits # {}
        BY <2>2 DEF Send, Overwritten, EditedSince
      <3>2. runs > 0
        BY DEF IInv, CommandKnown
      <3> QED BY <1>0, <2>2, <3>1, <3>2 DEF IInv, HandsNoted, LostEditIsNoted, startVars
    <2> QED BY <2>1, <2>2
  <1> QED BY <1>3, <1>4, <1>5, <1>6, <1>7, <1>8, <1>9, <1>10 DEF IInv

\* The frames of the plan, and where its records come from.
LEMMA PendingTyped ==
  ASSUME IInv, pc = "apply"
  PROVE  \A p \in pending : /\ p \in Keys \X ValueLayouts
                            /\ p \in DOMAIN Records
                            /\ Records[p] \in FieldRange(p[2])
                            /\ p[2] = "mode" => Records[p].touch # Global
  <1>1. [k \in sel |-> before[k]] \in [sel -> Settings] /\ change \in Change /\ sel \subseteq Keys
    BY DEF IInv, PlanRead, TypeOK
  <1>2. pending \subseteq DOMAIN Records
    BY DEF IInv, DueIsPlanned
  <1>3. \A p \in DOMAIN Records : p \in Keys \X ValueLayouts /\ Records[p] \in FieldRange(p[2])
    BY <1>1, RecordsInRange DEF Records
  <1>4. \A p \in DOMAIN Records : p[2] = "mode" => Records[p].touch # Global
    BY <1>1, RecordsNeverGlobal DEF Records
  <1> QED BY <1>2, <1>3, <1>4

LEMMA SendValuesKeeps ==
  ASSUME IInv, SendValues
  PROVE  IInv'
  <1>1. PICK batch \in Cuts(pending) :
          /\ Send([p \in batch |-> Records[p]])
          /\ pending' = pending \ batch
    BY DEF SendValues
  <1> DEFINE records == [p \in batch |-> Records[p]]
  <1>2. batch \subseteq pending
    BY <1>1 DEF Cuts
  <1>3. pc = "apply" /\ pendingKs' = pendingKs /\ change' = change
        /\ UNCHANGED <<adjusting, edits, planVars, backup, bad, answered, startVars>>
    BY DEF SendValues, planVars
  <1>4. \A p \in batch : p \in Keys \X ValueLayouts /\ Records[p] \in FieldRange(p[2])
    BY <1>2, <1>3, PendingTyped
  <1>5. \A k \in Keys, l \in Layouts : <<k, l>> \in batch => ~Due(k, l)'
    BY <1>1, <1>3, <1>4, KeysetLayoutIsLayout DEF Due
  <1>6. DOMAIN records \subseteq Keys \X Layouts
    BY <1>4 DEF Layouts
  <1>7. \A k \in Keys, l \in Layouts : <<k, l>> \in DOMAIN records => records[<<k, l>>] \in FieldRange(l)
    BY <1>4
  <1> QED BY <1>1, <1>2, <1>3, <1>5, <1>6, <1>7, SendKeeps

LEMMA SendMembershipKeeps ==
  ASSUME IInv, NEW k \in Keys, SendMembership(k)
  PROVE  IInv'
  <1> DEFINE lk == KeysetLayout(change.kind)
             records == MembershipRecord(k)
  <1>1. /\ pc = "apply" /\ pending = {} /\ pending' = pending /\ change' = change
        /\ k \in pendingKs /\ pendingKs' = pendingKs \ {k} /\ Send(records)
        /\ UNCHANGED <<adjusting, edits, planVars, backup, bad, answered, startVars>>
    BY DEF SendMembership, IsFirst, planVars
  <1>2. lk \in Layouts /\ FieldRange(lk) = Index
    BY KeysetLayoutIsLayout
  <1>3. index \in Index
    BY <1>1 DEF IInv, DueIsPlanned
  <1>4. DOMAIN records = {<<k, lk>>} /\ records[<<k, lk>>] = index
    BY DEF MembershipRecord
  <1>5. \A j \in Keys, l \in Layouts : <<j, l>> \in DOMAIN records => ~Due(j, l)'
    BY <1>1, <1>4 DEF Due
  <1>6. DOMAIN records \subseteq Keys \X Layouts
    BY <1>2, <1>4
  <1>7. \A j \in Keys, l \in Layouts : <<j, l>> \in DOMAIN records => records[<<j, l>>] \in FieldRange(l)
    BY <1>2, <1>3, <1>4
  <1> QED BY <1>1, <1>5, <1>6, <1>7, SendKeeps

-----------------------------------------------------------------------------
THEOREM Inductive == IInv /\ [Next]_vars => IInv'
  <1> SUFFICES ASSUME IInv, [Next]_vars PROVE IInv'
    OBVIOUS
  <1>1. CASE Program
    <2>1. CASE \E yes \in BOOLEAN : Consent(yes)
      BY <2>1, ConsentKeeps
    <2>2. CASE \E k \in Keys : \/ ReadBase(k) \/ PlanKey(k) \/ BackupKey(k)
                               \/ SendMembership(k) \/ VerifyKey(k)
      BY <2>2, ReadBaseKeeps, PlanKeyKeeps, BackupKeyKeeps, SendMembershipKeeps, VerifyKeyKeeps
    <2> QED BY <1>1, <2>1, <2>2, ReadMembershipKeeps, SettleChangeKeeps, SaveBackupKeeps,
               SendValuesKeeps, StartVerifyKeeps, ReportKeeps, ReadFailsKeeps DEF Program
  <1>2. CASE Hands
    BY <1>2, EnterAdjustKeeps, LeaveAdjustKeeps, EditKeeps DEF Hands
  <1>3. CASE \E c \in Commands : Begin(c)
    BY <1>3, BeginKeeps
  <1>4. CASE UNCHANGED vars
    BY <1>4 DEF IInv, TypeOK, CommandKnown, PlanRead, BackupRead, DueIsPlanned, Records,
                DueIsBackedUp, Due, EditedSince, HandsNoted, LostEditIsNoted,
                vars, handVars, planVars, tailVars, startVars
  <1> QED BY <1>1, <1>2, <1>3, <1>4 DEF Next

\* The invariant holds of every behaviour.
THEOREM Invariant == Spec => []IInv
  BY Initial, Inductive, PTL DEF Spec

\* Every variable holds a value of its kind.
THEOREM TypeCorrect == Spec => []TypeOK
  <1>1. IInv => TypeOK
    BY DEF IInv
  <1> QED BY <1>1, Invariant, PTL

\* No frame waiting to be sent carries touch nibble 0 (plan).
THEOREM GlobalNibbleNeverWritten == Spec => []NeverWritesGlobalNibble
  <1>1. IInv => NeverWritesGlobalNibble
    BY PendingTyped DEF NeverWritesGlobalNibble
  <1> QED BY <1>1, Invariant, PTL

\* A command that overwrote a hand edit with a frame the board acknowledged has
\* heard the board enter adjust mode, however it ends, unless it was adjusting
\* when the command began (Session::roundtrip, with_session).
THEOREM LostEditsNoted == Spec => []LostEditIsNoted
  <1>1. IInv => LostEditIsNoted
    BY DEF IInv
  <1> QED BY <1>1, Invariant, PTL

\* Whatever a frame overwrites, the auto-backup holds, unless the hands put it
\* there after the backup read the key.
THEOREM BackedUpBeforeOverwritten == Spec => OverwrittenIsBackedUp
  <1>1. ASSUME IInv, [Next]_vars, FrameSent, NEW k \in Keys, NEW l \in Layouts,
               Field(board'[k], l) # Field(board[k], l)
        PROVE  /\ backup[k] # None
               /\ \/ Field(backup[k], l) = Field(board[k], l)
                  \/ EditedSince(<<k, l>>, SinceBackup)
    <2>1. SendValues \/ \E j \in Keys : SendMembership(j)
      <3>1. board' # board
        BY <1>1
      <3> QED BY <1>1, <3>1 DEF Next, Program, Hands, FrameSent, HandsOff, Begin, ReadMembership,
            ReadBase, SettleChange, PlanKey, Consent, BackupKey, SaveBackup, StartVerify,
            VerifyKey, Report, ReadFails, EnterAdjust, LeaveAdjust, Edit,
            vars, handVars, tailVars
    <2>2. pc = "apply" /\ board \in Board /\ backup[k] # None
      BY <1>1, <2>1, KeysetAssumption
      DEF SendValues, SendMembership, IInv, TypeOK, BackupRead
    <2>3. Due(k, l)
      <3>1. ASSUME NEW records, Send(records) PROVE <<k, l>> \in DOMAIN records
        BY <1>1, <2>2, <3>1, LandedField DEF Send, Written
      <3>2. CASE SendValues
        <4>1. PICK batch \in Cuts(pending) : Send([p \in batch |-> Records[p]])
          BY <3>2 DEF SendValues
        <4>2. <<k, l>> \in batch
          BY <4>1, <3>1
        <4> QED BY <4>1, <4>2 DEF Cuts, Due
      <3>3. CASE \E j \in Keys : SendMembership(j)
        <4>1. PICK j \in Keys : Send(MembershipRecord(j)) /\ j \in pendingKs
          BY <3>3 DEF SendMembership, IsFirst
        <4>2. <<k, l>> \in {<<j, KeysetLayout(change.kind)>>}
          BY <4>1, <3>1 DEF MembershipRecord
        <4> QED BY <4>1, <4>2 DEF Due
      <3> QED BY <2>1, <3>2, <3>3
    <2> QED BY <1>1, <2>2, <2>3 DEF IInv, DueIsBackedUp
  <1>2. IInv /\ [Next]_vars => [BackedUpFirst]_vars
    BY <1>1 DEF BackedUpFirst
  <1> QED BY <1>2, Invariant, PTL DEF Spec, OverwrittenIsBackedUp

-----------------------------------------------------------------------------
(* 3  The order of the writes, and what they leave behind.                 *)

Kl == KeysetLayout(cmd.kind)

\* The phases from which the selection, and the change, are settled.
Resolved == pc \in {"base", "plan", "backup"} \/ Sending
Settled  == pc \in {"plan", "backup"} \/ Sending

\* A key holds what the plan read of it, or what the plan makes of it, the hands
\* apart.
Kept(k) == Agree(board[k], before[k], Untouched(k) \cap ValueLayouts)
Done(k) == Agree(board[k], Wanted(k), Untouched(k) \cap ValueLayouts)

\* Read back and found as planned; edited since, if at all.
Checked(k) ==
  \A l \in Layouts : EditedSince(<<k, l>>, {"verified", "after"}) \/ Field(board[k], l) = Field(Wanted(k), l)

\* A key as the membership sweep found it.
Stays(k)   == Field(board[k], Kl) = entries[k]
Entered(k) == before[k] \in Settings /\ Field(before[k], Kl) = entries[k]

Selection ==
  /\ cmd \in Commands /\ entries \in Membership
  /\ sel = Selected(cmd, entries) /\ index \in Indices(cmd, entries)

Chosen == \E v \in Bases(cmd, seen) : change = ChangeFor(cmd, v)

AllPending(k)  == \A l \in ValueLayouts : <<k, l>> \in DOMAIN Records => <<k, l>> \in pending
NonePending(k) == \A l \in ValueLayouts : <<k, l>> \notin pending

-----------------------------------------------------------------------------
\* A command at work has not ended.
OutcomeLast == pc # "idle" => outcome = "none"

\* What is being written was consented to.
Consented == pc \in {"backup", "apply"} => ~cmd.dry /\ (NeedsConfirm(cmd, sel, index) => answered)

\* The plan is what the command makes of what it read.
PlanFollows ==
  /\ Resolved => Selection
  /\ Settled => Chosen
  /\ Resolved => (cmd.kind = "ap" => \A v \in seen : v[1] = v[2])

\* Membership is the same at every read of the plan.
BeforeIsEntered ==
  /\ pc = "plan" => \A k \in sel \ todo : Entered(k)
  /\ pc = "backup" \/ Sending => \A k \in sel : Entered(k)

\* Membership is left alone until every value is out, and that of keys outside
\* the selection ever after.
MembershipHeld ==
  /\ pc \in {"base", "plan", "backup"} \/ (pc = "apply" /\ pending # {}) => \A k \in Keys : Stays(k)
  /\ Sending => \A k \in Keys \ sel : Stays(k)

\* The values of a key go out together.
Landing ==
  /\ pc = "plan" => \A k \in sel \ todo : Kept(k)
  /\ pc \in {"backup", "apply"} =>
       \A k \in sel : (AllPending(k) /\ Kept(k)) \/ (NonePending(k) /\ Done(k))

\* The hands reach values only.
HandsOnValues == \A e \in edits : e[2] \in {"ap", "press", "release"}

\* What has been read back and found good is as planned.
ReadBack ==
  /\ pc = "verify" => \A k \in sel \ todo : k \in bad \/ Checked(k)
  /\ outcome = "verified" => \A k \in sel : Checked(k)

\* Base values are read after the sweep only.
SeenLater == pc = "membership" => seen = {}

OInv ==
  /\ OutcomeLast
  /\ SeenLater
  /\ Consented
  /\ PlanFollows
  /\ BeforeIsEntered
  /\ MembershipHeld
  /\ Landing
  /\ HandsOnValues
  /\ ReadBack
  /\ KeysMoveWhole
  /\ MembershipComesLast

\* Nothing is under way at first.
LEMMA InitialOrder == Init => OInv
BY DEF Init, OInv, SeenLater, OutcomeLast, Consented, PlanFollows, Resolved, Settled, Sending, BeforeIsEntered,
       MembershipHeld, Landing, HandsOnValues, ReadBack, KeysMoveWhole, MembershipComesLast

-----------------------------------------------------------------------------
(* Steps that touch neither the board nor the plan.                        *)

Frozen == UNCHANGED <<board, edits, planVars, startVars>>

LEMMA FrozenAll ==
  ASSUME Frozen
  PROVE  /\ Selection' <=> Selection
         /\ Chosen' <=> Chosen
         /\ HandsOnValues' <=> HandsOnValues
         /\ sel' = sel /\ index' = index /\ cmd' = cmd /\ seen' = seen /\ Records' = Records
         /\ \A k : /\ Kept(k)' <=> Kept(k)
                   /\ Done(k)' <=> Done(k)
                   /\ Checked(k)' <=> Checked(k)
                   /\ Stays(k)' <=> Stays(k)
                   /\ Entered(k)' <=> Entered(k)
<1>1. /\ sel' = sel /\ index' = index /\ cmd' = cmd /\ seen' = seen /\ entries' = entries
      /\ before' = before /\ change' = change /\ board' = board /\ edits' = edits
      BY DEF Frozen, planVars, startVars
<1>2. Records' = Records
      BY <1>1 DEF Records
<1>3. \A k : Wanted(k)' = Wanted(k)
      BY <1>1, <1>2 DEF Wanted, MembershipRecord
<1>4. \A k : Kept(k)' <=> Kept(k)
      BY <1>1 DEF Kept, Agree, Untouched, EditedSince
<1>5. \A k : Done(k)' <=> Done(k)
      BY <1>1, <1>3 DEF Done, Agree, Untouched, EditedSince
<1>6. \A k : Checked(k)' <=> Checked(k)
      BY <1>1, <1>3 DEF Checked, EditedSince
<1>7. \A k : (Stays(k)' <=> Stays(k)) /\ (Entered(k)' <=> Entered(k))
      BY <1>1 DEF Stays, Entered, Kl
<1>8. (Selection' <=> Selection) /\ (Chosen' <=> Chosen) /\ (HandsOnValues' <=> HandsOnValues)
      BY <1>1 DEF Selection, Chosen, HandsOnValues
<1> QED BY <1>1, <1>2, <1>4, <1>5, <1>6, <1>7, <1>8

LEMMA KeysetField ==
  ASSUME NEW s, NEW kind
  PROVE  Field(s, KeysetLayout(kind)) = IF kind = "ap" THEN s.apks ELSE s.rtks
<1>1. CASE kind = "ap"
      BY <1>1 DEF KeysetLayout, Field
<1>2. CASE kind # "ap"
      BY <1>2 DEF KeysetLayout, Field
<1> QED BY <1>1, <1>2

\* What the two properties say of a key, in the words above.
LEMMA KeysMoveWholeSaid == KeysMoveWhole <=> (Sending => \A k \in sel : Kept(k) \/ Done(k))
BY DEF KeysMoveWhole, Kept, Done

LEMMA MembershipComesLastSaid ==
  MembershipComesLast <=> (Sending /\ (\E k \in sel : ~Stays(k)) => \A k \in sel : Done(k))
BY DEF MembershipComesLast, Stays, Kl, Done

LEMMA SaidLater ==
  /\ KeysMoveWhole' <=> (Sending' => \A k \in sel' : Kept(k)' \/ Done(k)')
  /\ MembershipComesLast' <=>
       (Sending' /\ (\E k \in sel' : ~Stays(k)') => \A k \in sel' : Done(k)')
BY DEF KeysMoveWhole, MembershipComesLast, Kept, Done, Stays, Kl


-----------------------------------------------------------------------------
(* Every action keeps the order: the plan's steps.                         *)

LEMMA BeginOrder == ASSUME NEW c \in Commands, Begin(c) PROVE OInv'
<1>1. pc' = "membership" /\ outcome' = "none" /\ edits' = {} /\ seen' = {}
      BY DEF Begin
<1>2. ~Resolved' /\ ~Settled' /\ ~Sending'
      BY <1>1 DEF Resolved, Settled, Sending
<1> QED BY <1>1, <1>2 DEF OInv, OutcomeLast, Consented, PlanFollows, BeforeIsEntered, MembershipHeld,
          SeenLater, Landing, HandsOnValues, ReadBack, KeysMoveWhole, MembershipComesLast

\* What a command that ends before it writes leaves to show.
LEMMA EndOrder ==
  ASSUME OInv, pc' = "idle", outcome' \in {"refused", "dry"}, UNCHANGED edits
  PROVE  OInv'
<1>1. ~Resolved' /\ ~Settled' /\ ~Sending'
      BY DEF Resolved, Settled, Sending
<1> QED BY <1>1 DEF OInv, OutcomeLast, Consented, PlanFollows, BeforeIsEntered, MembershipHeld,
          SeenLater, Landing, HandsOnValues, ReadBack, KeysMoveWhole, MembershipComesLast

LEMMA ReadMembershipOrder == ASSUME IInv, OInv, ReadMembership PROVE OInv'
<1> DEFINE m == [k \in Keys |-> IF cmd.kind = "ap" THEN board[k].apks ELSE board[k].rtks]
<1>1. pc = "membership" /\ cmd \in Commands /\ cmd' = cmd /\ board' = board /\ edits' = edits
      /\ entries' = m /\ seen' = seen
      BY DEF ReadMembership, IInv, CommandKnown, HandsOff, startVars
<1>2. CASE pc' = "idle"
      BY <1>1, <1>2, EndOrder DEF ReadMembership, EndsAs
<1>3. CASE pc' = "base" /\ outcome' = outcome /\ sel' = Selected(cmd, m) /\ index' \in Indices(cmd, m)
  <2>1. m \in Membership
        BY DEF IInv, TypeOK, Board, Settings, Membership
  <2>2. outcome' = "none"
        BY <1>1, <1>3 DEF OInv, OutcomeLast
  <2>3. Resolved' /\ ~Settled' /\ ~Sending'
        BY <1>3, <2>2 DEF Resolved, Settled, Sending
  <2>4. Selection'
        BY <1>1, <1>3, <2>1 DEF Selection
  <2>5. \A k \in Keys : Stays(k)'
        BY <1>1, KeysetField DEF Stays, Kl
  <2>6. seen = {}
        BY <1>1 DEF OInv, SeenLater
  <2> QED BY <1>1, <1>3, <2>2, <2>3, <2>4, <2>5, <2>6
          DEF OInv, OutcomeLast, Consented, PlanFollows, BeforeIsEntered, MembershipHeld,
          SeenLater, Landing, HandsOnValues, ReadBack, KeysMoveWhole, MembershipComesLast
<1> QED BY <1>2, <1>3 DEF ReadMembership, EndsAs

LEMMA ReadBaseOrder == ASSUME IInv, OInv, NEW k \in Keys, ReadBase(k) PROVE OInv'
<1>1. /\ pc = "base" /\ pc' = "base" /\ outcome = "none" /\ outcome' = "none"
      /\ Resolved /\ ~Settled' /\ ~Sending'
      BY DEF ReadBase, OInv, OutcomeLast, Resolved, Settled, Sending
<1>2. /\ sel' = sel /\ index' = index /\ cmd' = cmd /\ entries' = entries
      /\ board' = board /\ edits' = edits /\ seen' = seen \cup {BaseOf(cmd.kind, board[k])}
      BY DEF ReadBase, HandsOff, startVars
<1>3. Selection'
      BY <1>1, <1>2 DEF OInv, PlanFollows, Selection
<1>4. \A j \in Keys : Stays(j)'
      BY <1>1, <1>2 DEF OInv, MembershipHeld, Stays, Kl
<1>5. cmd'.kind = "ap" => \A v \in seen' : v[1] = v[2]
      BY <1>1, <1>2 DEF OInv, PlanFollows, BaseOf
<1>6. PlanFollows'
      BY <1>1, <1>3, <1>5 DEF PlanFollows
<1> QED BY <1>1, <1>2, <1>4, <1>6 DEF OInv, OutcomeLast, SeenLater, Consented, BeforeIsEntered, MembershipHeld,
          Landing, HandsOnValues, ReadBack, KeysMoveWhole, MembershipComesLast

LEMMA SettleChangeOrder == ASSUME IInv, OInv, SettleChange PROVE OInv'
<1>1. /\ pc = "base" /\ outcome = "none" /\ Resolved
      /\ sel' = sel /\ index' = index /\ cmd' = cmd /\ entries' = entries
      /\ board' = board /\ edits' = edits /\ seen' = seen
      BY DEF SettleChange, OInv, OutcomeLast, Resolved, handVars, startVars
<1>2. CASE pc' = "idle"
      BY <1>1, <1>2, EndOrder DEF SettleChange, EndsAs
<1>3. CASE /\ pc' = "plan" /\ todo' = sel /\ outcome' = outcome
           /\ \E v \in Bases(cmd, seen) : change' = ChangeFor(cmd, v)
  <2>1. ~Sending'
        BY <1>1, <1>3 DEF Sending
  <2>2. Selection' /\ Chosen'
        BY <1>1, <1>3 DEF OInv, PlanFollows, Selection, Chosen
  <2>3. \A k \in Keys : Stays(k)'
        BY <1>1 DEF OInv, MembershipHeld, Stays, Kl
  <2>4. PlanFollows'
        BY <1>1, <2>2 DEF OInv, PlanFollows
  <2> QED BY <1>1, <1>3, <2>1, <2>3, <2>4 DEF OInv, OutcomeLast, SeenLater, Consented, BeforeIsEntered,
          MembershipHeld, Landing, HandsOnValues, ReadBack, KeysMoveWhole, MembershipComesLast
<1> QED BY <1>2, <1>3 DEF SettleChange, EndsAs

LEMMA PlanKeyOrder == ASSUME IInv, OInv, NEW k \in Keys, PlanKey(k) PROVE OInv'
<1>1. /\ pc = "plan" /\ pc' = "plan" /\ outcome = "none" /\ outcome' = "none"
      /\ Resolved /\ Settled /\ ~Sending' /\ k \in todo /\ todo' = todo \ {k}
      BY DEF PlanKey, IsFirst, OInv, OutcomeLast, Resolved, Settled, Sending
<1>2. /\ sel' = sel /\ index' = index /\ cmd' = cmd /\ entries' = entries /\ change' = change
      /\ board' = board /\ edits' = edits /\ seen' = seen /\ before' = [before EXCEPT ![k] = board[k]]
      BY DEF PlanKey, HandsOff, startVars
<1>3. before'[k] = board[k] /\ board[k] \in Settings /\ \A j \in Keys \ {k} : before'[j] = before[j]
      BY <1>2 DEF IInv, TypeOK, Board
<1>4. Selection' /\ Chosen' /\ PlanFollows'
      BY <1>1, <1>2 DEF OInv, PlanFollows, Selection, Chosen
<1>5. \A j \in Keys : Stays(j) /\ Stays(j)'
      BY <1>1, <1>2 DEF OInv, MembershipHeld, Stays, Kl
<1>6. Entered(k)' /\ Kept(k)'
      BY <1>2, <1>3, <1>5 DEF Entered, Stays, Kl, Kept, Agree
<1>7. \A j \in sel \ todo : j # k => Entered(j)' /\ Kept(j)'
  <2> SUFFICES ASSUME NEW j \in sel \ todo, j # k PROVE Entered(j)' /\ Kept(j)'
      OBVIOUS
  <2>1. Entered(j) /\ Kept(j) /\ before'[j] = before[j]
        BY <1>1, <1>3 DEF OInv, BeforeIsEntered, Landing, IInv, TypeOK
  <2> QED BY <1>2, <2>1 DEF Entered, Kl, Kept, Agree, Untouched, EditedSince
<1>8. \A j \in sel' \ todo' : Entered(j)' /\ Kept(j)'
      BY <1>1, <1>2, <1>6, <1>7
<1> QED BY <1>1, <1>2, <1>4, <1>5, <1>8 DEF OInv, OutcomeLast, SeenLater, Consented, BeforeIsEntered,
          MembershipHeld, Landing, HandsOnValues, ReadBack, KeysMoveWhole, MembershipComesLast

-----------------------------------------------------------------------------
(* The steps after the plan that leave the board alone.                    *)

LEMMA ConsentOrder == ASSUME IInv, OInv, NEW yes \in BOOLEAN, Consent(yes) PROVE OInv'
<1>1. /\ pc = "plan" /\ todo = {} /\ outcome = "none" /\ Resolved /\ Settled /\ Frozen
      /\ answered' = (yes /\ NeedsConfirm(cmd, sel, index))
      BY DEF Consent, OInv, OutcomeLast, Resolved, Settled, handVars, Frozen
<1>2. CASE pc' = "idle"
      BY <1>1, <1>2, EndOrder DEF Consent, EndsAs, Frozen
<1>3. CASE /\ ~NeedsConfirm(cmd, sel, index) \/ yes
           /\ ~cmd.dry /\ pc' = "backup" /\ pending' = DOMAIN Records /\ outcome' = outcome
  <2>1. ~Sending' /\ \A k \in sel : Entered(k) /\ Kept(k)
        BY <1>1, <1>3 DEF Sending, OInv, BeforeIsEntered, Landing
  <2>2. Consented'
        BY <1>1, <1>3, FrozenAll DEF Consented
  <2>3. PlanFollows'
        BY <1>1, FrozenAll DEF OInv, PlanFollows
  <2>4. \A k \in Keys : Stays(k)
        BY <1>1 DEF OInv, MembershipHeld
  <2>5. \A k : AllPending(k)'
        BY <1>1, <1>3, FrozenAll DEF AllPending
  <2> QED BY <1>1, <1>3, <2>1, <2>2, <2>3, <2>4, <2>5, FrozenAll
          DEF OInv, OutcomeLast, SeenLater, BeforeIsEntered,
          MembershipHeld, Landing, ReadBack, KeysMoveWhole, MembershipComesLast
<1> QED BY <1>2, <1>3 DEF Consent, EndsAs

\* Nothing the order is about has changed.
LEMMA StillOrder ==
  ASSUME OInv, Frozen, UNCHANGED <<pc, outcome, pending, answered, bad>>,
         pc = "backup" \/ todo' = todo
  PROVE  OInv'
<1>1. /\ Sending' <=> Sending
      /\ Resolved' <=> Resolved
      /\ Settled' <=> Settled
      BY DEF Sending, Resolved, Settled
<1>2. \A k : (AllPending(k)' <=> AllPending(k)) /\ (NonePending(k)' <=> NonePending(k))
      BY FrozenAll DEF AllPending, NonePending
<1>3. KeysMoveWhole' /\ MembershipComesLast'
      BY <1>1, FrozenAll, KeysMoveWholeSaid, MembershipComesLastSaid, SaidLater DEF OInv
<1> QED BY <1>1, <1>2, <1>3, FrozenAll DEF OInv, OutcomeLast, SeenLater, Consented, PlanFollows,
          BeforeIsEntered, MembershipHeld, Landing, ReadBack

LEMMA BackupKeyOrder == ASSUME OInv, NEW k \in Keys, BackupKey(k) PROVE OInv'
BY StillOrder DEF BackupKey, HandsOff, Frozen

LEMMA AdjustOrder == ASSUME OInv, EnterAdjust \/ LeaveAdjust PROVE OInv'
BY StillOrder DEF EnterAdjust, LeaveAdjust, Frozen, tailVars

LEMMA SaveBackupOrder == ASSUME IInv, OInv, SaveBackup PROVE OInv'
<1>1. /\ pc = "backup" /\ outcome = "none" /\ Resolved /\ Settled /\ Frozen
      /\ UNCHANGED <<pending, answered, bad>>
      BY DEF SaveBackup, OInv, OutcomeLast, Resolved, Settled, handVars, tailVars, Frozen
<1>2. CASE pc' = "idle"
      BY <1>1, <1>2, EndOrder DEF SaveBackup, EndsAs, Frozen
<1>3. CASE pc' = "apply" /\ outcome' = outcome
  <2>1. \A k \in Keys : Stays(k)
        BY <1>1 DEF OInv, MembershipHeld
  <2>2. \A k \in sel : Entered(k)
        BY <1>1 DEF OInv, BeforeIsEntered
  <2>3. \A k \in sel : (AllPending(k) /\ Kept(k)) \/ (NonePending(k) /\ Done(k))
        BY <1>1 DEF OInv, Landing
  <2>4. \A k : (AllPending(k)' <=> AllPending(k)) /\ (NonePending(k)' <=> NonePending(k))
        BY <1>1, FrozenAll DEF AllPending, NonePending
  <2>5. sel \subseteq Keys
        BY DEF IInv, TypeOK
  <2>6. KeysMoveWhole' /\ MembershipComesLast'
        BY <1>1, <2>1, <2>3, <2>5, FrozenAll, SaidLater
  <2>7. PlanFollows' /\ Consented'
        BY <1>1, <1>3, FrozenAll DEF OInv, PlanFollows, Consented
  <2> QED BY <1>1, <1>3, <2>1, <2>2, <2>3, <2>4, <2>6, <2>7, FrozenAll
          DEF OInv, OutcomeLast, SeenLater, BeforeIsEntered, MembershipHeld, Landing, ReadBack
<1> QED BY <1>2, <1>3 DEF SaveBackup, EndsAs

\* From the last frame on: what is left is what is read back.
LEMMA TailOrder ==
  ASSUME OInv, Frozen, Sending, Sending', pc' \in {"verify", "idle"}, OutcomeLast', ReadBack'
  PROVE  OInv'
<1>1. Resolved /\ Settled
      BY DEF Resolved, Settled
<1>2. PlanFollows'
      BY <1>1, FrozenAll DEF OInv, PlanFollows
<1>3. KeysMoveWhole' /\ MembershipComesLast'
      BY FrozenAll, KeysMoveWholeSaid, MembershipComesLastSaid, SaidLater DEF OInv
<1> QED BY <1>2, <1>3, FrozenAll DEF OInv, SeenLater, Consented, BeforeIsEntered, MembershipHeld, Landing

LEMMA StartVerifyOrder == ASSUME OInv, StartVerify PROVE OInv'
<1>1. /\ Frozen /\ pc = "apply" /\ pc' = "verify" /\ outcome' = "none" /\ todo' = sel /\ sel' = sel
      BY DEF StartVerify, OInv, OutcomeLast, handVars, planVars, Frozen
<1> QED BY <1>1, TailOrder DEF Sending, OutcomeLast, ReadBack

LEMMA VerifyKeyOrder == ASSUME OInv, NEW k \in Keys, VerifyKey(k) PROVE OInv'
<1>1. /\ Frozen /\ pc = "verify" /\ pc' = "verify" /\ outcome = "none" /\ outcome' = "none"
      /\ todo' = todo \ {k} /\ bad' = IF board[k] = Wanted(k) THEN bad ELSE bad \cup {k}
      BY DEF VerifyKey, HandsOff, OInv, OutcomeLast, Frozen
<1>2. board[k] = Wanted(k) => Checked(k)
      BY DEF Checked
<1>3. \A j \in sel \ todo : j \in bad \/ Checked(j)
      BY <1>1 DEF OInv, ReadBack
<1>4. ReadBack'
      BY <1>1, <1>2, <1>3, FrozenAll DEF ReadBack
<1> QED BY <1>1, <1>4, TailOrder DEF Sending, OutcomeLast

LEMMA ReportOrder == ASSUME OInv, Report PROVE OInv'
<1>1. /\ Frozen /\ pc = "verify" /\ todo = {} /\ pc' = "idle"
      /\ outcome' = IF bad = {} THEN "verified" ELSE "mismatch"
      BY DEF Report, EndsAs, handVars, Frozen
<1>2. ReadBack'
      BY <1>1, FrozenAll DEF OInv, ReadBack
<1> QED BY <1>1, <1>2, TailOrder DEF Sending, OutcomeLast

LEMMA ReadFailsOrder == ASSUME OInv, ReadFails PROVE OInv'
<1>1. Frozen /\ pc' = "idle" /\ outcome' = IF pc = "verify" THEN "failed" ELSE "refused"
      BY DEF ReadFails, HandsOff, EndsAs, Frozen
<1>2. CASE pc = "verify"
      BY <1>1, <1>2, TailOrder DEF Sending, OutcomeLast, ReadBack
<1>3. CASE pc # "verify"
      BY <1>1, <1>3, EndOrder DEF Frozen
<1> QED BY <1>2, <1>3

-----------------------------------------------------------------------------
(* The steps that change the board.                                        *)

LEMMA FieldLanded ==
  ASSUME NEW b, NEW r, NEW k \in Keys, NEW l \in Layouts
  PROVE  Field(Landed(b, r)[k], l) = Written(r, k, l, Field(b[k], l))
BY DEF Field, Landed, Layouts, ValueLayouts

LEMMA RecordsAreValues == \A p \in DOMAIN Records : p[2] \in ValueLayouts
BY DEF Records, ValueRecords

\* What the plan makes of a key, layout by layout.
LEMMA WantedValue ==
  ASSUME NEW k \in Keys, NEW l \in ValueLayouts
  PROVE  Field(Wanted(k), l) = Written(Records, k, l, Field(before[k], l))
<1> DEFINE values == Landed([j \in Keys |-> before[k]], Records)[k]
<1>1. l \in Layouts /\ l # KeysetLayout(change.kind)
      BY KeysetLayoutIsLayout DEF Layouts
<1>2. Field(values, l) = Written(Records, k, l, Field(before[k], l))
      BY <1>1, FieldLanded
<1> HIDE DEF values
<1>3. Field(Landed([j \in Keys |-> values], MembershipRecord(k))[k], l) = Field(values, l)
      BY <1>1, FieldLanded DEF Written, MembershipRecord
<1> QED BY <1>2, <1>3 DEF Wanted, values

LEMMA WantedMembership ==
  ASSUME NEW k \in Keys, NEW l \in Layouts \ ValueLayouts
  PROVE  Field(Wanted(k), l) =
           IF index # None /\ l = KeysetLayout(change.kind) THEN index ELSE Field(before[k], l)
<1> DEFINE values == Landed([j \in Keys |-> before[k]], Records)[k]
<1>1. Field(values, l) = Field(before[k], l)
  <2>1. <<k, l>> \notin DOMAIN Records
        BY RecordsAreValues
  <2>2. Field(values, l) = Written(Records, k, l, Field(before[k], l))
        BY FieldLanded
  <2> QED BY <2>1, <2>2 DEF Written
<1> HIDE DEF values
<1>2. Field(Landed([j \in Keys |-> values], MembershipRecord(k))[k], l) =
        IF l = KeysetLayout(change.kind) THEN index ELSE Field(values, l)
      BY FieldLanded DEF Written, MembershipRecord
<1> QED BY <1>1, <1>2 DEF Wanted, values

LEMMA PlanStays ==
  ASSUME UNCHANGED <<planVars, startVars>>
  PROVE  /\ Records' = Records /\ sel' = sel /\ entries' = entries
         /\ Selection' <=> Selection
         /\ Chosen' <=> Chosen
         /\ cmd' = cmd /\ seen' = seen /\ index' = index /\ Kl' = Kl
         /\ \A k : Wanted(k)' = Wanted(k) /\ before'[k] = before[k] /\ (Entered(k)' <=> Entered(k))
<1>1. /\ sel' = sel /\ index' = index /\ cmd' = cmd /\ seen' = seen /\ entries' = entries
      /\ before' = before /\ change' = change
      BY DEF planVars, startVars
<1>2. Records' = Records
      BY <1>1 DEF Records
<1>3. \A k : Wanted(k)' = Wanted(k)
      BY <1>1, <1>2 DEF Wanted, MembershipRecord
<1> QED BY <1>1, <1>2, <1>3 DEF Entered, Kl, Selection, Chosen

\* What a frame leaves, whether the command goes on or ends.
LEMMA SendOrder ==
  ASSUME IInv, OInv, pc = "apply", NEW records, Send(records),
         UNCHANGED <<edits, planVars, startVars, answered>>,
         \A k \in sel' : (AllPending(k)' /\ Kept(k)') \/ (NonePending(k)' /\ Done(k)') \/ pc' = "idle",
         \A k \in sel' : Kept(k)' \/ Done(k)',
         (\A k \in Keys : Stays(k)') \/ (pending' = {} /\ \A k \in sel' : Done(k)'),
         \A k \in Keys \ sel' : Stays(k)'
  PROVE  OInv'
<1>1. /\ outcome = "none" /\ pc' \in {"apply", "idle"}
      /\ outcome' = IF pc' = "idle" THEN "failed" ELSE "none"
      BY DEF Send, EndsAs, OInv, OutcomeLast
<1>2. Sending /\ Sending' /\ Resolved /\ Settled
      BY <1>1 DEF Sending, Resolved, Settled
<1>3. PlanFollows' /\ BeforeIsEntered'
      BY <1>1, <1>2, PlanStays DEF OInv, PlanFollows, BeforeIsEntered
<1>4. Consented'
      BY <1>1, PlanStays DEF OInv, Consented
<1>5. sel' \subseteq Keys
      BY PlanStays DEF IInv, TypeOK
<1>6. KeysMoveWhole' /\ MembershipComesLast'
      BY <1>5, SaidLater
<1>7. \A k \in sel' : NonePending(k)' /\ Done(k)' => NonePending(k)'
      OBVIOUS
<1>8. MembershipHeld' /\ Landing'
      BY <1>1 DEF MembershipHeld, Landing
<1> QED BY <1>1, <1>3, <1>4, <1>6, <1>8 DEF OInv, OutcomeLast, SeenLater, HandsOnValues, ReadBack

\* A frame of values has all of a key's or none.
LEMMA SendValuesOrder == ASSUME IInv, OInv, SendValues PROVE OInv'
<1>1. PICK n \in Keys :
        /\ Send([p \in {q \in pending : q[1] <= n} |-> Records[p]])
        /\ pending' = pending \ {q \in pending : q[1] <= n}
      BY DEF SendValues, Cuts
<1> DEFINE batch == {q \in pending : q[1] <= n}
           records == [p \in batch |-> Records[p]]
<1>2. /\ pc = "apply" /\ pending # {} /\ UNCHANGED <<edits, planVars, startVars, answered>>
      /\ Kl \in Layouts \ ValueLayouts
      BY KeysetLayoutIsLayout DEF SendValues, Kl
<1>3. /\ sel' = sel /\ sel \subseteq Keys /\ \A k \in Keys : Stays(k)
      /\ \A k \in sel : (AllPending(k) /\ Kept(k)) \/ (NonePending(k) /\ Done(k))
      /\ pending \subseteq DOMAIN Records /\ pending \subseteq Keys \X ValueLayouts
      BY <1>2, PlanStays, PendingTyped DEF OInv, MembershipHeld, Landing, IInv, TypeOK
<1>4. \A k : Untouched(k)' = Untouched(k)
      BY <1>2 DEF Untouched, EditedSince
<1>5. CASE board' = board /\ pc' = "idle"
  <2>1. \A k : (Kept(k)' <=> Kept(k)) /\ (Done(k)' <=> Done(k)) /\ (Stays(k)' <=> Stays(k))
        BY <1>2, <1>4, <1>5, PlanStays DEF Kept, Done, Stays, Agree
  <2> QED BY <1>1, <1>2, <1>3, <1>5, <2>1, SendOrder
<1>6. CASE board' = Landed(board, records)
  <2>1. \A k \in Keys, l \in Layouts :
          Field(board'[k], l) = IF <<k, l>> \in batch THEN Records[<<k, l>>] ELSE Field(board[k], l)
        BY <1>6, FieldLanded DEF Written
  <2>2. \A k \in Keys : Stays(k)'
    <3> SUFFICES ASSUME NEW k \in Keys PROVE Stays(k)'
        OBVIOUS
    <3>1. <<k, Kl>> \notin batch
          BY <1>2, <1>3
    <3>2. Field(board'[k], Kl) = Field(board[k], Kl)
          BY <1>2, <2>1, <3>1
    <3> QED BY <1>2, <1>3, <3>2, PlanStays DEF Stays
  <2>3. \A k \in sel : (AllPending(k)' /\ Kept(k)') \/ (NonePending(k)' /\ Done(k)')
    <3> SUFFICES ASSUME NEW k \in sel
                 PROVE  (AllPending(k)' /\ Kept(k)') \/ (NonePending(k)' /\ Done(k)')
        OBVIOUS
    <3>1. CASE k <= n /\ AllPending(k) /\ Kept(k)
      <4>1. NonePending(k)'
            BY <1>1, <3>1 DEF NonePending
      <4>2. \A l \in ValueLayouts : <<k, l>> \in DOMAIN Records <=> <<k, l>> \in batch
            BY <1>3, <3>1 DEF AllPending
      <4>3. \A l \in Untouched(k) \cap ValueLayouts : Field(board'[k], l) = Field(Wanted(k), l)
            BY <1>3, <2>1, <3>1, <4>2, WantedValue DEF Kept, Agree, Written, Layouts
      <4>4. Done(k)'
            BY <1>2, <1>4, <4>3, PlanStays DEF Done, Agree
      <4> QED BY <4>1, <4>4
    <3>2. CASE /\ ~(k <= n) \/ NonePending(k)
               /\ (AllPending(k) /\ Kept(k)) \/ (NonePending(k) /\ Done(k))
      <4>1. \A l \in ValueLayouts : <<k, l>> \notin batch
            BY <3>2 DEF NonePending
      <4>2. \A l \in ValueLayouts : Field(board'[k], l) = Field(board[k], l)
            BY <1>3, <2>1, <4>1 DEF Layouts
      <4>3. (Kept(k)' <=> Kept(k)) /\ (Done(k)' <=> Done(k))
            BY <1>2, <1>4, <4>2, PlanStays DEF Kept, Done, Agree
      <4>4. (AllPending(k)' <=> AllPending(k)) /\ (NonePending(k)' <=> NonePending(k))
            BY <1>1, <1>2, <4>1, PlanStays DEF AllPending, NonePending
      <4> QED BY <3>2, <4>3, <4>4
    <3> QED BY <1>3, <3>1, <3>2
  <2> QED BY <1>1, <1>2, <1>3, <2>2, <2>3, SendOrder
<1> QED BY <1>1, <1>5, <1>6 DEF Send, EndsAs

\* With every value out, a frame of membership leaves the values alone.
LEMMA SendMembershipOrder == ASSUME IInv, OInv, NEW n \in Keys, SendMembership(n) PROVE OInv'
<1> DEFINE l0 == KeysetLayout(change.kind)
<1>1. /\ pc = "apply" /\ pending = {} /\ pending' = {} /\ n \in pendingKs /\ Send(MembershipRecord(n))
      /\ UNCHANGED <<edits, planVars, startVars, answered>>
      BY DEF SendMembership, IsFirst
<1>2. /\ sel' = sel /\ sel \subseteq Keys /\ n \in sel
      /\ \A k \in sel : (AllPending(k) /\ Kept(k)) \/ (NonePending(k) /\ Done(k))
      /\ \A k \in Keys \ sel : Stays(k)
      /\ l0 \in Layouts \ ValueLayouts /\ Kl \in Layouts
      BY <1>1, PlanStays, KeysetLayoutIsLayout
      DEF OInv, MembershipHeld, Landing, IInv, TypeOK, DueIsPlanned, Kl, Sending
<1>3. \A k : Untouched(k)' = Untouched(k)
      BY <1>1 DEF Untouched, EditedSince
<1>4. \A k \in sel : Done(k)
  <2> SUFFICES ASSUME NEW k \in sel, AllPending(k), Kept(k) PROVE Done(k)
      BY <1>2
  <2>1. \A l \in ValueLayouts : <<k, l>> \notin DOMAIN Records
        BY <1>1 DEF AllPending
  <2> QED BY <1>2, <2>1, WantedValue DEF Kept, Done, Agree, Written
<1>5. \A k \in Keys, l \in Layouts :
        <<k, l>> # <<n, l0>> => Field(board'[k], l) = Field(board[k], l)
  <2>1. CASE board' = board
        BY <2>1
  <2>2. CASE board' = Landed(board, MembershipRecord(n))
        BY <2>2, FieldLanded DEF Written, MembershipRecord
  <2> QED BY <1>1, <2>1, <2>2 DEF Send
<1>6. \A k \in sel : Done(k)'
      BY <1>1, <1>2, <1>3, <1>4, <1>5, PlanStays DEF Done, Agree, Layouts
<1>7. \A k \in Keys \ sel : Stays(k)'
      BY <1>1, <1>2, <1>5, PlanStays DEF Stays
<1>8. \A k : NonePending(k)'
      BY <1>1 DEF NonePending
<1> QED BY <1>1, <1>2, <1>6, <1>7, <1>8, SendOrder

\* An edit reaches one value, and from the reading of its key on it is among
\* what the hands have done since.
LEMMA EditOrder ==
  ASSUME IInv, OInv, NEW n \in Keys, NEW f \in {"ap", "press", "release"}, NEW v \in Travels, Edit(n, f, v)
  PROVE  OInv'
<1>1. /\ board' = Landed(board, [p \in {<<n, f>>} |-> v]) /\ edits' = edits \cup {<<n, f, Stage(n)>>}
      /\ UNCHANGED <<pc, todo, outcome, planVars, startVars, pending, answered, bad>>
      BY DEF Edit, tailVars
<1>2. /\ Sending' <=> Sending
      /\ Resolved' <=> Resolved
      /\ Settled' <=> Settled
      BY <1>1 DEF Sending, Resolved, Settled
<1>3. \A k \in Keys, l \in Layouts : <<k, l>> # <<n, f>> => Field(board'[k], l) = Field(board[k], l)
      BY <1>1, FieldLanded DEF Written
<1>4. Kl \in Layouts \ ValueLayouts /\ f \in ValueLayouts
      BY KeysetLayoutIsLayout DEF Kl, ValueLayouts
<1>5. \A k \in Keys : Stays(k)' <=> Stays(k)
      BY <1>1, <1>3, <1>4, PlanStays DEF Stays
<1>6. \A k, l, S : EditedSince(<<k, l>>, S) => EditedSince(<<k, l>>, S)'
      BY <1>1 DEF EditedSince
<1>7. ASSUME NEW k \in Keys, before[k] \in Settings
      PROVE  (Kept(k) => Kept(k)') /\ (Done(k) => Done(k)')
  <2>1. k = n => Stage(n) \in SincePlan
        BY <1>7, KeysetAssumption DEF Stage, SincePlan
  <2>2. Untouched(k)' \subseteq Untouched(k) /\ (k = n => f \notin Untouched(k)')
        BY <1>1, <1>6, <2>1 DEF Untouched, EditedSince
  <2>3. \A l \in Untouched(k)' \cap ValueLayouts : Field(board'[k], l) = Field(board[k], l)
        BY <1>3, <2>2 DEF Layouts
  <2> QED BY <1>1, <2>2, <2>3, PlanStays DEF Kept, Done, Agree
<1>8. ASSUME NEW k \in Keys, Checked(k), pc = "idle" \/ (pc = "verify" /\ k \notin todo) PROVE Checked(k)'
  <2>1. k = n => EditedSince(<<k, f>>, {"verified", "after"})'
        BY <1>1, <1>8 DEF Stage, EditedSince
  <2> QED BY <1>1, <1>3, <1>6, <1>8, <2>1, PlanStays DEF Checked
<1>9. /\ sel' = sel /\ sel \subseteq Keys
      /\ \A k : /\ AllPending(k)' <=> AllPending(k)
                /\ NonePending(k)' <=> NonePending(k)
                /\ Entered(k)' <=> Entered(k)
      BY <1>1, PlanStays DEF IInv, TypeOK, AllPending, NonePending
<1>10. \A k \in sel : \/ pc = "plan" /\ k \notin todo
                      \/ pc \in {"backup", "apply"}
         => before[k] \in Settings
      BY DEF OInv, BeforeIsEntered, Entered, Sending
<1>11. PlanFollows' /\ BeforeIsEntered'
      BY <1>1, <1>2, <1>9, PlanStays DEF OInv, PlanFollows, BeforeIsEntered
<1>12. MembershipHeld'
      BY <1>1, <1>2, <1>5, <1>9 DEF OInv, MembershipHeld
<1>13. Landing'
      BY <1>1, <1>7, <1>9, <1>10 DEF OInv, Landing
<1>14. ReadBack'
      BY <1>1, <1>8, <1>9 DEF OInv, ReadBack, OutcomeLast
<1>15. KeysMoveWhole'
      BY <1>1, <1>2, <1>7, <1>9, KeysMoveWholeSaid, SaidLater DEF OInv, BeforeIsEntered, Entered
<1>16. MembershipComesLast'
      BY <1>1, <1>2, <1>5, <1>7, <1>9, MembershipComesLastSaid, SaidLater DEF OInv, BeforeIsEntered, Entered
<1>17. HandsOnValues'
      BY <1>1 DEF OInv, HandsOnValues
<1> QED BY <1>1, <1>11, <1>12, <1>13, <1>14, <1>15, <1>16, <1>17, PlanStays
        DEF OInv, OutcomeLast, SeenLater, Consented

-----------------------------------------------------------------------------
\* Every step keeps the order, given what part 2 keeps.
THEOREM OrderInductive == IInv /\ OInv /\ [Next]_vars => OInv'
<1> SUFFICES ASSUME IInv, OInv, [Next]_vars PROVE OInv'
    OBVIOUS
<1>1. CASE Program
  <2>1. CASE \E yes \in BOOLEAN : Consent(yes)
        BY <2>1, ConsentOrder
  <2>2. CASE \E k \in Keys : \/ ReadBase(k) \/ PlanKey(k) \/ BackupKey(k)
                             \/ SendMembership(k) \/ VerifyKey(k)
        BY <2>2, ReadBaseOrder, PlanKeyOrder, BackupKeyOrder, SendMembershipOrder, VerifyKeyOrder
  <2> QED BY <1>1, <2>1, <2>2, ReadMembershipOrder, SettleChangeOrder, SaveBackupOrder,
             SendValuesOrder, StartVerifyOrder, ReportOrder, ReadFailsOrder DEF Program
<1>2. CASE Hands
      BY <1>2, AdjustOrder, EditOrder DEF Hands
<1>3. CASE \E c \in Commands : Begin(c)
      BY <1>3, BeginOrder
<1>4. CASE UNCHANGED vars
      BY <1>4, StillOrder DEF vars, handVars, tailVars, Frozen
<1> QED BY <1>1, <1>2, <1>3, <1>4 DEF Next

\* Both invariants hold of every behaviour.
THEOREM OrderInvariant == Spec => [](IInv /\ OInv)
BY Initial, Inductive, InitialOrder, OrderInductive, PTL DEF Spec

\* However a write ends, no key is left with part of its values moved
\* (WritePlan::frames).
THEOREM KeysAlwaysMoveWhole == Spec => []KeysMoveWhole
<1>1. OInv => KeysMoveWhole
      BY DEF OInv
<1> QED BY <1>1, OrderInvariant, PTL

\* No key shows a new keyset before every value of the write is out (plan,
\* delete).
THEOREM MembershipAlwaysLast == Spec => []MembershipComesLast
<1>1. OInv => MembershipComesLast
      BY DEF OInv
<1> QED BY <1>1, OrderInvariant, PTL

-----------------------------------------------------------------------------
(* What is asked for, consented to and promised.                           *)

LEMMA CommandFormed ==
  ASSUME NEW c \in Commands
  PROVE  /\ c.op \in Ops /\ c.kind \in Kinds
         /\ c.value # None => c.value \in Pairs
         /\ c.kind = "ap" /\ c.value # None => c.value[1] = c.value[2]
BY WriteCommandAssumption DEF WellFormed, Command

LEMMA ChosenKind == ASSUME Chosen PROVE change.kind = (IF cmd.kind = "ap" THEN "ap" ELSE "rt")
<1>1. PICK v \in Bases(cmd, seen) : change = ChangeFor(cmd, v)
      BY DEF Chosen
<1>2. CASE cmd.kind = "ap"
      BY <1>1, <1>2 DEF ChangeFor, ChangeAp
<1>3. CASE cmd.kind # "ap"
  <2>1. change \in {ChangeRtOn(v), ChangeRtOff(v)}
        BY <1>1, <1>3 DEF ChangeFor
  <2> QED BY <1>3, <2>1 DEF ChangeRtOn, ChangeRtOff
<1> QED BY <1>2, <1>3

\* The membership a key is to have, from what the sweep found.
LEMMA WantedKeyset ==
  ASSUME Chosen, NEW k \in Keys, Entered(k)
  PROVE  Field(Wanted(k), Kl) = IF index # None THEN index ELSE entries[k]
<1>1. Kl = KeysetLayout(change.kind)
      BY ChosenKind DEF Kl, KeysetLayout
<1>2. Kl \in Layouts \ ValueLayouts
      BY KeysetLayoutIsLayout DEF Kl
<1> QED BY <1>1, <1>2, WantedMembership DEF Entered

LEMMA FramesAreSent ==
  ASSUME IInv, [Next]_vars, FrameSent, board' # board
  PROVE  pc = "apply"
<1>1. SendValues \/ \E j \in Keys : SendMembership(j)
      BY DEF Next, Program, Hands, FrameSent, HandsOff, Begin, ReadMembership,
            ReadBase, SettleChange, PlanKey, Consent, BackupKey, SaveBackup, StartVerify,
            VerifyKey, Report, ReadFails, EnterAdjust, LeaveAdjust, Edit,
            vars, handVars, tailVars
<1> QED BY <1>1 DEF SendValues, SendMembership

\* A dry run sends nothing, and no write moves every key of the board into or
\* out of a keyset without a typed yes (confirm_whole_board).
THEOREM WritesHaveConsent == Spec => WritesAreConsented
<1>1. ASSUME IInv, OInv, [Next]_vars, FrameSent, board' # board
      PROVE  /\ ~cmd.dry
             /\ sel = Keys /\ cmd.op \in BySelection
                  /\ (\E k \in Keys : Field(Wanted(k), KeysetLayout(cmd.kind)) # entries[k])
                => answered
  <2>1. pc = "apply" /\ Sending /\ Settled
        BY <1>1, FramesAreSent DEF Sending, Settled
  <2>2. ~cmd.dry /\ (NeedsConfirm(cmd, sel, index) => answered)
        BY <1>1, <2>1 DEF OInv, Consented
  <2>3. ASSUME sel = Keys, cmd.op \in BySelection,
               NEW k \in Keys, Field(Wanted(k), KeysetLayout(cmd.kind)) # entries[k]
        PROVE  NeedsConfirm(cmd, sel, index)
    <3>1. Chosen /\ Entered(k)
          BY <1>1, <2>1, <2>3 DEF OInv, PlanFollows, BeforeIsEntered
    <3>2. index # None
          BY <2>3, <3>1, WantedKeyset DEF Kl
    <3> QED BY <2>2, <2>3, <3>2 DEF NeedsConfirm, BySelection
  <2> QED BY <2>2, <2>3
<1>2. (IInv /\ OInv) /\ [Next]_vars =>
        [FrameSent /\ board' # board =>
           /\ ~cmd.dry
           /\ sel = Keys /\ cmd.op \in BySelection
                /\ (\E k \in Keys : Field(Wanted(k), KeysetLayout(cmd.kind)) # entries[k])
              => answered]_vars
      BY <1>1
<1> QED BY <1>2, OrderInvariant, PTL DEF Spec, WritesAreConsented

-----------------------------------------------------------------------------
\* What the plan writes comes to the target of the change, an unsent MODE
\* included.
LEMMA WantedIsTarget ==
  ASSUME IInv, NEW k \in sel, sel \subseteq Keys, before[k] \in Settings, NEW l \in ValueLayouts
  PROVE  Field(Wanted(k), l) = Field(Target(before[k], change), l)
<1> DEFINE s == before[k]
           t == Target(s, change)
<1>1. <<k, l>> \in DOMAIN Records <=> l \in RecordLayouts(s, change)
      BY DEF Records, ValueRecords
<1>2. <<k, l>> \in DOMAIN Records => Records[<<k, l>>] = Field(t, l)
      BY DEF Records, ValueRecords
<1>3. l \notin RecordLayouts(s, change) => Field(s, l) = Field(t, l)
  <2>1. CASE t = s
        BY <2>1
  <2>2. CASE t # s /\ l \notin RecordLayouts(s, change)
    <3>1. l = "mode" /\ t.mode = s.mode
          BY <2>2 DEF RecordLayouts
    <3> QED BY <3>1 DEF Field
  <2> QED BY <2>1, <2>2
<1> HIDE DEF s, t
<1>4. Field(Wanted(k), l) = Written(Records, k, l, Field(before[k], l))
      BY WantedValue
<1> QED BY <1>1, <1>2, <1>3, <1>4 DEF Written, s, t

\* The fields of a target.
LEMMA TargetFields ==
  ASSUME NEW s \in Settings, NEW c \in Change
  PROVE  /\ Field(Target(s, c), "mode").touch = ApplyTouch(s.mode.touch, c.touch)
         /\ Field(Target(s, c), "mode").rest = s.mode.rest
         /\ Field(Target(s, c), "ap") = IF c.ap = None THEN s.ap ELSE c.ap
         /\ Field(Target(s, c), "press") = IF c.rt = None THEN s.press ELSE c.rt[1]
         /\ Field(Target(s, c), "release") = IF c.rt = None THEN s.release ELSE c.rt[2]
BY DEF Target, Field, Settings, Mode

\* The value the command settled on is one the operator may have meant.
Asked == IF cmd.value = None
         THEN IF seen = {} THEN {<<NoSignalBase, NoSignalBase>>} ELSE seen
         ELSE {cmd.value}

LEMMA ChosenIsAsked ==
  ASSUME Selection, NEW v \in Bases(cmd, seen), cmd.kind = "ap" => \A w \in seen : w[1] = w[2]
  PROVE  v \in Asked /\ (cmd.kind = "ap" => v[1] = v[2])
BY CommandFormed DEF Selection, Bases, NeedsBase, Asked

\* A verified key holds what was asked, layout by layout.
LEMMA CheckedIsFulfilled ==
  ASSUME IInv, OInv, Sending, NEW k \in sel, Checked(k), NEW l \in Layouts,
         ~EditedSince(<<k, l>>, {"verified", "after"})
  PROVE  Fulfilled(k, l)
<1> DEFINE now == board[k]
           was == before[k]
<1>1. /\ Selection /\ Chosen /\ Settled /\ Resolved /\ Entered(k) /\ sel \subseteq Keys
      /\ cmd.kind = "ap" => \A w \in seen : w[1] = w[2]
      BY DEF OInv, PlanFollows, BeforeIsEntered, Settled, Resolved, IInv, TypeOK
<1>2. PICK v \in Bases(cmd, seen) : change = ChangeFor(cmd, v)
      BY <1>1 DEF Chosen
<1>3. v \in Pairs /\ v \in Asked /\ (cmd.kind = "ap" => v[1] = v[2])
  <2>1. cmd \in Commands /\ seen \in SUBSET Pairs
        BY <1>1 DEF Selection, IInv, TypeOK
  <2> QED BY <1>1, <2>1, BasesTyped, ChosenIsAsked
<1>4. /\ v[1] \in Travels /\ v[1] # None /\ v # None /\ change \in Change
      BY <1>2, <1>3, ChangeForTyped, KeysetAssumption DEF Pairs
<1>5. Field(now, l) = Field(Wanted(k), l)
      BY DEF Checked
<1>6. was \in Settings
      BY <1>1 DEF Entered
<1>7. l \in ValueLayouts => Field(now, l) = Field(Target(was, change), l)
      BY <1>1, <1>5, <1>6, WantedIsTarget
<1>8. l \in Layouts \ ValueLayouts /\ l # KeysetLayout(change.kind) => Field(now, l) = Field(was, l)
      BY <1>1, <1>5, WantedMembership
<1>9. cmd.kind = "ap" => change = ChangeAp(v[1])
      BY <1>2 DEF ChangeFor
<1>10. cmd.kind # "ap" =>
         /\ change.ap = None /\ change.rt = v
         /\ change.touch = IF cmd.op \in {"create", "keyset set"} THEN "RapidTrigger" ELSE "Off"
  <2>1. CASE cmd.kind # "ap" /\ cmd.op \in {"create", "keyset set"}
    <3>1. change = ChangeRtOn(v)
          BY <1>2, <2>1 DEF ChangeFor
    <3> QED BY <2>1, <3>1 DEF ChangeRtOn
  <2>2. CASE cmd.kind # "ap" /\ cmd.op \notin {"create", "keyset set"}
    <3>1. change = ChangeRtOff(v)
          BY <1>2, <2>2 DEF ChangeFor
    <3> QED BY <2>2, <3>1 DEF ChangeRtOff
  <2> QED BY <2>1, <2>2
<1> HIDE DEF now, was
<1>12. CASE l = "mode"
  <2>1. /\ Field(now, "mode").touch = ApplyTouch(was.mode.touch, change.touch)
        /\ Field(now, "mode").rest = was.mode.rest
        BY <1>4, <1>6, <1>7, <1>12, TargetFields DEF ValueLayouts
  <2>2. now.mode.touch = ApplyTouch(was.mode.touch, change.touch) /\ now.mode.rest = was.mode.rest
        BY <2>1 DEF Field
  <2>3. was.mode.touch \in Nibble
        BY <1>6 DEF Settings, Mode
  <2>4. cmd.kind = "ap" => now.mode.touch # Global
        BY <1>9, <2>2, <2>3 DEF ChangeAp, ApplyTouch, Global, Single, Nibble
  <2>5. cmd.op \in {"create", "keyset set"} /\ cmd.kind = "rt" => now.mode.touch \in {Rt, RtContinuous}
        BY <1>10, <2>2 DEF ApplyTouch
  <2>6. cmd.op \in {"delete", "remove", "rt off"} /\ cmd.kind = "rt" => now.mode.touch \notin RtNibbles
    <3>1. ApplyTouch(was.mode.touch, "Off") \notin RtNibbles
          BY <2>3 DEF ApplyTouch, RtNibbles, Single, RtGlobal, Rt, RtContinuous
    <3>2. cmd.op \in {"delete", "remove", "rt off"} => cmd.op \notin {"create", "keyset set"}
          OBVIOUS
    <3> QED BY <1>10, <2>2, <3>1, <3>2
  <2> QED BY <1>12, <2>2, <2>4, <2>5, <2>6 DEF Fulfilled, now, was
<1>13. CASE l = "ap"
  <2>1. now.ap = IF change.ap = None THEN was.ap ELSE change.ap
        BY <1>4, <1>6, <1>7, <1>13, TargetFields DEF ValueLayouts, Field
  <2>2. cmd.kind = "ap" => <<now.ap, now.ap>> \in Asked
    <3>1. cmd.kind = "ap" => now.ap = v[1] /\ v = <<v[1], v[1]>>
          BY <1>3, <1>4, <1>9, <2>1 DEF ChangeAp, Pairs
    <3> QED BY <1>3, <3>1
  <2>3. cmd.kind # "ap" => now.ap = was.ap
        BY <1>10, <2>1
  <2> QED BY <1>13, <2>2, <2>3 DEF Fulfilled, Asked, now, was
<1>14. CASE l = "press"
  <2>1. now.press = IF change.rt = None THEN was.press ELSE change.rt[1]
        BY <1>4, <1>6, <1>7, <1>14, TargetFields DEF ValueLayouts, Field
  <2>2. cmd.kind = "rt" => \E w \in Asked : now.press = w[1]
        BY <1>3, <1>4, <1>10, <2>1
  <2>3. cmd.kind = "ap" => now.press = was.press
        BY <1>9, <2>1 DEF ChangeAp
  <2>4. cmd.kind \in Kinds
        BY <1>1, CommandFormed DEF Selection
  <2> QED BY <1>14, <2>2, <2>3, <2>4 DEF Fulfilled, Asked, Kinds, now, was
<1>15. CASE l = "release"
  <2>1. now.release = IF change.rt = None THEN was.release ELSE change.rt[2]
        BY <1>4, <1>6, <1>7, <1>15, TargetFields DEF ValueLayouts, Field
  <2>2. cmd.kind = "rt" => \E w \in Asked : now.release = w[2]
        BY <1>3, <1>4, <1>10, <2>1
  <2>3. cmd.kind = "ap" => now.release = was.release
        BY <1>9, <2>1 DEF ChangeAp
  <2>4. cmd.kind \in Kinds
        BY <1>1, CommandFormed DEF Selection
  <2> QED BY <1>15, <2>2, <2>3, <2>4 DEF Fulfilled, Asked, Kinds, now, was
<1>16. CASE l \in {"apks", "rtks"}
  <2>1. change.kind = (IF cmd.kind = "ap" THEN "ap" ELSE "rt")
        BY <1>1, ChosenKind
  <2>2. l = "apks" => cmd.kind = "ap" \/ now.apks = was.apks
        BY <1>8, <2>1 DEF KeysetLayout, Field, Layouts, ValueLayouts
  <2>3. l = "rtks" => cmd.kind # "ap" \/ now.rtks = was.rtks
        BY <1>8, <2>1 DEF KeysetLayout, Field, Layouts, ValueLayouts
  <2>4. cmd.kind \in Kinds
        BY <1>1, CommandFormed DEF Selection
  <2> QED BY <1>16, <2>2, <2>3, <2>4 DEF Fulfilled, Kinds, now, was
<1> QED BY <1>12, <1>13, <1>14, <1>15, <1>16 DEF Layouts, ValueLayouts

\* A verified membership is the one promised: the index written is fresh, or the
\* selection is a whole keyset already.
LEMMA CheckedIsPromised ==
  ASSUME IInv, OInv, Sending, \A k \in sel : Checked(k)
  PROVE  MembershipAsPromised
<1>1. /\ Selection /\ Chosen /\ sel \subseteq Keys
      /\ \A k \in sel : Entered(k)
      /\ \A k \in Keys \ sel : Stays(k)
      BY DEF OInv, PlanFollows, BeforeIsEntered, MembershipHeld, Settled, Resolved, IInv, TypeOK
<1>2. Kl \in Layouts \ ValueLayouts
      BY KeysetLayoutIsLayout DEF Kl
<1>3. \A k \in Keys : ~EditedSince(<<k, Kl>>, {"verified", "after"})
      BY <1>2 DEF EditedSince, OInv, HandsOnValues, ValueLayouts
<1>4. \A k \in sel : Field(board[k], Kl) = IF index # None THEN index ELSE entries[k]
  <2> SUFFICES ASSUME NEW k \in sel PROVE Field(board[k], Kl) = IF index # None THEN index ELSE entries[k]
      OBVIOUS
  <2>1. Field(board[k], Kl) = Field(Wanted(k), Kl)
        BY <1>1, <1>2, <1>3 DEF Checked
  <2> QED BY <1>1, <2>1, WantedKeyset
<1>5. \A k \in Keys : Now(cmd.kind)[k] = Field(board[k], Kl)
      BY DEF Now, Kl
<1>6. \A k \in Keys \ sel : Now(cmd.kind)[k] = entries[k]
      BY <1>1, <1>5 DEF Stays
<1>7. \A k \in sel : Now(cmd.kind)[k] = IF index # None THEN index ELSE entries[k]
      BY <1>1, <1>4, <1>5
<1>8. entries \in Membership /\ index \in Indices(cmd, entries) /\ sel = Selected(cmd, entries)
      BY <1>1 DEF Selection
<1>9. CASE cmd.op \in {"delete", "remove", "rt off"}
  <2>1. index = 0
        BY <1>8, <1>9 DEF Indices
  <2>2. 0 # None
        BY KeysetAssumption DEF Index
  <2> QED BY <1>6, <1>7, <1>9, <2>1, <2>2 DEF MembershipAsPromised
<1>10. CASE cmd.op \in {"create", "set ap"}
  <2>1. CASE index \in NextIndex(entries)
    <3>1. index \in Index \ {0} /\ Members(entries, index) = {} /\ index # None
          BY <1>8, <2>1, NextIndexIsFresh, KeysetAssumption
    <3>2. Members(Now(cmd.kind), index) = sel
          BY <1>1, <1>6, <1>7, <3>1 DEF Members
    <3> QED BY <1>6, <1>7, <1>10, <3>1, <3>2 DEF MembershipAsPromised
  <2>2. CASE index = None /\ KeepsKeyset(entries, sel)
    <3>1. PICK i \in Live(entries) : sel = Members(entries, i)
          BY <1>1, <1>8, <2>2, KeepMeansOneWholeKeyset
    <3>2. i # 0 /\ \A k \in Keys : Now(cmd.kind)[k] = entries[k]
          BY <1>6, <1>7, <2>2, <3>1 DEF Live
    <3>3. \A k \in sel : entries[k] = i
          BY <3>1 DEF Members
    <3>4. Members(Now(cmd.kind), i) = sel
          BY <3>1, <3>2 DEF Members
    <3>5. \A k \in sel : Now(cmd.kind)[k] # 0 /\ Members(Now(cmd.kind), Now(cmd.kind)[k]) = sel
          BY <1>1, <3>2, <3>3, <3>4
    <3>6. cmd.op \notin {"delete", "remove", "rt off"}
          BY <1>10
    <3> QED BY <1>6, <1>10, <3>5, <3>6 DEF MembershipAsPromised
  <2>3. cmd.op = "set ap" => sel = cmd.keys
        BY <1>8 DEF Selected, ByIndex
  <2> QED BY <1>8, <1>10, <2>1, <2>2, <2>3 DEF Indices
<1>11. CASE cmd.op \in {"keyset set", "ap base"}
  <2>1. index = None
        BY <1>8, <1>11 DEF Indices
  <2>2. \A k \in sel : Now(cmd.kind)[k] = entries[k]
        BY <1>7, <2>1
  <2>3. cmd.op \notin {"delete", "remove", "rt off"} /\ cmd.op \notin {"create", "set ap"}
        BY <1>11
  <2> QED BY <1>6, <2>2, <2>3 DEF MembershipAsPromised
<1> QED BY <1>1, <1>9, <1>10, <1>11, CommandFormed DEF Selection, Ops

\* "N keys verified" is true: every selected key holds what was asked, the hands
\* after its readback apart, and the keysets of all keys are as promised.
THEOREM VerifiedIsKept == Spec => []VerifiedKeepsPromise
<1>1. IInv /\ OInv => VerifiedKeepsPromise
  <2> SUFFICES ASSUME IInv, OInv, outcome = "verified"
               PROVE  /\ \A k \in sel, l \in Layouts :
                           EditedSince(<<k, l>>, {"verified", "after"}) \/ Fulfilled(k, l)
                      /\ MembershipAsPromised
      BY DEF VerifiedKeepsPromise
  <2>1. Sending /\ \A k \in sel : Checked(k)
        BY DEF Sending, OInv, ReadBack
  <2> QED BY <2>1, CheckedIsFulfilled, CheckedIsPromised
<1> QED BY <1>1, OrderInvariant, PTL

-----------------------------------------------------------------------------
(* 4  What is announced.                                                   *)

\* The base values read so far are those of the keys visited so far.
BaseRead ==
  pc = "base" => /\ todo \subseteq BaseKeys(cmd, entries)
                 /\ seen = {BaseOf(cmd.kind, board[k]) : k \in BaseKeys(cmd, entries) \ todo}

\* The keys the base was read from, the selected ones apart, still show it.
BaseHeld ==
  Settled => /\ \A k \in BaseKeys(cmd, entries) \ sel : BaseOf(cmd.kind, board[k]) \in seen
             /\ seen # {} => BaseKeys(cmd, entries) # {}

\* What the backup read is on the board still, the selected keys apart.
BackupHeld ==
  /\ pc = "backup" => \A k \in Keys \ todo : backup[k] = board[k]
  /\ Sending => \A k \in Keys \ sel : backup[k] = board[k]

AInv == edits = {} => BaseRead /\ BaseHeld /\ BackupHeld

-----------------------------------------------------------------------------
(* The invariant is kept.                                                  *)

LEMMA InitialWords == Init => AInv
BY DEF Init, AInv, BaseRead, BaseHeld, BackupHeld, Settled, Sending

\* Past the base, only what the backup has read is at stake.
LEMMA HeldWords ==
  ASSUME AInv, Settled, pc' # "base",
         UNCHANGED <<edits, cmd, entries, sel, seen>>,
         \A k \in Keys \ sel : board'[k] = board[k],
         edits = {} => BackupHeld'
  PROVE  AInv'
<1>1. CASE edits = {}
  <2>1. BaseHeld
        BY <1>1 DEF AInv
  <2>2. BaseKeys(cmd', entries') = BaseKeys(cmd, entries)
        OBVIOUS
  <2>3. \A k \in BaseKeys(cmd, entries) : k \in Keys
        BY DEF BaseKeys, Free, Members
  <2>4. BaseHeld'
        BY <2>1, <2>2, <2>3 DEF BaseHeld
  <2> QED BY <1>1, <2>4 DEF AInv, BaseRead
<1> QED BY <1>1 DEF AInv

\* A command that ends before it writes has nothing left to be held to.
LEMMA EndWords == ASSUME pc' = "idle", outcome' \in {"none", "refused", "dry"} PROVE AInv'
BY DEF AInv, BaseRead, BaseHeld, BackupHeld, Settled, Sending

LEMMA ReadMembershipWords == ASSUME IInv, OInv, ReadMembership PROVE AInv'
<1> DEFINE m == [k \in Keys |-> IF cmd.kind = "ap" THEN board[k].apks ELSE board[k].rtks]
<1>1. CASE pc' = "idle"
      BY <1>1, EndWords DEF ReadMembership, EndsAs
<1>2. CASE pc' = "base" /\ outcome' = outcome /\ todo' = BaseKeys(cmd, m)
  <2>1. entries' = m /\ cmd' = cmd /\ seen' = {} /\ outcome' = "none"
        BY <1>2 DEF ReadMembership, startVars, OInv, SeenLater, OutcomeLast
  <2> HIDE DEF m
  <2>2. BaseRead'
        BY <1>2, <2>1 DEF BaseRead
  <2> QED BY <1>2, <2>1, <2>2 DEF AInv, BaseHeld, BackupHeld, Settled, Sending
<1> QED BY <1>1, <1>2 DEF ReadMembership, EndsAs

LEMMA ReadBaseWords == ASSUME IInv, OInv, AInv, NEW k \in Keys, ReadBase(k) PROVE AInv'
<1>1. /\ pc = "base" /\ pc' = "base" /\ outcome' = "none" /\ k \in todo /\ todo' = todo \ {k}
      /\ seen' = seen \cup {BaseOf(cmd.kind, board[k])}
      /\ UNCHANGED <<edits, cmd, entries, board>>
      BY DEF ReadBase, IsFirst, HandsOff, startVars, OInv, OutcomeLast
<1>2. ASSUME edits = {} PROVE BaseRead'
  <2>1. /\ todo \subseteq BaseKeys(cmd, entries)
        /\ seen = {BaseOf(cmd.kind, board[j]) : j \in BaseKeys(cmd, entries) \ todo}
        BY <1>1, <1>2 DEF AInv, BaseRead
  <2>2. BaseKeys(cmd, entries) \ (todo \ {k}) = (BaseKeys(cmd, entries) \ todo) \cup {k}
        BY <1>1, <2>1
  <2>3. seen' = {BaseOf(cmd.kind, board[j]) : j \in BaseKeys(cmd, entries) \ (todo \ {k})}
        BY <1>1, <2>1, <2>2
  <2> QED BY <1>1, <2>1, <2>3 DEF BaseRead
<1> QED BY <1>1, <1>2 DEF AInv, BaseHeld, BackupHeld, Settled, Sending

LEMMA SettleChangeWords == ASSUME IInv, OInv, AInv, SettleChange PROVE AInv'
<1>1. /\ pc = "base" /\ todo = {} /\ outcome = "none"
      /\ UNCHANGED <<edits, cmd, entries, sel, seen, board>>
      BY DEF SettleChange, handVars, startVars, OInv, OutcomeLast
<1>2. CASE pc' = "idle"
      BY <1>2, EndWords DEF SettleChange, EndsAs
<1>3. CASE pc' = "plan" /\ outcome' = outcome
  <2>1. edits = {} => seen = {BaseOf(cmd.kind, board[k]) : k \in BaseKeys(cmd, entries)}
        BY <1>1 DEF AInv, BaseRead
  <2>2. edits = {} => BaseHeld'
        BY <1>1, <2>1 DEF BaseHeld
  <2> QED BY <1>1, <1>3, <2>2 DEF AInv, BaseRead, BackupHeld, Sending
<1> QED BY <1>2, <1>3 DEF SettleChange, EndsAs

LEMMA PlanKeyWords == ASSUME OInv, AInv, NEW k \in Keys, PlanKey(k) PROVE AInv'
<1>1. /\ pc = "plan" /\ pc' = "plan" /\ outcome' = "none" /\ Settled
      /\ UNCHANGED <<edits, cmd, entries, sel, seen, board>>
      BY DEF PlanKey, HandsOff, startVars, OInv, OutcomeLast, Settled
<1>2. BackupHeld'
      BY <1>1 DEF BackupHeld, Sending
<1> QED BY <1>1, <1>2, HeldWords

LEMMA ConsentWords == ASSUME OInv, AInv, NEW yes \in BOOLEAN, Consent(yes) PROVE AInv'
<1>1. /\ pc = "plan" /\ outcome = "none" /\ Settled
      /\ UNCHANGED <<edits, cmd, entries, sel, seen, board>>
      BY DEF Consent, handVars, planVars, startVars, OInv, OutcomeLast, Settled
<1>2. CASE pc' = "idle"
      BY <1>2, EndWords DEF Consent, EndsAs
<1>3. CASE pc' = "backup" /\ outcome' = outcome /\ todo' = Keys
  <2>1. BackupHeld'
        BY <1>1, <1>3 DEF BackupHeld, Sending
  <2> QED BY <1>1, <1>3, <2>1, HeldWords
<1> QED BY <1>2, <1>3 DEF Consent, EndsAs

LEMMA BackupKeyWords == ASSUME IInv, OInv, AInv, NEW k \in Keys, BackupKey(k) PROVE AInv'
<1>1. /\ pc = "backup" /\ pc' = "backup" /\ outcome' = "none" /\ Settled
      /\ todo' = todo \ {k} /\ backup' = [backup EXCEPT ![k] = board[k]]
      /\ UNCHANGED <<edits, cmd, entries, sel, seen, board>>
      BY DEF BackupKey, HandsOff, planVars, startVars, OInv, OutcomeLast, Settled
<1>2. backup \in [Keys -> Settings \cup {None}]
      BY DEF IInv, TypeOK
<1>3. edits = {} => BackupHeld'
      BY <1>1, <1>2 DEF AInv, BackupHeld, Sending
<1> QED BY <1>1, <1>3, HeldWords

LEMMA SaveBackupWords == ASSUME IInv, OInv, AInv, SaveBackup PROVE AInv'
<1>1. /\ pc = "backup" /\ todo = {} /\ Settled
      /\ UNCHANGED <<edits, cmd, entries, sel, seen, board, backup>>
      BY DEF SaveBackup, handVars, planVars, tailVars, startVars, Settled
<1>2. CASE pc' = "idle"
      BY <1>2, EndWords DEF SaveBackup, EndsAs
<1>3. CASE pc' = "apply"
  <2>1. edits = {} => BackupHeld'
        BY <1>1, <1>3 DEF AInv, BackupHeld
  <2> QED BY <1>1, <1>3, <2>1, HeldWords
<1> QED BY <1>2, <1>3 DEF SaveBackup, EndsAs

\* From the first frame on, frames reach selected keys only.
LEMMA SentWords ==
  ASSUME AInv, Sending, pc' \notin {"base", "backup"}, \A k \in Keys \ sel : board'[k] = board[k],
         UNCHANGED <<edits, planVars, startVars, backup>>
  PROVE  AInv'
<1>1. /\ Settled /\ UNCHANGED <<edits, cmd, entries, sel, seen>>
      BY DEF Settled, planVars, startVars
<1>2. edits = {} => BackupHeld'
      BY <1>1 DEF AInv, BackupHeld
<1> QED BY <1>1, <1>2, HeldWords

LEMMA FrameLeaves ==
  ASSUME IInv, NEW r, NEW k \in Keys, \A p \in DOMAIN r : p[1] # k
  PROVE  Landed(board, r)[k] = board[k]
<1>1. board[k] \in Settings
      BY DEF IInv, TypeOK, Board
<1>2. \A l, old : Written(r, k, l, old) = old
      BY DEF Written
<1> QED BY <1>1, <1>2 DEF Landed, Settings

LEMMA SendValuesWords == ASSUME IInv, OInv, AInv, SendValues PROVE AInv'
<1>1. PICK n \in Keys : Send([p \in {q \in pending : q[1] <= n} |-> Records[p]])
      BY DEF SendValues, Cuts
<1>2. /\ pc = "apply" /\ pc' \in {"apply", "idle"} /\ Sending
      /\ UNCHANGED <<edits, planVars, startVars, backup>>
      BY <1>1 DEF SendValues, Send, EndsAs, Sending
<1>3. \A p \in pending : p[1] \in sel
  <2>1. pending \subseteq DOMAIN Records
        BY <1>2 DEF IInv, DueIsPlanned
  <2>2. \A p \in DOMAIN Records : p[1] \in sel
        BY DEF Records, ValueRecords
  <2> QED BY <2>1, <2>2
<1>4. \A k \in Keys \ sel : board'[k] = board[k]
      BY <1>1, <1>3, FrameLeaves DEF Send
<1> QED BY <1>2, <1>4, SentWords

LEMMA SendMembershipWords == ASSUME IInv, OInv, AInv, NEW n \in Keys, SendMembership(n) PROVE AInv'
<1>1. /\ pc = "apply" /\ pc' \in {"apply", "idle"} /\ Sending /\ Send(MembershipRecord(n)) /\ n \in pendingKs
      /\ UNCHANGED <<edits, planVars, startVars, backup>>
      BY DEF SendMembership, IsFirst, Send, EndsAs, Sending
<1>2. n \in sel
      BY <1>1 DEF IInv, DueIsPlanned
<1>3. \A p \in DOMAIN MembershipRecord(n) : p[1] \in sel
      BY <1>2 DEF MembershipRecord
<1>4. \A k \in Keys \ sel : board'[k] = board[k]
      BY <1>1, <1>3, FrameLeaves DEF Send
<1> QED BY <1>1, <1>4, SentWords

\* Reading back, and its end, leave the board alone.
LEMMA VerifyWords ==
  ASSUME IInv, OInv, AInv, StartVerify \/ (\E k \in Keys : VerifyKey(k)) \/ Report
  PROVE  AInv'
<1>1. /\ pc \in {"apply", "verify"} /\ pc' \in {"verify", "idle"}
      /\ UNCHANGED <<edits, board, planVars, startVars, backup>>
      BY DEF StartVerify, VerifyKey, Report, EndsAs, HandsOff, handVars, tailVars
<1> QED BY <1>1, SentWords DEF Sending

LEMMA ReadFailsWords == ASSUME IInv, OInv, AInv, ReadFails PROVE AInv'
<1>1. /\ pc' = "idle" /\ outcome' = IF pc = "verify" THEN "failed" ELSE "refused"
      /\ UNCHANGED <<edits, board, planVars, startVars, backup>>
      BY DEF ReadFails, HandsOff, EndsAs, tailVars
<1> QED BY <1>1, EndWords, SentWords DEF Sending

\* Once the hands have edited, nothing is claimed until the next command.
LEMMA HandsWords == ASSUME IInv, OInv, AInv, Hands \/ UNCHANGED vars PROVE AInv'
<1>1. CASE \E k \in Keys, l \in {"ap", "press", "release"}, v \in Travels : Edit(k, l, v)
      BY <1>1 DEF Edit, AInv
<1>2. CASE UNCHANGED <<board, edits, pc, todo, outcome, planVars, startVars, backup>>
      BY <1>2 DEF AInv, BaseRead, BaseHeld, BackupHeld, Settled, Sending, planVars, startVars
<1>3. EnterAdjust \/ LeaveAdjust \/ UNCHANGED vars =>
        UNCHANGED <<board, edits, pc, todo, outcome, planVars, startVars, backup>>
      BY DEF EnterAdjust, LeaveAdjust, vars, handVars, tailVars
<1> QED BY <1>1, <1>2, <1>3 DEF Hands

\* Every step keeps what the words rest on.
THEOREM WordsInductive == IInv /\ OInv /\ AInv /\ [Next]_vars => AInv'
<1> SUFFICES ASSUME IInv, OInv, AInv, [Next]_vars PROVE AInv'
    OBVIOUS
<1>1. CASE Program
  <2>1. CASE \E yes \in BOOLEAN : Consent(yes)
        BY <2>1, ConsentWords
  <2>2. CASE \E k \in Keys : \/ ReadBase(k) \/ PlanKey(k) \/ BackupKey(k)
                             \/ SendMembership(k) \/ VerifyKey(k)
        BY <2>2, ReadBaseWords, PlanKeyWords, BackupKeyWords, SendMembershipWords, VerifyWords
  <2> QED BY <1>1, <2>1, <2>2, ReadMembershipWords, SettleChangeWords, SaveBackupWords,
             SendValuesWords, VerifyWords, ReadFailsWords DEF Program
<1>2. CASE \E c \in Commands : Begin(c)
      BY <1>2 DEF Begin, AInv, BaseRead, BaseHeld, BackupHeld, Settled, Sending
<1> QED BY <1>1, <1>2, HandsWords DEF Next

\* The three invariants hold of every behaviour.
THEOREM WordsInvariant == Spec => [](IInv /\ OInv /\ AInv)
<1>1. Init => AInv
      BY InitialWords
<1> QED BY <1>1, OrderInvariant, WordsInductive, PTL DEF Spec

-----------------------------------------------------------------------------
(* What a verified write left behind, nobody having edited the board.      *)

Quiet == IInv /\ OInv /\ AInv /\ edits = {}

LEMMA PlanSettled ==
  ASSUME Quiet, Settled
  PROVE  /\ cmd \in Commands /\ entries \in Membership /\ sel \subseteq Keys
         /\ sel = Selected(cmd, entries) /\ index \in Indices(cmd, entries)
         /\ \E v \in Bases(cmd, seen) : /\ change = ChangeFor(cmd, v) /\ v \in Pairs /\ v = <<v[1], v[2]>>
                                        /\ v[1] \in Travels /\ v[2] \in Travels /\ v # None /\ v[1] # None
                                        /\ change \in Change /\ (cmd.kind = "ap" => v[1] = v[2])
<1>1. /\ Selection /\ Chosen /\ Resolved
      /\ cmd.kind = "ap" => \A w \in seen : w[1] = w[2]
      BY DEF Quiet, OInv, PlanFollows, Settled, Resolved
<1>2. PICK v \in Bases(cmd, seen) : change = ChangeFor(cmd, v)
      BY <1>1 DEF Chosen
<1>3. cmd \in Commands /\ seen \in SUBSET Pairs /\ sel \subseteq Keys
      BY <1>1 DEF Selection, Quiet, IInv, TypeOK
<1>4. v \in Pairs /\ (cmd.kind = "ap" => v[1] = v[2])
      BY <1>1, <1>3, BasesTyped, ChosenIsAsked
<1>5. /\ v = <<v[1], v[2]>> /\ v[1] \in Travels /\ v[2] \in Travels /\ v # None /\ v[1] # None
      BY <1>4, KeysetAssumption DEF Pairs
<1>6. change \in Change
      BY <1>2, <1>4, ChangeForTyped
<1> QED BY <1>1, <1>2, <1>3, <1>4, <1>5, <1>6 DEF Selection

LEMMA VerifiedKeys ==
  ASSUME Quiet, outcome = "verified"
  PROVE  /\ Settled
         /\ \A k \in sel : /\ k \in Keys /\ before[k] \in Settings /\ board[k] \in Settings
                           /\ Entered(k)
                           /\ \A l \in Layouts : Field(board[k], l) = Field(Wanted(k), l)
         /\ \A k \in Keys \ sel : board[k] \in Settings /\ Now(cmd.kind)[k] = entries[k]
<1>1. Sending /\ Settled
      BY DEF Sending, Settled
<1>2. sel \subseteq Keys /\ board \in Board
      BY DEF Quiet, IInv, TypeOK
<1>3. \A k \in sel : Entered(k) /\ Checked(k)
      BY <1>1 DEF Quiet, OInv, BeforeIsEntered, ReadBack
<1>4. \A k, l, S : ~EditedSince(<<k, l>>, S)
      BY DEF Quiet, EditedSince
<1>5. \A k \in Keys \ sel : Stays(k)
      BY <1>1 DEF Quiet, OInv, MembershipHeld
<1> QED BY <1>1, <1>2, <1>3, <1>4, <1>5 DEF Entered, Checked, Stays, Now, Kl, Board

\* Layout by layout: what was planned, which is the target of the change.
LEMMA VerifiedField ==
  ASSUME Quiet, outcome = "verified", NEW k \in sel, NEW l \in ValueLayouts
  PROVE  /\ Field(board[k], l) = Field(Target(before[k], change), l)
         /\ Moved(k, l) <=> Sent(k, l) /\ Records[<<k, l>>] # Field(before[k], l)
         /\ Sent(k, l) => Field(board[k], l) = Records[<<k, l>>]
         /\ ~Sent(k, l) => Field(board[k], l) = Field(before[k], l)
<1>1. /\ k \in Keys /\ before[k] \in Settings /\ sel \subseteq Keys /\ IInv /\ l \in Layouts
      /\ Field(board[k], l) = Field(Wanted(k), l)
      BY VerifiedKeys DEF Quiet, IInv, TypeOK, Layouts
<1>2. Field(board[k], l) = Field(Target(before[k], change), l)
      BY <1>1, WantedIsTarget
<1>3. Field(board[k], l) = Written(Records, k, l, Field(before[k], l))
      BY <1>1, WantedValue
<1> QED BY <1>2, <1>3 DEF Written, Moved, Sent

LEMMA VerifiedIndex ==
  ASSUME Quiet, outcome = "verified", NEW k \in sel
  PROVE  /\ Now(cmd.kind)[k] = IF index # None THEN index ELSE entries[k]
         /\ \A l \in Layouts \ ValueLayouts :
              index = None \/ l # KeysetLayout(change.kind) => Field(board[k], l) = Field(before[k], l)
<1>1. /\ k \in Keys /\ Entered(k) /\ Settled
      /\ \A l \in Layouts : Field(board[k], l) = Field(Wanted(k), l)
      BY VerifiedKeys
<1>2. Chosen
      BY <1>1 DEF Quiet, OInv, PlanFollows
<1>3. Kl \in Layouts
      BY KeysetLayoutIsLayout DEF Kl
<1>4. Now(cmd.kind)[k] = Field(board[k], Kl)
      BY <1>1 DEF Now, Kl
<1>5. Now(cmd.kind)[k] = IF index # None THEN index ELSE entries[k]
      BY <1>1, <1>2, <1>3, <1>4, WantedKeyset
<1> QED BY <1>1, <1>5, WantedMembership

\* The value the announcement names is the one the command settled on, and
\* every selected key is at it.
LEMMA DestinationReached ==
  ASSUME Quiet, outcome = "verified"
  PROVE  /\ Destination \in Bases(cmd, seen)
         /\ \A k \in sel : AtDestination(k)
<1>1. PICK v \in Bases(cmd, seen) :
        /\ change = ChangeFor(cmd, v) /\ v = <<v[1], v[2]>>
        /\ v # None /\ v[1] # None /\ change \in Change /\ (cmd.kind = "ap" => v[1] = v[2])
      BY PlanSettled, VerifiedKeys
<1>2. \A k \in sel, l \in ValueLayouts :
        before[k] \in Settings /\ Field(board[k], l) = Field(Target(before[k], change), l)
      BY VerifiedKeys, VerifiedField
<1>3. CASE cmd.kind = "ap"
  <2>1. change = ChangeAp(v[1])
        BY <1>1, <1>3 DEF ChangeFor
  <2>2. change.ap = v[1]
        BY <2>1 DEF ChangeAp
  <2>3. Destination = v
        BY <1>1, <1>3, <2>2 DEF Destination
  <2>4. \A k \in sel : board[k].ap = v[1]
        BY <1>1, <1>2, <2>2, TargetFields DEF ValueLayouts, Field
  <2> QED BY <1>1, <1>3, <2>3, <2>4 DEF AtDestination, BaseOf
<1>4. CASE cmd.kind # "ap"
  <2>1. change.rt = v
    <3>1. change \in {ChangeRtOn(v), ChangeRtOff(v)}
          BY <1>1, <1>4 DEF ChangeFor
    <3> QED BY <3>1 DEF ChangeRtOn, ChangeRtOff
  <2>2. Destination = v
        BY <1>4, <2>1 DEF Destination
  <2>3. \A k \in sel : board[k].press = v[1] /\ board[k].release = v[2]
        BY <1>1, <1>2, <2>1, TargetFields DEF ValueLayouts, Field
  <2> QED BY <1>1, <1>4, <2>2, <2>3 DEF AtDestination, BaseOf
<1> QED BY <1>3, <1>4

\* "moves" is said exactly of the keys whose own value moved, and the touch
\* mode is said to move as it did.
LEMMA MovesAsSaid ==
  ASSUME Quiet, outcome = "verified", NEW k \in sel
  PROVE  /\ ValueMoves(cmd.kind, k) <=> OwnMoved(k)
         /\ ModeChange(k) = TouchMoved(k)
         /\ ModeChange(k) = None <=> board[k].mode.touch = before[k].mode.touch
<1>1. /\ \A l \in ValueLayouts : Moved(k, l) <=> Sent(k, l) /\ Records[<<k, l>>] # Field(before[k], l)
      /\ before[k] \in Settings /\ board[k] \in Settings
      BY VerifiedField, VerifiedKeys
<1>2. ValueMoves(cmd.kind, k) <=> OwnMoved(k)
  <2>1. CASE cmd.kind = "ap"
        BY <1>1, <2>1 DEF ValueMoves, OwnMoved, OwnedLayouts, ValueLayouts, BaseOf, Moved, Field
  <2>2. CASE cmd.kind # "ap"
        BY <1>1, <2>2 DEF ValueMoves, OwnMoved, OwnedLayouts, ValueLayouts, BaseOf, Moved, Field
  <2> QED BY <2>1, <2>2
<1>3. "mode" \in ValueLayouts /\ Field(board[k], "mode") = board[k].mode
      /\ Field(before[k], "mode") = before[k].mode
      BY DEF ValueLayouts, Field
<1>4. /\ Sent(k, "mode") => Records[<<k, "mode">>] = board[k].mode
      /\ ~Sent(k, "mode") => board[k].mode = before[k].mode
      BY <1>3, VerifiedField
<1>5. ModeChange(k) = TouchMoved(k)
      BY <1>4 DEF ModeChange, TouchMoved
<1>6. <<before[k].mode.touch, board[k].mode.touch>> # None
      BY <1>1, KeysetAssumption DEF Settings, Mode
<1> QED BY <1>2, <1>5, <1>6 DEF TouchMoved

\* The layouts a change has no business with stay, and MODE moves in its touch
\* nibble only.
LEMMA QuietKey ==
  ASSUME Quiet, outcome = "verified", NEW k \in sel, ~OwnMoved(k), TouchMoved(k) = None
  PROVE  \A l \in ValueLayouts : ~Moved(k, l)
<1>1. PICK v \in Bases(cmd, seen) : change = ChangeFor(cmd, v) /\ change \in Change
      BY PlanSettled, VerifiedKeys
<1>2. before[k] \in Settings /\ board[k] \in Settings
      BY VerifiedKeys
<1> DEFINE s == before[k]
           t == board[k]
<1>3. \A l \in ValueLayouts : Field(t, l) = Field(Target(s, change), l)
      BY VerifiedField
<1>4. t.mode.touch = s.mode.touch
      BY MovesAsSaid
<1>5. t.mode.rest = s.mode.rest
      BY <1>1, <1>2, <1>3, TargetFields DEF ValueLayouts, Field
<1>6. t.mode = s.mode
      BY <1>2, <1>4, <1>5 DEF Settings, Mode
<1>7. CASE cmd.kind = "ap"
  <2>1. change = ChangeAp(v[1])
        BY <1>1, <1>7 DEF ChangeFor
  <2>2. t.press = s.press /\ t.release = s.release
        BY <1>1, <1>2, <1>3, <2>1, TargetFields DEF ValueLayouts, Field, ChangeAp
  <2>3. t.ap = s.ap
        BY <1>7 DEF OwnMoved, BaseOf
  <2> QED BY <1>6, <2>2, <2>3 DEF Moved, ValueLayouts, Field
<1>8. CASE cmd.kind # "ap"
  <2>1. change \in {ChangeRtOn(v), ChangeRtOff(v)}
        BY <1>1, <1>8 DEF ChangeFor
  <2>2. change.ap = None
        BY <2>1 DEF ChangeRtOn, ChangeRtOff
  <2>3. t.ap = s.ap
        BY <1>1, <1>2, <1>3, <2>2, TargetFields DEF ValueLayouts, Field
  <2>4. t.press = s.press /\ t.release = s.release
        BY <1>8 DEF OwnMoved, BaseOf
  <2> QED BY <1>6, <2>3, <2>4 DEF Moved, ValueLayouts, Field
<1> QED BY <1>7, <1>8

\* A key none of whose records changes anything has none.
LEMMA RecordMoves ==
  ASSUME Quiet, outcome = "verified", NEW k \in sel, \A l \in ValueLayouts : ~Moved(k, l)
  PROVE  \A l \in ValueLayouts : ~Sent(k, l)
<1>1. before[k] \in Settings /\ \A l \in ValueLayouts : Field(before[k], l) = Field(Target(before[k], change), l)
      BY VerifiedKeys, VerifiedField DEF Moved
<1>2. Target(before[k], change) \in Settings
      BY <1>1, PlanSettled, VerifiedKeys, TargetIsSettings
<1>3. /\ Target(before[k], change).apks = before[k].apks
      /\ Target(before[k], change).rtks = before[k].rtks
      BY <1>1 DEF Target, Settings
<1>4. Target(before[k], change) = before[k]
      BY <1>1, <1>2, <1>3 DEF Settings, Field, ValueLayouts
<1>5. RecordLayouts(before[k], change) = {}
      BY <1>4 DEF RecordLayouts
<1> QED BY <1>5 DEF Sent, Records, ValueRecords

\* The sweep's own membership: a key is in a live keyset unless it is free.
LEMMA KeysetsEnd ==
  ASSUME Quiet, outcome = "verified", \A k \in sel : Now(cmd.kind)[k] = 0, NEW k \in sel, entries[k] # 0
  PROVE  Ends(entries[k]) <=> KeysetDisappears(entries[k])
<1>1. /\ sel \subseteq Keys /\ \A j \in Keys \ sel : Now(cmd.kind)[j] = entries[j]
      BY VerifiedKeys
<1>2. entries[k] \in Live(entries)
      BY <1>1 DEF Live
<1>3. entries[k] \in Live(Now(cmd.kind)) <=> \E j \in Keys \ sel : entries[j] = entries[k]
      BY <1>1 DEF Live
<1>4. KeysetDisappears(entries[k]) <=> ~\E j \in Keys \ sel : entries[j] = entries[k]
      BY <1>1 DEF KeysetDisappears, Members, Leaving
<1> QED BY <1>2, <1>3, <1>4 DEF Ends

-----------------------------------------------------------------------------
(* The announcements.                                                      *)

LEMMA MemberComesTrue ==
  ASSUME Quiet, outcome = "verified", NEW k \in sel
  PROVE  MemberCameTrue(DescribeMember(k)) /\ DescribeMember(k).key = k
<1>1. AtDestination(k)
      BY DestinationReached
<1>2. CASE ValueMoves(cmd.kind, k)
  <2>1. DescribeMember(k) = [key |-> k, says |-> "at", mode |-> None]
        BY <1>2 DEF DescribeMember
  <2> QED BY <1>1, <1>2, <2>1, MovesAsSaid DEF MemberCameTrue
<1>3. CASE ~ValueMoves(cmd.kind, k) /\ ModeChange(k) # None
  <2>1. DescribeMember(k) = [key |-> k, says |-> "keeps", mode |-> ModeChange(k)]
        BY <1>3 DEF DescribeMember
  <2> QED BY <1>1, <1>3, <2>1, MovesAsSaid DEF MemberCameTrue
<1>4. CASE ~ValueMoves(cmd.kind, k) /\ ModeChange(k) = None
  <2>1. DescribeMember(k) = [key |-> k, says |-> "index", mode |-> None]
        BY <1>4 DEF DescribeMember
  <2>2. \A l \in ValueLayouts : ~Moved(k, l)
        BY <1>4, MovesAsSaid, QuietKey
  <2> DEFINE line == DescribeMember(k)
  <2>3. line.key = k /\ line.says = "index"
        BY <2>1
  <2> HIDE DEF line
  <2>4. line.says # "at" /\ line.says # "keeps"
        BY <2>3
  <2>5. MemberCameTrue(line)
        BY <2>2, <2>3, <2>4 DEF MemberCameTrue
  <2> QED BY <2>3, <2>5 DEF line
<1> QED BY <1>2, <1>3, <1>4

LEMMA ZeroIsGiven == 0 # None
BY KeysetAssumption DEF Index

LEMMA ResetComesTrue ==
  ASSUME Quiet, outcome = "verified", NEW k \in sel, cmd.op \in {"remove", "rt off"}
  PROVE  ResetCameTrue(AnnounceRemove(k))
<1> DEFINE line == AnnounceRemove(k)
<1>1. index = 0 /\ index # None
  <2>1. index \in Indices(cmd, entries)
        BY PlanSettled, VerifiedKeys
  <2>2. index = 0
        BY <2>1 DEF Indices
  <2> QED BY <2>2, ZeroIsGiven
<1>2. \A j \in sel : Now(cmd.kind)[j] = 0
      BY <1>1, VerifiedIndex
<1>3. AtDestination(k) /\ line.key = k /\ line.mode = TouchMoved(k)
      BY DestinationReached, MovesAsSaid DEF AnnounceRemove
<1>4. line.ends = (entries[k] # 0 /\ Ends(entries[k]))
      BY <1>2, KeysetsEnd DEF AnnounceRemove, Leaving
<1>5. CASE k \in Leaving
  <2>1. line.says = "removing" /\ entries[k] # 0
        BY <1>5 DEF AnnounceRemove, Leaving
  <2> HIDE DEF line
  <2> QED BY <1>2, <1>3, <1>4, <2>1 DEF ResetCameTrue, line
<1>6. CASE k \notin Leaving /\ \A l \in ValueLayouts : ~Sent(k, l)
  <2>1. line.says = "value unchanged" /\ entries[k] = 0
        BY <1>6 DEF AnnounceRemove, Leaving
  <2>2. \A l \in ValueLayouts : ~Moved(k, l)
        BY <1>6, VerifiedField
  <2> HIDE DEF line
  <2> QED BY <1>2, <1>3, <1>4, <2>1, <2>2 DEF ResetCameTrue, line
<1>7. CASE k \notin Leaving /\ ~(\A l \in ValueLayouts : ~Sent(k, l)) /\ ValueMoves(cmd.kind, k)
  <2>1. line.says = "returning" /\ entries[k] = 0
        BY <1>7 DEF AnnounceRemove, Leaving
  <2>2. OwnMoved(k)
        BY <1>7, MovesAsSaid
  <2> HIDE DEF line
  <2> QED BY <1>2, <1>3, <1>4, <2>1, <2>2 DEF ResetCameTrue, line
<1>8. CASE k \notin Leaving /\ ~(\A l \in ValueLayouts : ~Sent(k, l)) /\ ~ValueMoves(cmd.kind, k)
  <2>1. line.says = "keeps" /\ entries[k] = 0
        BY <1>8 DEF AnnounceRemove, Leaving
  <2>2. ~OwnMoved(k)
        BY <1>8, MovesAsSaid
  <2>3. TouchMoved(k) # None
        BY <1>8, <2>2, QuietKey, RecordMoves
  <2> HIDE DEF line
  <2> QED BY <1>2, <1>3, <1>4, <2>1, <2>2, <2>3 DEF ResetCameTrue, line
<1> QED BY <1>5, <1>6, <1>7, <1>8

\* A base is called the board's when keys outside the selection hold it.
LEMMA SourceComesTrue ==
  ASSUME Quiet, outcome = "verified", cmd.op \in {"remove", "rt off"}
  PROVE  SourceIsTrue
<1> DEFINE others == Free(entries) \ sel
<1>1. Settled /\ Destination \in Bases(cmd, seen)
      BY VerifiedKeys, DestinationReached
<1>2. sel = cmd.keys
      BY <1>1, PlanSettled DEF Selected, ByIndex
<1>3. cmd.value = None => BaseKeys(cmd, entries) = others
      BY <1>2 DEF BaseKeys, NeedsBase
<1>4. /\ \A k \in BaseKeys(cmd, entries) \ sel : BaseOf(cmd.kind, board[k]) \in seen
      /\ seen # {} => BaseKeys(cmd, entries) # {}
      BY <1>1 DEF Quiet, AInv, BaseHeld
<1>5. CASE TargetSource = "operator"
  <2>1. cmd.value # None
        BY <1>5 DEF TargetSource
  <2>2. Destination = cmd.value
        BY <1>1, <2>1 DEF Bases, NeedsBase
  <2> QED BY <1>5, <2>2 DEF SourceIsTrue
<1>6. CASE TargetSource = "invented"
  <2>1. cmd.op = "remove" /\ cmd.kind = "ap" /\ seen = {} /\ cmd.value = None
        BY <1>6 DEF TargetSource
  <2>2. others = {}
        BY <1>3, <1>4, <2>1
  <2>3. Destination = <<NoSignalBase, NoSignalBase>>
        BY <1>1, <2>1 DEF Bases, NeedsBase
  <2> QED BY <1>6, <2>2, <2>3 DEF SourceIsTrue
<1>7. CASE TargetSource = "board base"
  <2>1. cmd.value = None /\ ~(cmd.op = "remove" /\ cmd.kind = "ap" /\ seen = {})
        BY <1>7 DEF TargetSource
  <2>2. seen = {Destination}
        BY <1>1, <2>1 DEF Bases, NeedsBase
  <2>3. others # {} /\ \A k \in others : AtDestination(k)
        BY <1>3, <1>4, <2>1, <2>2 DEF AtDestination
  <2> QED BY <1>7, <2>3 DEF SourceIsTrue
<1> QED BY <1>5, <1>6, <1>7 DEF TargetSource

LEMMA SameSettings ==
  ASSUME NEW s \in Settings, NEW t \in Settings,
         s.mode = t.mode, s.ap = t.ap, s.press = t.press, s.release = t.release,
         s.apks = t.apks, s.rtks = t.rtks
  PROVE  s = t
BY DEF Settings

LEMMA BaseComesTrue ==
  ASSUME Quiet, outcome = "verified", cmd.op = "ap base"
  PROVE  BaseCameTrue
<1> DEFINE changed == {k \in sel : Moved(k, "ap")}
<1>1. /\ cmd.kind = "ap" /\ index = None /\ sel = Free(entries) /\ sel \subseteq Keys
      BY PlanSettled, VerifiedKeys, WriteCommandAssumption DEF WellFormed, Selected, Indices, ByIndex
<1>2. \A k \in sel : ValueMoves("ap", k) <=> Moved(k, "ap")
      BY VerifiedField DEF ValueMoves, OwnedLayouts, ValueLayouts
<1>3. ApValuesMoved = changed
      BY <1>2 DEF ApValuesMoved
<1>4. \A k \in Free(entries) : AtDestination(k)
      BY <1>1, DestinationReached
<1>5. \A k \in Keys \ Free(entries) : board[k] = backup[k]
      BY <1>1 DEF Quiet, AInv, BackupHeld, Sending
<1>6. CASE AnnounceBase = "nothing written"
  <2>1. \A k, l : ~Sent(k, l)
        BY <1>6 DEF AnnounceBase, Sent
  <2>2. \A k \in sel, l \in ValueLayouts : Field(board[k], l) = Field(before[k], l)
        BY <2>1, VerifiedField
  <2>3. \A k \in sel, l \in Layouts \ ValueLayouts : Field(board[k], l) = Field(before[k], l)
        BY <1>1, VerifiedIndex
  <2>4. \A k \in sel : board[k] = before[k]
    <3> SUFFICES ASSUME NEW k \in sel PROVE board[k] = before[k]
        OBVIOUS
    <3>1. /\ board[k].mode = before[k].mode /\ board[k].ap = before[k].ap
          /\ board[k].press = before[k].press /\ board[k].release = before[k].release
          BY <2>2 DEF Field, ValueLayouts
    <3>2. board[k].apks = before[k].apks /\ board[k].rtks = before[k].rtks
      <4>1. "apks" \in Layouts \ ValueLayouts /\ "rtks" \in Layouts \ ValueLayouts
            BY DEF Layouts, ValueLayouts
      <4>2. Field(board[k], "apks") = Field(before[k], "apks") /\ Field(board[k], "rtks") = Field(before[k], "rtks")
            BY <2>3, <4>1
      <4> QED BY <4>2 DEF Field
    <3>3. board[k] \in Settings /\ before[k] \in Settings
          BY VerifiedKeys
    <3> QED BY <3>1, <3>2, <3>3, SameSettings
  <2> QED BY <1>4, <1>5, <1>6, <2>4 DEF BaseCameTrue
<1>7. CASE AnnounceBase = "moves on all"
  <2>1. changed = sel
        BY <1>3, <1>7 DEF AnnounceBase
  <2> QED BY <1>4, <1>5, <1>7, <2>1 DEF BaseCameTrue
<1>8. CASE AnnounceBase = "no key changes"
  <2>1. changed = {} /\ DOMAIN Records # {}
        BY <1>3, <1>8 DEF AnnounceBase
  <2>2. PICK k \in sel, l \in ValueLayouts : Sent(k, l)
        BY <2>1 DEF Records, ValueRecords, Sent
  <2>3. ~OwnMoved(k)
        BY <1>1, <1>2, <2>1, MovesAsSaid
  <2>4. ModeChange(k) # None
        BY <2>2, <2>3, MovesAsSaid, QuietKey, RecordMoves
  <2>5. MovedModes # {}
        BY <2>4 DEF MovedModes
  <2> QED BY <1>4, <1>5, <1>8, <2>1, <2>5 DEF BaseCameTrue
<1>9. CASE AnnounceBase = "moves on some"
  <2>1. changed = ApValuesMoved /\ changed \notin {{}, sel}
        BY <1>3, <1>9 DEF AnnounceBase
  <2> QED BY <1>4, <1>5, <1>9, <2>1 DEF BaseCameTrue
<1> QED BY <1>6, <1>7, <1>8, <1>9 DEF AnnounceBase

LEMMA PairFirst == \A a, p : <<a, a>> = p => a = p[1]
OBVIOUS

\* The last check of `wh set ap` never stops a write.
LEMMA TargetConfirmed ==
  ASSUME Quiet, outcome = "verified", cmd.op = "set ap"
  PROVE  ConfirmApTarget
<1>1. cmd.kind = "ap" /\ cmd.value # None
      BY PlanSettled, VerifiedKeys, WriteCommandAssumption DEF WellFormed
<1>2. Destination = cmd.value
      BY <1>1, DestinationReached DEF Bases, NeedsBase
<1> SUFFICES ASSUME NEW k \in sel
             PROVE  cmd.value[1] = IF Sent(k, "ap") THEN Records[<<k, "ap">>] ELSE before[k].ap
    BY DEF ConfirmApTarget
<1>3. BaseOf(cmd.kind, board[k]) = cmd.value
      BY <1>2, DestinationReached DEF AtDestination
<1>4. board[k].ap = cmd.value[1]
  <2>1. BaseOf(cmd.kind, board[k]) = <<board[k].ap, board[k].ap>>
        BY <1>1 DEF BaseOf
  <2>2. <<board[k].ap, board[k].ap>> = cmd.value
        BY <1>3, <2>1
  <2> QED BY <2>2, PairFirst
<1>5. "ap" \in ValueLayouts /\ Field(board[k], "ap") = board[k].ap /\ Field(before[k], "ap") = before[k].ap
      BY DEF ValueLayouts, Field
<1> QED BY <1>4, <1>5, VerifiedField

LEMMA StealComesTrue ==
  ASSUME Quiet, outcome = "verified"
  PROVE  /\ \A i \in DOMAIN AnnounceSteal.loses : \A line \in AnnounceSteal.loses[i] :
              MemberCameTrue(line) /\ entries[line.key] = i
         /\ \A line \in AnnounceSteal.enrols : MemberCameTrue(line) /\ entries[line.key] = 0
<1>1. sel \subseteq Keys
      BY PlanSettled, VerifiedKeys
<1>2. ASSUME NEW i \in DOMAIN AnnounceSteal.loses, NEW line \in AnnounceSteal.loses[i]
      PROVE  MemberCameTrue(line) /\ entries[line.key] = i
  <2>1. PICK k \in Taken(entries, sel, i) : line = DescribeMember(k)
        BY <1>2 DEF AnnounceSteal
  <2>2. k \in sel /\ entries[k] = i
        BY <2>1 DEF Taken, Members
  <2> QED BY <2>1, <2>2, MemberComesTrue
<1>3. ASSUME NEW line \in AnnounceSteal.enrols
      PROVE  MemberCameTrue(line) /\ entries[line.key] = 0
  <2>1. PICK k \in sel : /\ line = DescribeMember(k)
                         /\ \A i \in Losing(entries, sel) : k \notin Taken(entries, sel, i)
        BY <1>3 DEF AnnounceSteal
  <2>2. entries[k] = 0
    <3>1. k \in Keys /\ k \in Taken(entries, sel, entries[k])
          BY <1>1 DEF Taken, Members
    <3>2. entries[k] # 0 => entries[k] \in Losing(entries, sel)
          BY <3>1 DEF Losing, Live
    <3> QED BY <2>1, <3>1, <3>2
  <2> QED BY <2>1, <2>2, MemberComesTrue
<1> QED BY <1>2, <1>3

\* What `wh` says before it writes comes true of every key
\* (announce_remove, announce_steal, announce_delete, the `ap base` line).
THEOREM AnnouncementsAlwaysComeTrue == Spec => []AnnouncementsComeTrue
<1>1. IInv /\ OInv /\ AInv => AnnouncementsComeTrue
  <2> SUFFICES ASSUME Quiet, outcome = "verified" PROVE AnnouncementsComeTrue
      BY DEF AnnouncementsComeTrue, Quiet
  <2>1. cmd.op = "set ap" => ConfirmApTarget
        BY TargetConfirmed
  <2>2. CASE cmd.op \in {"remove", "rt off"}
        BY <2>1, <2>2, SourceComesTrue, ResetComesTrue DEF AnnouncementsComeTrue, AnnouncesSteal
  <2>3. CASE cmd.op = "delete"
    <3>1. \A line \in AnnounceDelete : MemberCameTrue(line)
          BY MemberComesTrue DEF AnnounceDelete
    <3> QED BY <2>3, <3>1 DEF AnnouncementsComeTrue, AnnouncesSteal
  <2>4. CASE cmd.op = "ap base"
        BY <2>4, BaseComesTrue DEF AnnouncementsComeTrue, AnnouncesSteal
  <2>5. CASE AnnouncesSteal
    <3>1. cmd.op \notin {"remove", "rt off", "delete", "ap base"}
          BY <2>5 DEF AnnouncesSteal
    <3> QED BY <2>1, <2>5, <3>1, StealComesTrue DEF AnnouncementsComeTrue
  <2> QED BY <2>1, <2>2, <2>3, <2>4, <2>5 DEF AnnouncementsComeTrue
<1> QED BY <1>1, WordsInvariant, PTL

-----------------------------------------------------------------------------
(* The prompt over the whole board, and the refusals.                      *)

LEMMA WholeBoard ==
  ASSUME Quiet, Settled, NeedsConfirm(cmd, sel, index)
  PROVE  sel = Keys /\ IsFiniteSet(Keys) /\ cmd.op \in {"create", "remove", "rt off", "set ap"}
         /\ (cmd.op = "set ap" => index # None)
<1>1. sel \subseteq Keys /\ IsFiniteSet(Keys) /\ Cardinality(sel) = Cardinality(Keys)
      BY PlanSettled, KeysetAssumption DEF NeedsConfirm
<1> QED BY <1>1, FS_Subset DEF NeedsConfirm

\* The keysets the prompt names are the ones that ceased to exist.
LEMMA EndingIsTrue ==
  ASSUME Quiet, outcome = "verified", NeedsConfirm(cmd, sel, index)
  PROVE  NamedAsEnding = Live(entries) \ Live(Now(cmd.kind))
<1>1. sel = Keys /\ Settled /\ cmd.op \in {"create", "remove", "rt off", "set ap"}
      BY WholeBoard, VerifiedKeys
<1>2. \A k \in Keys : Now(cmd.kind)[k] = IF index # None THEN index ELSE entries[k]
      BY <1>1, VerifiedIndex
<1>3. CASE cmd.op \in {"remove", "rt off"}
  <2>1. index = 0 /\ index # None
    <3>1. index \in Indices(cmd, entries)
          BY <1>1, PlanSettled
    <3>2. index = 0
          BY <1>3, <3>1 DEF Indices
    <3> QED BY <3>2, ZeroIsGiven
  <2>2. Live(Now(cmd.kind)) = {}
        BY <1>2, <2>1 DEF Live
  <2> QED BY <1>3, <2>2 DEF NamedAsEnding
<1>4. CASE cmd.op \in {"create", "set ap"}
  <2>1. index \in NextIndex(entries)
    <3>1. cmd.op = "set ap" => index # None
          BY <1>1, WholeBoard
    <3> QED BY <1>1, <1>4, <3>1, PlanSettled DEF Indices
  <2>2. index \in Index \ {0} /\ Members(entries, index) = {} /\ index # None
        BY <1>1, <2>1, PlanSettled, NextIndexIsFresh, KeysetAssumption
  <2>3. \A i \in Live(entries) : i \notin Live(Now(cmd.kind))
        BY <1>2, <2>2 DEF Live, Members
  <2>4. Losing(entries, sel) = Live(entries)
        BY <1>1 DEF Losing, Taken, Members, Live
  <2>5. NamedAsEnding = Losing(entries, sel)
        BY <1>4 DEF NamedAsEnding
  <2> QED BY <2>3, <2>4, <2>5
<1> QED BY <1>1, <1>3, <1>4

\* Every key's touch nibble, before and after.
LEMMA TouchFollows ==
  ASSUME Quiet, outcome = "verified", NEW k \in sel
  PROVE  /\ before[k].mode.touch \in Nibble
         /\ cmd.kind = "ap" => board[k].mode.touch = ApplyTouch(before[k].mode.touch, "Promote")
         /\ cmd.kind # "ap" /\ cmd.op \in {"create", "keyset set"} =>
              board[k].mode.touch = ApplyTouch(before[k].mode.touch, "RapidTrigger")
         /\ cmd.kind # "ap" /\ cmd.op \notin {"create", "keyset set"} =>
              board[k].mode.touch = ApplyTouch(before[k].mode.touch, "Off")
<1>1. PICK v \in Bases(cmd, seen) : change = ChangeFor(cmd, v) /\ change \in Change
      BY PlanSettled, VerifiedKeys
<1>2. before[k] \in Settings
      BY VerifiedKeys
<1>3. Field(board[k], "mode").touch = ApplyTouch(before[k].mode.touch, change.touch)
  <2>1. Field(board[k], "mode") = Field(Target(before[k], change), "mode")
        BY VerifiedField DEF ValueLayouts
  <2> QED BY <1>1, <1>2, <2>1, TargetFields
<1>4. board[k].mode.touch = ApplyTouch(before[k].mode.touch, change.touch)
      BY <1>3 DEF Field
<1>5. cmd.kind = "ap" => change.touch = "Promote"
      BY <1>1 DEF ChangeFor, ChangeAp
<1>6. cmd.kind # "ap" /\ cmd.op \in {"create", "keyset set"} => change.touch = "RapidTrigger"
      BY <1>1 DEF ChangeFor, ChangeRtOn
<1>7. cmd.kind # "ap" /\ cmd.op \notin {"create", "keyset set"} => change.touch = "Off"
      BY <1>1 DEF ChangeFor, ChangeRtOff
<1> QED BY <1>2, <1>4, <1>5, <1>6, <1>7 DEF Settings, Mode

\* The counts of the prompt are those of the keys that moved each way.
LEMMA CountsAreTrue ==
  ASSUME Quiet, outcome = "verified", NeedsConfirm(cmd, sel, index)
  PROVE  ModeClauseIsTrue(ModeClause)
<1>1. sel = Keys /\ IsFiniteSet(Keys) /\ cmd.op \in {"create", "remove", "rt off", "set ap"}
      BY WholeBoard, VerifiedKeys
<1>2. \A k \in Keys : ModeChange(k) # None <=> board[k].mode.touch # before[k].mode.touch
      BY <1>1, MovesAsSaid
<1>3. MovedModes = {k \in Keys : board[k].mode.touch # before[k].mode.touch}
      BY <1>1, <1>2 DEF MovedModes
<1>4. CASE cmd.kind = "ap"
  <2>1. \A k \in Keys : board[k].mode.touch # before[k].mode.touch
                          <=> before[k].mode.touch = Global /\ board[k].mode.touch # Global
        BY <1>1, <1>4, TouchFollows DEF ApplyTouch, Global, Single
  <2>2. MovedModes = {k \in Keys : before[k].mode.touch = Global /\ board[k].mode.touch # Global}
        BY <1>3, <2>1
  <2> QED BY <1>4, <2>2 DEF ModeClause, ModeClauseIsTrue
<1>5. CASE cmd.kind # "ap" /\ cmd.op \in {"remove", "rt off"}
  <2>1. \A k \in Keys : board[k].mode.touch # before[k].mode.touch
                          <=> RtOn(before[k]) /\ ~RtOn(board[k])
    <3> SUFFICES ASSUME NEW k \in Keys
                 PROVE  board[k].mode.touch # before[k].mode.touch <=> RtOn(before[k]) /\ ~RtOn(board[k])
        OBVIOUS
    <3>1. cmd.op \notin {"create", "keyset set"}
          BY <1>5
    <3>2. board[k].mode.touch = ApplyTouch(before[k].mode.touch, "Off")
          BY <1>1, <1>5, <3>1, TouchFollows
    <3> QED BY <3>2 DEF ApplyTouch, RtOn, RtNibbles, Single, RtGlobal, Rt, RtContinuous
  <2>2. MovedModes = {k \in Keys : RtOn(before[k]) /\ ~RtOn(board[k])}
        BY <1>3, <2>1
  <2> QED BY <1>5, <2>2 DEF ModeClause, ModeClauseIsTrue
<1>6. CASE cmd.kind # "ap" /\ cmd.op \notin {"remove", "rt off"}
  <2> DEFINE moved(n) == {k \in Keys : before[k].mode.touch = n /\ board[k].mode.touch # n}
             on == {k \in MovedModes : before[k].mode.touch \in {Global, Single}}
  <2>1. ModeClause = [on |-> Cardinality(on), own |-> Cardinality(MovedModes \ on)]
        BY <1>6 DEF ModeClause, RtOnClause
  <2>2. on = moved(Global) \cup moved(Single) /\ moved(Global) \cap moved(Single) = {}
        BY <1>3 DEF Global, Single
  <2>3. IsFiniteSet(moved(Global)) /\ IsFiniteSet(moved(Single)) /\ IsFiniteSet(MovedModes)
        BY <1>1, <1>3, FS_Subset
  <2>4. Cardinality({}) = 0
        BY FS_EmptySet
  <2> HIDE DEF on, moved
  <2>5. Cardinality(on) = Cardinality(moved(Global)) + Cardinality(moved(Single))
    <3>1. Cardinality(on) = Cardinality(moved(Global)) + Cardinality(moved(Single)) - Cardinality({})
          BY <2>2, <2>3, FS_Union
    <3>2. Cardinality(moved(Global)) \in Nat /\ Cardinality(moved(Single)) \in Nat
          BY <2>3, FS_CardinalityType
    <3> QED BY <2>4, <3>1, <3>2
  <2>6. on \subseteq MovedModes
        BY DEF on
  <2>7. Cardinality(MovedModes \ on) = Cardinality(MovedModes) - Cardinality(on)
    <3>1. MovedModes \cap on = on
          BY <2>6
    <3>2. Cardinality(MovedModes \ on) = Cardinality(MovedModes) - Cardinality(MovedModes \cap on)
          BY <2>3, FS_Difference
    <3> QED BY <3>1, <3>2
  <2>8. MovedModes = {k \in Keys : TouchMoved(k) # None}
        BY <1>1, MovesAsSaid DEF MovedModes
  <2> QED BY <1>6, <2>1, <2>5, <2>7, <2>8 DEF ModeClauseIsTrue, moved
<1> QED BY <1>4, <1>5, <1>6

\* The reason of a refused base holds of the board.
LEMMA RefusalIsTrue ==
  ASSUME Quiet, pc = "base", todo = {}, Bases(cmd, seen) = {}
  PROVE  LET others == Free(entries) \ (IF cmd.op \in {"remove", "rt off"} THEN sel ELSE {})
         IN  CASE BaseRefusal = "split" ->
                    \E j, k \in others : BaseOf(cmd.kind, board[j]) # BaseOf(cmd.kind, board[k])
               [] BaseRefusal = "no key is free" -> \A k \in Keys : Now(cmd.kind)[k] # 0
               [] OTHER -> others = {} /\ \E k \in sel : Now(cmd.kind)[k] = 0
<1> DEFINE others == Free(entries) \ (IF cmd.op \in {"remove", "rt off"} THEN sel ELSE {})
<1>1. /\ Selection /\ \A k \in Keys : Stays(k)
      BY DEF Quiet, OInv, PlanFollows, Resolved, MembershipHeld
<1>2. NeedsBase(cmd)
      BY DEF Bases
<1>3. cmd.op \in {"remove", "rt off"} => sel = cmd.keys
      BY <1>1 DEF Selection, Selected, ByIndex
<1>4. BaseKeys(cmd, entries) = others
      BY <1>2, <1>3 DEF BaseKeys
<1>5. seen = {BaseOf(cmd.kind, board[k]) : k \in others}
      BY <1>4 DEF Quiet, AInv, BaseRead
<1>6. \A k \in Keys : Now(cmd.kind)[k] = entries[k]
      BY <1>1 DEF Stays, Now, Kl
<1> HIDE DEF others
<1>7. CASE BaseRefusal = "split"
  <2>1. seen # {} /\ ~\E v \in seen : seen = {v}
        BY <1>2, <1>7 DEF BaseRefusal, Bases
  <2>2. PICK v \in seen, w \in seen : v # w
        BY <2>1
  <2>3. \E j, k \in others : BaseOf(cmd.kind, board[j]) # BaseOf(cmd.kind, board[k])
        BY <1>5, <2>2
  <2> QED BY <1>7, <2>3 DEF others
<1>8. CASE BaseRefusal = "no key is free"
  <2>1. Free(entries) = {}
        BY <1>8 DEF BaseRefusal
  <2>2. \A k \in Keys : Now(cmd.kind)[k] # 0
        BY <1>6, <2>1 DEF Free, Members
  <2> QED BY <1>8, <2>2
<1>9. CASE BaseRefusal = "all free keys are selected"
  <2>1. seen = {} /\ Free(entries) # {}
        BY <1>9 DEF BaseRefusal
  <2>2. others = {}
        BY <1>5, <2>1
  <2>3. PICK k \in Free(entries) : k \in sel
        BY <2>1, <2>2 DEF others
  <2>4. k \in Keys /\ entries[k] = 0
        BY DEF Free, Members
  <2>5. \E j \in sel : Now(cmd.kind)[j] = 0
        BY <1>6, <2>3, <2>4
  <2> QED BY <1>9, <2>2, <2>5 DEF others
<1> QED BY <1>7, <1>8, <1>9 DEF BaseRefusal

\* What the operator said yes to, and why a command refused, is so
\* (confirm_whole_board_create, _remove, _ap_set; remove_base_rt, rt_off_base,
\* global_ap_or_bail).
THEOREM PromptsAreAlwaysTrue == Spec => []PromptsAreTrue
<1>1. IInv /\ OInv /\ AInv => PromptsAreTrue
  <2> SUFFICES ASSUME Quiet PROVE PromptsAreTrue
      BY DEF PromptsAreTrue, Quiet
  <2>1. ASSUME outcome = "verified", NeedsConfirm(cmd, sel, index)
        PROVE  /\ NamedAsEnding = Live(entries) \ Live(Now(cmd.kind))
               /\ \A k \in Keys : AtDestination(k)
               /\ ModeClauseIsTrue(ModeClause)
        BY <2>1, WholeBoard, VerifiedKeys, DestinationReached, EndingIsTrue, CountsAreTrue
  <2> QED BY <2>1, RefusalIsTrue DEF PromptsAreTrue
<1> QED BY <1>1, WordsInvariant, PTL
=============================================================================
