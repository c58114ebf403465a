------------------------------ MODULE Announce ------------------------------
(***************************************************************************)
(* What a write command tells the operator before it writes: a line for    *)
(* every key it takes or resets, the keysets that are about to cease to    *)
(* exist, where the value comes from, the prompt over the whole board and  *)
(* the reason of a refusal.  All of it is worked out from the plan, before *)
(* the first frame; the properties compare it with the board afterwards.   *)
(***************************************************************************)
EXTENDS WriteCommand

-----------------------------------------------------------------------------
(* What the plan says of one key.                                          *)

Sent(k, l) == <<k, l>> \in DOMAIN Records

OwnedLayouts(kind) == IF kind = "ap" THEN {"ap"} ELSE {"press", "release"}

\* Seeded fault: a record that goes out is taken for a value that moves.
ValueMovesIfSent(kind, k) == \E l \in OwnedLayouts(kind) : Sent(k, l)

ValueMoves(kind, k) ==
  \E l \in OwnedLayouts(kind) : Sent(k, l) /\ Records[<<k, l>>] # Field(before[k], l)

\* The touch nibble before and after; None when no record moves it.
ModeChange(k) ==
  LET new == Records[<<k, "mode">>].touch
      old == before[k].mode.touch
  IN  IF Sent(k, "mode") /\ new # old THEN <<old, new>> ELSE None

MovedModes == {k \in sel : ModeChange(k) # None}

ApValuesMoved == {k \in sel : ValueMoves("ap", k)}

\* The value the announcement names, and where it came from.
Destination == IF cmd.kind = "ap" THEN <<change.ap, change.ap>> ELSE change.rt

TargetSource ==
  IF cmd.op \in {"remove", "rt off"} /\ cmd.value # None THEN "operator"
  ELSE IF cmd.op = "remove" /\ cmd.kind = "ap" /\ seen = {} THEN "invented"
  ELSE "board base"

\* A member of a keyset a create takes from, a free key it enrols, or a
\* member of a keyset being deleted.
DescribeMember(k) ==
  IF ValueMoves(cmd.kind, k) THEN [key |-> k, says |-> "at", mode |-> None]
  ELSE IF ModeChange(k) # None THEN [key |-> k, says |-> "keeps", mode |-> ModeChange(k)]
  ELSE [key |-> k, says |-> "index", mode |-> None]

Leaving == {k \in sel : entries[k] # 0}

\* Seeded fault: one member leaving is enough.
KeysetDisappearsAtOnce(i) == Members(entries, i) \cap Leaving # {}

KeysetDisappears(i) == Members(entries, i) \subseteq Leaving

AnnounceRemove(k) ==
  [key |-> k, mode |-> ModeChange(k),
   ends |-> k \in Leaving /\ KeysetDisappears(entries[k]),
   says |-> IF k \in Leaving THEN "removing"
            ELSE IF \A l \in ValueLayouts : ~Sent(k, l) THEN "value unchanged"
            ELSE IF ValueMoves(cmd.kind, k) THEN "returning"
            ELSE "keeps"]

\* "creating": each keyset that loses members, and the free keys enrolled.
AnnounceSteal ==
  [loses |-> [i \in Losing(entries, sel) |-> {DescribeMember(k) : k \in Taken(entries, sel, i)}],
   enrols |-> {DescribeMember(k) : k \in sel \ UNION {Taken(entries, sel, i) : i \in Losing(entries, sel)}}]

\* A `wh set ap` that leaves membership alone announces nothing.
AnnouncesSteal == cmd.op = "create" \/ (cmd.op = "set ap" /\ index # None)

AnnounceDelete == {DescribeMember(k) : k \in sel}

\* `wh set ap --base` announces how many of the free keys change.
AnnounceBase ==
  IF DOMAIN Records = {} THEN "nothing written"
  ELSE IF ApValuesMoved = sel THEN "moves on all"
  ELSE IF ApValuesMoved = {} THEN "no key changes"
  ELSE "moves on some"

\* The last check before `wh set ap` writes: what the plan sends is what the
\* operator typed.
ConfirmApTarget ==
  \A k \in sel : cmd.value[1] = IF Sent(k, "ap") THEN Records[<<k, "ap">>] ELSE before[k].ap

-----------------------------------------------------------------------------
(* The prompt over the whole board.                                        *)

\* Seeded fault: every key whose mode moves is called switched on.
RtOnClauseOfAll == [on |-> Cardinality(MovedModes), own |-> 0]

RtOnClause ==
  LET on == {k \in MovedModes : before[k].mode.touch \in {Global, Single}}
  IN  [on |-> Cardinality(on), own |-> Cardinality(MovedModes \ on)]

\* Which keysets the prompt names as ceasing to exist.
NamedAsEnding ==
  IF cmd.op \in {"remove", "rt off"} THEN Live(entries) ELSE Losing(entries, sel)

ModeClause ==
  IF cmd.kind = "ap" THEN [pinned |-> Cardinality(MovedModes)]
  ELSE IF cmd.op \in {"remove", "rt off"} THEN [off |-> Cardinality(MovedModes)]
  ELSE RtOnClause

(* The reason a base cannot be settled: the keys to read it from disagree, *)
(* every free key is selected too, or no key is free.                      *)
BaseRefusal ==
  IF seen # {} THEN "split"
  ELSE IF Free(entries) # {} THEN "all free keys are selected"
  ELSE "no key is free"

-----------------------------------------------------------------------------
(* What those words mean of the board before and after.                    *)

Moved(k, l) == Field(board[k], l) # Field(before[k], l)

OwnMoved(k) == BaseOf(cmd.kind, board[k]) # BaseOf(cmd.kind, before[k])

TouchMoved(k) ==
  IF board[k].mode.touch = before[k].mode.touch THEN None
  ELSE <<before[k].mode.touch, board[k].mode.touch>>

Ends(i) == i \in Live(entries) \ Live(Now(cmd.kind))

AtDestination(k) == BaseOf(cmd.kind, board[k]) = Destination

MemberCameTrue(line) ==
  LET k == line.key
  IN  CASE line.says = "at"    -> OwnMoved(k) /\ AtDestination(k)
        [] line.says = "keeps" -> ~OwnMoved(k) /\ TouchMoved(k) = line.mode /\ AtDestination(k)
        [] OTHER               -> \A l \in ValueLayouts : ~Moved(k, l)

ResetCameTrue(line) ==
  LET k == line.key
  IN  /\ line.mode = TouchMoved(k)
      /\ line.ends = (entries[k] # 0 /\ Ends(entries[k]))
      /\ Now(cmd.kind)[k] = 0 /\ AtDestination(k)
      /\ CASE line.says = "removing"        -> entries[k] # 0
           [] line.says = "returning"       -> entries[k] = 0 /\ OwnMoved(k)
           [] line.says = "value unchanged" -> entries[k] = 0 /\ \A l \in ValueLayouts : ~Moved(k, l)
           [] OTHER                         -> entries[k] = 0 /\ ~OwnMoved(k) /\ line.mode # None

\* "returning to X" says that X is the base of the board: what every key
\* outside the keysets and the selection holds.  It must not be said of a
\* default nobody read.
SourceIsTrue ==
  LET others == Free(entries) \ sel
  IN  CASE TargetSource = "board base" ->
             /\ others # {}
             /\ \A k \in others : AtDestination(k)
        [] TargetSource = "invented"   -> others = {} /\ Destination = <<NoSignalBase, NoSignalBase>>
        [] OTHER                       -> Destination = cmd.value

BaseCameTrue ==
  LET changed == {k \in sel : Moved(k, "ap")}
  IN  /\ CASE AnnounceBase = "nothing written" -> \A k \in sel : board[k] = before[k]
           [] AnnounceBase = "moves on all"    -> changed = sel
           [] AnnounceBase = "no key changes"  -> changed = {} /\ MovedModes # {}
           [] OTHER -> changed = ApValuesMoved /\ changed \notin {{}, sel}
      /\ \A k \in Free(entries) : AtDestination(k)
      /\ \A k \in Keys \ Free(entries) : board[k] = backup[k]

\* Every line printed before a verified write came true of its key: a value
\* said to move moved to the value named, one said to stay stayed, the touch
\* mode moved as named or not at all, a keyset said to cease to exist did and
\* no other; a value called the board's base was (announce_remove,
\* announce_steal, announce_delete, describe_member, the `ap base` line).  The
\* announcements are about the command: nobody edits the board meanwhile.
AnnouncementsComeTrue ==
  outcome = "verified" /\ edits = {} =>
  /\ cmd.op = "set ap" => ConfirmApTarget
  /\ CASE cmd.op \in {"remove", "rt off"} ->
           SourceIsTrue /\ \A k \in sel : ResetCameTrue(AnnounceRemove(k))
      [] cmd.op = "delete"  -> \A line \in AnnounceDelete : MemberCameTrue(line)
      [] cmd.op = "ap base" -> BaseCameTrue
      [] AnnouncesSteal ->
           /\ \A i \in DOMAIN AnnounceSteal.loses : \A line \in AnnounceSteal.loses[i] :
                MemberCameTrue(line) /\ entries[line.key] = i
           /\ \A line \in AnnounceSteal.enrols : MemberCameTrue(line) /\ entries[line.key] = 0
      [] OTHER -> TRUE

RtOn(s) == s.mode.touch \in RtNibbles

ModeClauseIsTrue(clause) ==
  LET at(n) == Cardinality({k \in Keys : before[k].mode.touch = n /\ board[k].mode.touch # n})
  IN  IF cmd.kind = "ap" THEN clause.pinned = at(Global)
      ELSE IF cmd.op \in {"remove", "rt off"}
      THEN clause.off = Cardinality({k \in Keys : RtOn(before[k]) /\ ~RtOn(board[k])})
      ELSE /\ clause.on = at(Global) + at(Single)
           /\ clause.own = Cardinality({k \in Keys : TouchMoved(k) # None}) - clause.on

\* What the operator said yes to: the keysets named in the prompt are the ones
\* that ceased to exist, every key is at the value named, and the number of
\* keys whose touch mode moved is right for each way of moving
\* (confirm_whole_board_create, _remove, _ap_set).  And a refusal gives the
\* reason that holds (remove_base_rt, rt_off_base, global_ap_or_bail).
PromptsAreTrue ==
  /\ outcome = "verified" /\ edits = {} /\ NeedsConfirm(cmd, sel, index) =>
       /\ NamedAsEnding = Live(entries) \ Live(Now(cmd.kind))
       /\ \A k \in Keys : AtDestination(k)
       /\ ModeClauseIsTrue(ModeClause)
  /\ pc = "base" /\ edits = {} /\ todo = {} /\ Bases(cmd, seen) = {} =>
       LET others == Free(entries) \ (IF cmd.op \in {"remove", "rt off"} THEN sel ELSE {})
       IN  CASE BaseRefusal = "split" ->
                  \E j, k \in others : BaseOf(cmd.kind, board[j]) # BaseOf(cmd.kind, board[k])
             [] BaseRefusal = "no key is free" -> \A k \in Keys : Now(cmd.kind)[k] # 0
             [] OTHER -> others = {} /\ \E k \in sel : Now(cmd.kind)[k] = 0
=============================================================================
