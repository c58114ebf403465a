------------------------------- MODULE Keyset -------------------------------
(***************************************************************************)
(* The pure part of the keyset layer: what one key holds, what a change    *)
(* asks of it, the records a plan sends, how those records are packed into *)
(* frames, how a fresh keyset index is allocated and when an actuation     *)
(* point write keeps a keyset whole.                                       *)
(*                                                                         *)
(* A key is a number; keys are visited in ascending order, which stands    *)
(* both for the matrix order and for the order of a resolved selection.    *)
(* A MODE value is its touch nibble and everything else it carries         *)
(* (advanced nibble and high byte), which every write here copies          *)
(* verbatim.  A set of records is a function from <<key, layout>> to the   *)
(* value written: a resolved selection names no key twice, so no pair is   *)
(* written twice.                                                          *)
(***************************************************************************)
EXTENDS Naturals, FiniteSets

CONSTANTS
  Keys,           \* the keys of the board's matrix
  Travels,        \* travel values, in micrometres
  Advanced,       \* advanced nibble and high byte of MODE, carried along
  MaxIndex,       \* the largest keyset index (u16::MAX)
  MaxRecords,     \* MAX_RECORDS_PER_REPORT, 14
  NoSignalBase,   \* NO_SIGNAL_BASE, 2.00mm
  None            \* an absent value

(***************************************************************************)
(* What a key holds.                                                       *)
(***************************************************************************)
Nibble       == 0..15
Global       == 0          \* follows the board's global travel
Single       == 1
RtGlobal     == 2
Rt           == 3
RtContinuous == 4          \* 5..15 are unmeasured: TouchMode::Unknown(n)

RtNibbles == {RtGlobal, Rt, RtContinuous}

Index    == 0..MaxIndex    \* 0 is "in no keyset"
Mode     == [touch : Nibble, rest : Advanced]
Settings == [mode : Mode, ap : Travels, press : Travels, release : Travels,
             apks : Index, rtks : Index]
Board    == [Keys -> Settings]

ASSUME KeysetAssumption ==
  /\ Keys \subseteq Nat
  /\ IsFiniteSet(Keys)
  /\ MaxIndex \in Nat \ {0}
  /\ MaxRecords \in Nat
  /\ MaxRecords >= 4
  /\ NoSignalBase \in Travels
  /\ None \notin Mode \cup Settings \cup Index \cup Travels \cup (Travels \X Travels)
  /\ None \notin Nibble \X Nibble

Kinds        == {"ap", "rt"}
ValueLayouts == {"mode", "ap", "press", "release"}
Layouts      == ValueLayouts \cup {"apks", "rtks"}

KeysetLayout(kind) == IF kind = "ap" THEN "apks" ELSE "rtks"

Field(s, l) == CASE l = "mode"    -> s.mode
                 [] l = "ap"      -> s.ap
                 [] l = "press"   -> s.press
                 [] l = "release" -> s.release
                 [] l = "apks"    -> s.apks
                 [] OTHER         -> s.rtks

(***************************************************************************)
(* Changes and what they make of a key's settings.                         *)
(***************************************************************************)
Change == [kind : Kinds, touch : {"Keep", "Promote", "RapidTrigger", "Off"},
           ap : Travels \cup {None}, rt : (Travels \X Travels) \cup {None}]

ChangeAp(v)     == [kind |-> "ap", touch |-> "Promote", ap |-> v, rt |-> None]
ChangeRtOn(pr)  == [kind |-> "rt", touch |-> "RapidTrigger", ap |-> None, rt |-> pr]
ChangeRtOff(pr) == [kind |-> "rt", touch |-> "Off", ap |-> None, rt |-> pr]

\* Seeded fault: turning rapid trigger off misses RtGlobal.
ApplyTouchMissingRtGlobal(n, touch) ==
  CASE touch = "Promote"      -> IF n = Global THEN Single ELSE n
    [] touch = "RapidTrigger" -> IF n = RtContinuous THEN RtContinuous ELSE Rt
    [] touch = "Off"          -> IF n \in {Rt, RtContinuous} THEN Single ELSE n
    [] OTHER                  -> n

ApplyTouch(n, touch) ==
  CASE touch = "Promote"      -> IF n = Global THEN Single ELSE n
    [] touch = "RapidTrigger" -> IF n = RtContinuous THEN RtContinuous ELSE Rt
    [] touch = "Off"          -> IF n \in RtNibbles THEN Single ELSE n
    [] OTHER                  -> n

Target(s, c) ==
  [s EXCEPT !.mode    = [s.mode EXCEPT !.touch = ApplyTouch(s.mode.touch, c.touch)],
            !.ap      = IF c.ap = None THEN @ ELSE c.ap,
            !.press   = IF c.rt = None THEN @ ELSE c.rt[1],
            !.release = IF c.rt = None THEN @ ELSE c.rt[2]]

\* Seeded fault: MODE is echoed whatever its nibble.
RecordLayoutsEchoing(s, c) == IF Target(s, c) = s THEN {} ELSE ValueLayouts

\* All four value layouts or none, except that an unchanged MODE at the
\* global nibble is never echoed.
RecordLayouts(s, c) ==
  LET t == Target(s, c)
  IN  IF t = s THEN {}
      ELSE IF t.mode = s.mode /\ t.mode.touch = Global
           THEN ValueLayouts \ {"mode"}
           ELSE ValueLayouts

ValueRecords(before, c) ==
  LET pairs == {p \in (DOMAIN before) \X ValueLayouts :
                  p[2] \in RecordLayouts(before[p[1]], c)}
  IN  [p \in pairs |-> Field(Target(before[p[1]], c), p[2])]

(***************************************************************************)
(* Frames.  Value records go out in whole per-key groups, as many groups   *)
(* as fit in one report.  `waiting` is the set of <<key, layout>> pairs    *)
(* still to be sent.                                                       *)
(***************************************************************************)

\* Seeded fault: the records are cut wherever the report fills up.
CutsAnywhere(waiting) ==
  {{p \in waiting : p[1] < k \/ (p[1] = k /\ p[2] \in layouts)} :
     k \in Keys, layouts \in {{"mode"}, {"mode", "ap"}, {"mode", "ap", "press"}, ValueLayouts}}

Cuts(waiting) == {{p \in waiting : p[1] <= k} : k \in Keys}

IsNextBatch(batch, waiting) ==
  /\ batch \in Cuts(waiting)
  /\ batch # {}
  /\ Cardinality(batch) <= MaxRecords
  /\ \A c \in Cuts(waiting) : Cardinality(c) <= MaxRecords => c \subseteq batch

\* What a key holds once a frame has landed on it.
Written(records, k, l, old) ==
  IF <<k, l>> \in DOMAIN records THEN records[<<k, l>>] ELSE old

Landed(board, records) ==
  [k \in Keys |->
     [mode    |-> Written(records, k, "mode",    board[k].mode),
      ap      |-> Written(records, k, "ap",      board[k].ap),
      press   |-> Written(records, k, "press",   board[k].press),
      release |-> Written(records, k, "release", board[k].release),
      apks    |-> Written(records, k, "apks",    board[k].apks),
      rtks    |-> Written(records, k, "rtks",    board[k].rtks)]]

(***************************************************************************)
(* Membership.  m is one layout read over the whole board.                 *)
(***************************************************************************)
Membership == [Keys -> Index]

Members(m, i) == {k \in Keys : m[k] = i}
Live(m)       == {m[k] : k \in Keys} \ {0}
Free(m)       == Members(m, 0)

\* Seeded fault: allocating past the largest index.
NextIndexPastTheEnd(m) ==
  IF Live(m) = {} THEN {1} ELSE {n + 1 : n \in {i \in Live(m) : \A j \in Live(m) : j <= i}}

\* The next index to allocate: at most one, none when MaxIndex is live.
NextIndex(m) ==
  IF Live(m) = {} THEN {1}
  ELSE {n + 1 : n \in {i \in Live(m) : i < MaxIndex /\ \A j \in Live(m) : j <= i}}

Taken(m, sel, i) == Members(m, i) \cap sel
Losing(m, sel)   == {i \in Live(m) : Taken(m, sel, i) # {}}

\* Whether `wh set ap` over sel leaves membership alone.
KeepsKeyset(m, sel) ==
  \E i \in Losing(m, sel) :
    /\ Losing(m, sel) = {i}
    /\ Cardinality(Members(m, i)) = Cardinality(Taken(m, sel, i))
    /\ Cardinality(Taken(m, sel, i)) = Cardinality(sel)
=============================================================================
