----------------------------- MODULE StoreProofs -----------------------------
(***************************************************************************)
(* For any number of processes, whatever the clock says and wherever they  *)
(* are killed: what the backups directory lists is whole, no text is there *)
(* twice, and rotation takes a backup only where enough newer ones are.    *)
(* Under a steady clock, a backup made alone is there when its save ends.  *)
(*                                                                         *)
(* And of the other file processes share: commands that change the groups, *)
(* however they overlap, lose none that nobody named, and one at a time    *)
(* they implement a map of groups.  A selector means what it says to each  *)
(* of them, whatever the groups are by then, and what a command made reads *)
(* back as what it is, from its name and from what is printed of it.       *)
(***************************************************************************)
EXTENDS Store, Groups, Integers, FiniteSetTheorems, FunctionTheorems, SequenceTheorems,
        WellFoundedInduction, TLAPS

Stages == {"idle", "write", "stamp", "link", "unlink", "list", "stat", "rotate"}

TypeOK ==
  /\ saves \in Nat
  /\ pc \in [Procs -> Stages] /\ text \in [Procs -> Nat]
  /\ DOMAIN slot = Procs

\* Not yet published.
Unpublished(p) == pc[p] \in {"write", "stamp", "link"}

\* The texts at work are of saves that have begun, each of one process.
TextsApart ==
  /\ \A p \in Procs : pc[p] # "idle" => text[p] \in 1..saves
  /\ \A p, q \in Procs : p # q /\ pc[p] # "idle" /\ pc[q] # "idle" => text[p] # text[q]

\* From the write to the link the temp file has the whole text: no other process
\* has a file of that name.
TempsWhole ==
  \A p \in Procs : pc[p] \in {"stamp", "link"} =>
    text[p] \in DOMAIN temps /\ temps[text[p]] = "whole"

\* A text is published by its own save, which goes on to unlink.
PublishedByOne ==
  \A n \in DOMAIN backups :
    /\ backups[n].text \in 1..saves
    /\ \A p \in Procs : Unpublished(p) => backups[n].text # text[p]

IInv == TypeOK /\ TextsApart /\ TempsWhole /\ PublishedByOne /\ BackupsAreWhole

LEMMA InitHolds == Init => IInv
BY DEF Init, IInv, TypeOK, Stages, TextsApart, TempsWhole, PublishedByOne, Unpublished,
       BackupsAreWhole, Names

-----------------------------------------------------------------------------
(* The two ways a step leaves the directory: as it is or less, and with    *)
(* one more name.                                                          *)

\* Names may go; a process may end, or go on past what is unpublished.
Quiet ==
  /\ DOMAIN backups' \subseteq DOMAIN backups
  /\ \A n \in DOMAIN backups' : backups'[n] = backups[n]

LEMMA QuietKeepsPublished ==
  ASSUME IInv, Quiet, saves' \in Nat, saves' >= saves,
         \A p \in Procs : Unpublished(p)' => Unpublished(p) /\ text'[p] = text[p]
  PROVE  PublishedByOne' /\ BackupsAreWhole'
<1>1. PublishedByOne'
      BY DEF IInv, TypeOK, Quiet, PublishedByOne
<1>2. BackupsAreWhole'
      BY DEF IInv, Quiet, BackupsAreWhole, Names
<1> QED BY <1>1, <1>2

\* A step of p alone that keeps its text, or drops it with its temp file.
LEMMA StepOfOne ==
  ASSUME IInv, NEW p \in Procs, NEW l \in Stages,
         pc' = [pc EXCEPT ![p] = l],
         text' = [text EXCEPT ![p] = IF l = "idle" THEN 0 ELSE text[p]],
         DOMAIN slot' = Procs, UNCHANGED saves,
         pc[p] # "idle",
         l \in {"stamp", "link"} => text[p] \in DOMAIN temps' /\ temps'[text[p]] = "whole",
         \A t \in DOMAIN temps \ {text[p]} : t \in DOMAIN temps' /\ temps'[t] = temps[t]
  PROVE  TypeOK' /\ TextsApart' /\ TempsWhole'
<1>1. TypeOK'
      BY DEF IInv, TypeOK
<1>2. TextsApart'
      BY DEF IInv, TypeOK, TextsApart
<1>3. TempsWhole'
  <2> SUFFICES ASSUME NEW q \in Procs, pc'[q] \in {"stamp", "link"}
               PROVE  text'[q] \in DOMAIN temps' /\ temps'[text'[q]] = "whole"
      BY DEF TempsWhole
  <2>1. CASE q = p
        BY <2>1 DEF IInv, TypeOK
  <2>2. CASE q # p
    <3>1. pc'[q] = pc[q] /\ text'[q] = text[q] /\ text[q] # text[p]
          BY <2>2 DEF IInv, TypeOK, TextsApart
    <3>2. text[q] \in DOMAIN temps /\ temps[text[q]] = "whole"
          BY <3>1 DEF IInv, TempsWhole
    <3> QED BY <3>1, <3>2
  <2> QED BY <2>1, <2>2
<1> QED BY <1>1, <1>2, <1>3

-----------------------------------------------------------------------------
(* The steps.                                                              *)

\* A process that ends on its own, or is killed: its temp file stays or goes.
LEMMA EndKeeps ==
  ASSUME IInv, NEW p \in Procs, pc[p] # "idle", NEW how, End(p, how),
         UNCHANGED <<backups, saves>>, temps' \in {temps, Without(temps, text[p])}
  PROVE  IInv'
<1>1. TypeOK' /\ TextsApart' /\ TempsWhole'
  <2>1. /\ pc' = [pc EXCEPT ![p] = "idle"]
        /\ text' = [text EXCEPT ![p] = IF "idle" = "idle" THEN 0 ELSE text[p]]
        /\ DOMAIN slot' = Procs
        BY DEF End, Goto, IInv, TypeOK
  <2>2. \A t \in DOMAIN temps \ {text[p]} : t \in DOMAIN temps' /\ temps'[t] = temps[t]
        BY DEF Without
  <2> QED BY <2>1, <2>2, StepOfOne DEF Stages
<1>2. PublishedByOne' /\ BackupsAreWhole'
  <2>1. Quiet
        BY DEF Quiet
  <2>2. \A q \in Procs : Unpublished(q)' => Unpublished(q) /\ text'[q] = text[q]
        BY DEF Unpublished, End, Goto, IInv, TypeOK
  <2>3. saves' \in Nat /\ saves' >= saves
        BY DEF IInv, TypeOK
  <2> QED BY <2>1, <2>2, <2>3, QuietKeepsPublished
<1> QED BY <1>1, <1>2 DEF IInv

\* A process that goes on with the directory as it is, or less of it.
LEMMA GoesOn ==
  ASSUME IInv, NEW p \in Procs, NEW l \in Stages \ {"idle"}, pc[p] # "idle", Goto(p, l), Quiet,
         UNCHANGED <<text, saves>>, DOMAIN slot' = Procs,
         l \in {"write", "stamp", "link"} => Unpublished(p),
         l \in {"stamp", "link"} => text[p] \in DOMAIN temps' /\ temps'[text[p]] = "whole",
         \A t \in DOMAIN temps \ {text[p]} : t \in DOMAIN temps' /\ temps'[t] = temps[t]
  PROVE  IInv'
<1>1. TypeOK' /\ TextsApart' /\ TempsWhole'
  <2>1. /\ pc' = [pc EXCEPT ![p] = l]
        /\ text' = [text EXCEPT ![p] = IF l = "idle" THEN 0 ELSE text[p]]
        BY DEF Goto, IInv, TypeOK
  <2> QED BY <2>1, StepOfOne
<1>2. PublishedByOne' /\ BackupsAreWhole'
  <2>1. \A q \in Procs : Unpublished(q)' => Unpublished(q) /\ text'[q] = text[q]
        BY DEF Unpublished, Goto, IInv, TypeOK
  <2>2. saves' \in Nat /\ saves' >= saves
        BY DEF IInv, TypeOK
  <2> QED BY <2>1, <2>2, QuietKeepsPublished
<1> QED BY <1>1, <1>2 DEF IInv

\* A save begins with a text, and a temp file, no other process has.
LEMMA CreateTempKeeps == ASSUME IInv, NEW p \in Procs, CreateTemp(p) PROVE IInv'
<1> USE DEF IInv, TypeOK
<1>1. /\ pc[p] = "idle" /\ pc' = [pc EXCEPT ![p] = "write"] /\ saves' = saves + 1
      /\ text' = [text EXCEPT ![p] = saves + 1] /\ UNCHANGED <<backups, slot>>
      /\ temps' = With(temps, saves + 1, "part")
      BY DEF CreateTemp, Goto
<1>2. TypeOK'
      BY <1>1 DEF Stages
<1>3. TextsApart'
      BY <1>1 DEF TextsApart
<1>4. TempsWhole'
  <2> SUFFICES ASSUME NEW q \in Procs, pc'[q] \in {"stamp", "link"}
               PROVE  text'[q] \in DOMAIN temps' /\ temps'[text'[q]] = "whole"
      BY DEF TempsWhole
  <2>1. q # p /\ pc'[q] = pc[q] /\ text'[q] = text[q] /\ text[q] # saves + 1
        BY <1>1 DEF TextsApart
  <2> QED BY <1>1, <2>1 DEF TempsWhole, With
<1>5. PublishedByOne'
      BY <1>1 DEF PublishedByOne, Unpublished
<1>6. BackupsAreWhole'
      BY <1>1 DEF BackupsAreWhole, Names
<1> QED BY <1>2, <1>3, <1>4, <1>5, <1>6

LEMMA WriteTempKeeps == ASSUME IInv, NEW p \in Procs, WriteTemp(p) PROVE IInv'
<1>1. pc[p] = "write" /\ UNCHANGED <<backups, saves>>
      BY DEF WriteTemp
<1>2. CASE temps' = With(temps, text[p], "whole") /\ Goto(p, "stamp") /\ UNCHANGED <<text, slot>>
  <2>1. /\ text[p] \in DOMAIN temps' /\ temps'[text[p]] = "whole"
        /\ \A t \in DOMAIN temps \ {text[p]} : t \in DOMAIN temps' /\ temps'[t] = temps[t]
        BY <1>2 DEF With
  <2>2. Quiet /\ DOMAIN slot' = Procs /\ Unpublished(p)
        BY <1>1, <1>2 DEF Quiet, Unpublished, IInv, TypeOK
  <2> QED BY <1>1, <1>2, <2>1, <2>2, GoesOn DEF Stages
<1>3. CASE temps' = Without(temps, text[p]) /\ End(p, "error")
      BY <1>1, <1>3, EndKeeps
<1> QED BY <1>2, <1>3 DEF WriteTemp

LEMMA ReadClockKeeps == ASSUME IInv, NEW p \in Procs, ReadClock(p) PROVE IInv'
<1>1. pc[p] = "stamp" /\ UNCHANGED <<backups, saves>>
      BY DEF ReadClock
<1>2. CASE \E t \in ClockReadings : slot' = [slot EXCEPT ![p] = t] /\ Goto(p, "link")
                                     /\ UNCHANGED <<temps, text>>
  <2>1. text[p] \in DOMAIN temps' /\ temps'[text[p]] = "whole"
        BY <1>1, <1>2 DEF IInv, TempsWhole
  <2>2. Quiet /\ DOMAIN slot' = Procs /\ Unpublished(p) /\ Goto(p, "link") /\ UNCHANGED <<temps, text>>
        BY <1>1, <1>2 DEF Quiet, Unpublished, IInv, TypeOK
  <2> QED BY <1>1, <2>1, <2>2, GoesOn DEF Stages
<1>3. CASE temps' = Without(temps, text[p]) /\ End(p, "error")
      BY <1>1, <1>3, EndKeeps
<1> QED BY <1>2, <1>3 DEF ReadClock

\* The one step that publishes: the text is whole, and nobody else's.
LEMMA LinkKeeps == ASSUME IInv, NEW p \in Procs, Link(p) PROVE IInv'
<1>1. pc[p] = "link" /\ UNCHANGED <<temps, text, saves>>
      BY DEF Link
<1>2. text[p] \in DOMAIN temps /\ temps[text[p]] = "whole" /\ text[p] \in 1..saves
      BY <1>1 DEF IInv, TempsWhole, TextsApart
<1>3. CASE /\ slot[p] \notin Names /\ backups' = With(backups, slot[p], Published(p))
           /\ Goto(p, "unlink") /\ UNCHANGED slot
  <2>1. TypeOK' /\ TextsApart' /\ TempsWhole'
    <3>1. /\ pc' = [pc EXCEPT ![p] = "unlink"]
          /\ text' = [text EXCEPT ![p] = IF "unlink" = "idle" THEN 0 ELSE text[p]]
          /\ DOMAIN slot' = Procs
          BY <1>1, <1>3 DEF Goto, IInv, TypeOK
    <3> QED BY <1>1, <3>1, StepOfOne DEF Stages
  <2>2. DOMAIN backups' = DOMAIN backups \cup {slot[p]}
        BY <1>3 DEF With
  <2>3. backups'[slot[p]].text = text[p] /\ backups'[slot[p]].state = "whole"
        BY <1>2, <1>3 DEF With, Published
  <2>4. \A n \in DOMAIN backups : backups'[n] = backups[n] /\ backups[n].text # text[p]
        BY <1>1, <1>3 DEF With, Names, IInv, PublishedByOne, Unpublished
  <2>5. \A q \in Procs : Unpublished(q)' => Unpublished(q) /\ q # p /\ text[q] # text[p]
        BY <1>1, <1>3 DEF Unpublished, Goto, IInv, TypeOK, TextsApart
  <2>6. PublishedByOne'
        BY <1>1, <1>2, <2>2, <2>3, <2>4, <2>5 DEF PublishedByOne, IInv
  <2>7. BackupsAreWhole'
        BY <2>2, <2>3, <2>4 DEF BackupsAreWhole, Names, IInv
  <2> QED BY <2>1, <2>6, <2>7 DEF IInv
<1>4. CASE slot' = [slot EXCEPT ![p] = @ + 1] /\ UNCHANGED <<backups, pc>>
      BY <1>1, <1>4 DEF IInv, TypeOK, TextsApart, TempsWhole, PublishedByOne, Unpublished,
                        BackupsAreWhole, Names
<1> QED BY <1>3, <1>4 DEF Link

LEMMA LinkFailsKeeps == ASSUME IInv, NEW p \in Procs, LinkFails(p) PROVE IInv'
BY EndKeeps DEF LinkFails

\* After the link nothing is published any more.
LEMMA AfterLinkKeeps ==
  ASSUME IInv, NEW p \in Procs, RemoveTemp(p) \/ List(p) \/ Stat(p) \/ Rotate(p) \/ Finish(p)
  PROVE  IInv'
<1>1. CASE RemoveTemp(p)
  <2>1. /\ pc[p] = "unlink" /\ Goto(p, "list") /\ UNCHANGED <<backups, text, slot, saves>>
        /\ temps' \in {Without(temps, text[p]), temps}
        BY <1>1 DEF RemoveTemp
  <2>2. Quiet /\ DOMAIN slot' = Procs
        /\ \A t \in DOMAIN temps \ {text[p]} : t \in DOMAIN temps' /\ temps'[t] = temps[t]
        BY <2>1 DEF Quiet, Without, IInv, TypeOK
  <2> QED BY <2>1, <2>2, GoesOn DEF Stages
<1>2. CASE List(p)
  <2>1. pc[p] = "list" /\ Goto(p, "stat") /\ UNCHANGED <<backups, temps, text, slot, saves>>
        BY <1>2 DEF List
  <2>2. Quiet /\ DOMAIN slot' = Procs
        BY <2>1 DEF Quiet, IInv, TypeOK
  <2> QED BY <2>1, <2>2, GoesOn DEF Stages
<1>3. CASE Stat(p)
  <2>1. pc[p] = "stat" /\ UNCHANGED <<backups, temps, saves>>
        BY <1>3 DEF Stat
  <2>2. CASE Goto(p, "rotate") /\ UNCHANGED <<text, slot>>
    <3>1. Quiet /\ DOMAIN slot' = Procs
          BY <2>1, <2>2 DEF Quiet, IInv, TypeOK
    <3> QED BY <2>1, <2>2, <3>1, GoesOn DEF Stages
  <2>3. CASE End(p, "error")
        BY <2>1, <2>3, EndKeeps
  <2> QED BY <1>3, <2>2, <2>3 DEF Stat
<1>4. CASE Rotate(p)
  <2>1. pc[p] = "rotate" /\ UNCHANGED <<temps, saves>>
        BY <1>4 DEF Rotate
  <2>2. CASE End(p, "error") /\ UNCHANGED backups
        BY <2>1, <2>2, EndKeeps
  <2>3. CASE backups' = Without(backups, Oldest(listing[p])) /\ UNCHANGED <<pc, text, slot>>
    <3>1. Quiet /\ Goto(p, "rotate") /\ DOMAIN slot' = Procs
          BY <2>1, <2>3 DEF Quiet, Without, Goto, IInv, TypeOK
    <3> QED BY <2>1, <2>3, <3>1, GoesOn DEF Stages
  <2> QED BY <1>4, <2>2, <2>3 DEF Rotate
<1>5. CASE Finish(p)
      BY <1>5, EndKeeps DEF Finish
<1> QED BY <1>1, <1>2, <1>3, <1>4, <1>5

LEMMA CrashKeeps == ASSUME IInv, NEW p \in Procs, Crash(p) PROVE IInv'
BY EndKeeps DEF Crash

THEOREM Inductive == IInv /\ [Next]_vars => IInv'
<1> SUFFICES ASSUME IInv, [Next]_vars PROVE IInv'
    OBVIOUS
<1>1. ASSUME NEW p \in Procs, Save(p) PROVE IInv'
      BY <1>1, CreateTempKeeps, WriteTempKeeps, ReadClockKeeps, LinkKeeps, LinkFailsKeeps,
         AfterLinkKeeps DEF Save
<1>2. ASSUME NEW p \in Procs, Crash(p) PROVE IInv'
      BY <1>2, CrashKeeps
<1>3. CASE UNCHANGED vars
      BY <1>3 DEF vars, procVars, IInv, TypeOK, TextsApart, TempsWhole, PublishedByOne, Unpublished,
                  BackupsAreWhole, Names
<1> QED BY <1>1, <1>2, <1>3 DEF Next

\* Whatever is listed as a backup is the whole text of one save, and of no other
\* name, however many processes save at once and wherever they are killed
\* (save_backup, list_backups).
THEOREM BackupsStayWhole == Spec => []BackupsAreWhole
<1>1. IInv => BackupsAreWhole
      BY DEF IInv
<1> QED BY <1>1, InitHolds, Inductive, PTL DEF Spec

-----------------------------------------------------------------------------
(* Rotation.                                                               *)

Newer(n) == {m \in Names : m > n}

RotationTyped ==
  /\ Names \subseteq Nat /\ IsFiniteSet(Names)
  /\ DOMAIN pc = Procs
  /\ slot \in [Procs -> Nat] /\ listing \in [Procs -> SUBSET Nat]
  /\ \A p \in Procs : IsFiniteSet(listing[p])

\* A listing may be stale, but what has gone from it has KEEP_BACKUPS newer ones.
GoneIsOld ==
  \A p \in Procs : \A n \in listing[p] \ Names : Cardinality(Newer(n)) >= KEEP_BACKUPS

RInv == RotationTyped /\ GoneIsOld

LEMMA LeastOfNats ==
  ASSUME NEW S, S \subseteq Nat, S # {}
  PROVE  Oldest(S) \in S /\ \A m \in S : Oldest(S) <= m
<1> DEFINE Less == OpToRel(<, Nat)
<1>1. PICK x \in S : \A y \in S : <<y, x>> \notin Less
  <2> HIDE DEF Less
  <2>1. IsWellFoundedOn(Less, Nat)
        BY NatLessThanWellFounded DEF Less
  <2> QED BY <2>1, WFMin
<1>2. Less = {ss \in Nat \X Nat : ss[1] < ss[2]}
      BY DEF OpToRel
<1> HIDE DEF Less
<1>3. \A y \in S : x <= y
  <2> SUFFICES ASSUME NEW y \in S, y < x PROVE FALSE
      OBVIOUS
  <2>1. <<y, x>> \in Nat \X Nat /\ <<y, x>>[1] < <<y, x>>[2]
        OBVIOUS
  <2>2. <<y, x>> \in Less
        BY <1>2, <2>1
  <2> QED BY <1>1, <2>2
<1> QED BY <1>3 DEF Oldest

LEMMA InitRotation == Init => RInv
<1> SUFFICES ASSUME Init PROVE RInv
    OBVIOUS
<1>1. Names = {} /\ listing = [p \in Procs |-> {}] /\ slot = [p \in Procs |-> 0] /\ DOMAIN pc = Procs
      BY DEF Init, Names
<1>2. IsFiniteSet({})
      BY FS_EmptySet
<1> QED BY <1>1, <1>2 DEF RInv, RotationTyped, GoneIsOld

LEMMA NewerIsFinite ==
  ASSUME RotationTyped, NEW n PROVE IsFiniteSet(Newer(n)) /\ Cardinality(Newer(n)) \in Nat
BY FS_Subset, FS_CardinalityType DEF RotationTyped, Newer

\* More names are no fewer newer ones.
LEMMA MoreNames ==
  ASSUME RotationTyped, RotationTyped', NEW n \in Nat, Newer(n) \subseteq Names',
         Cardinality(Newer(n)) >= KEEP_BACKUPS
  PROVE  Cardinality(Newer(n)') >= KEEP_BACKUPS
<1>1. Newer(n) \subseteq Newer(n)'
      BY DEF Newer
<1>2. IsFiniteSet(Newer(n)')
      BY FS_Subset DEF RotationTyped, Newer
<1>3. Cardinality(Newer(n)) <= Cardinality(Newer(n)') /\ Cardinality(Newer(n)') \in Nat
      BY <1>1, <1>2, FS_Subset, FS_CardinalityType
<1> QED BY <1>3, NewerIsFinite, StoreAssumption

\* A step that removes no name, and lists none that is not there.
LEMMA NoRemoval ==
  ASSUME RInv, RotationTyped', Names \subseteq Names',
         \A q \in Procs : listing'[q] \subseteq listing[q] \cup Names'
  PROVE  GoneIsOld'
<1> SUFFICES ASSUME NEW q \in Procs, NEW n \in listing'[q] \ Names'
             PROVE  Cardinality(Newer(n)') >= KEEP_BACKUPS
    BY DEF GoneIsOld
<1>1. n \in listing[q] \ Names /\ n \in Nat
      BY DEF RInv, RotationTyped
<1>2. Newer(n) \subseteq Names'
      BY DEF Newer
<1> QED BY <1>1, <1>2, MoreNames DEF RInv, GoneIsOld

\* The step that removes a name removes an old one.
LEMMA RemovesOldest ==
  ASSUME RInv, NEW p \in Procs, Cardinality(listing[p]) > KEEP_BACKUPS
  PROVE  /\ Oldest(listing[p]) \in listing[p] /\ Oldest(listing[p]) \in Nat
         /\ Cardinality(Newer(Oldest(listing[p]))) >= KEEP_BACKUPS
<1> DEFINE o == Oldest(listing[p])
           Rest == listing[p] \ {o}
<1>1. IsFiniteSet(listing[p]) /\ listing[p] \subseteq Nat
      BY DEF RInv, RotationTyped
<1>2. listing[p] # {}
      BY FS_EmptySet, StoreAssumption
<1>3. o \in listing[p] /\ o \in Nat /\ \A m \in listing[p] : o <= m
      BY <1>1, <1>2, LeastOfNats
<1>4. IsFiniteSet(Rest) /\ Cardinality(Rest) = Cardinality(listing[p]) - 1
      BY <1>1, <1>3, FS_RemoveElement
<1>5. Cardinality(Rest) >= KEEP_BACKUPS /\ Cardinality(Rest) \in Nat
      BY <1>1, <1>4, FS_CardinalityType, StoreAssumption
<1>6. \A m \in Rest : m \in Nat /\ m > o
      BY <1>1, <1>3
<1>7. IsFiniteSet(Newer(o)) /\ Cardinality(Newer(o)) \in Nat
      BY NewerIsFinite DEF RInv
<1>8. CASE Rest \subseteq Names
  <2>1. Rest \subseteq Newer(o)
        BY <1>6, <1>8 DEF Newer
  <2>2. Cardinality(Rest) <= Cardinality(Newer(o))
        BY <1>7, <2>1, FS_Subset
  <2> QED BY <1>3, <1>5, <1>7, <2>2, StoreAssumption
<1>9. CASE \E m \in Rest : m \notin Names
  <2>1. PICK m \in Rest : m \notin Names
        BY <1>9
  <2>2. Cardinality(Newer(m)) >= KEEP_BACKUPS /\ Cardinality(Newer(m)) \in Nat
        BY <2>1, NewerIsFinite DEF RInv, GoneIsOld
  <2>3. Newer(m) \subseteq Newer(o)
    <3>1. m \in Nat /\ m > o /\ o \in Nat /\ Names \subseteq Nat
          BY <1>3, <1>6, <2>1 DEF RInv, RotationTyped
    <3>2. \A n \in Names : n > m => n > o
          BY <3>1
    <3> QED BY <3>2 DEF Newer
  <2>4. Cardinality(Newer(m)) <= Cardinality(Newer(o))
        BY <1>7, <2>3, FS_Subset
  <2> QED BY <1>3, <1>7, <2>2, <2>4, StoreAssumption
<1> QED BY <1>8, <1>9

\* The listing, the directory and the slot after a step of p that lists nothing new.
LEMMA ListsNothingNew ==
  ASSUME RInv, NEW p \in Procs, Names \subseteq Names', Names' \subseteq Nat, IsFiniteSet(Names'),
         DOMAIN pc' = Procs, slot' \in [Procs -> Nat],
         listing' \in {listing, [listing EXCEPT ![p] = {}], [listing EXCEPT ![p] = Names]}
  PROVE  RInv'
<1>1. IsFiniteSet({})
      BY FS_EmptySet
<1>2. /\ listing' \in [Procs -> SUBSET Nat]
      /\ \A q \in Procs : listing'[q] \in {listing[q], {}, Names}
      BY DEF RInv, RotationTyped
<1>3. RotationTyped'
      BY <1>1, <1>2 DEF RInv, RotationTyped
<1>4. GoneIsOld'
      BY <1>2, <1>3, NoRemoval
<1> QED BY <1>3, <1>4 DEF RInv

LEMMA EndRotation ==
  ASSUME RInv, NEW p \in Procs, NEW how, End(p, how), UNCHANGED backups PROVE RInv'
<1>1. /\ listing' = [listing EXCEPT ![p] = {}] /\ slot' \in [Procs -> Nat] /\ DOMAIN pc' = Procs
      /\ Names' = Names
      BY DEF End, Goto, Names, RInv, RotationTyped
<1> QED BY <1>1, ListsNothingNew DEF RInv, RotationTyped

LEMMA SaveRotation ==
  ASSUME RInv, NEW p \in Procs,
         CreateTemp(p) \/ WriteTemp(p) \/ ReadClock(p) \/ LinkFails(p) \/ RemoveTemp(p) \/ List(p)
           \/ Stat(p) \/ Finish(p) \/ Crash(p)
  PROVE  RInv'
<1>1. UNCHANGED backups
      BY DEF CreateTemp, WriteTemp, ReadClock, LinkFails, RemoveTemp, List, Stat, Finish, Crash
<1>2. CASE \E how : End(p, how)
      BY <1>1, <1>2, EndRotation
<1>3. CASE \E l : Goto(p, l) /\ UNCHANGED <<slot, listing>>
  <2>1. listing' = listing /\ slot' \in [Procs -> Nat] /\ DOMAIN pc' = Procs /\ Names' = Names
        BY <1>1, <1>3 DEF Goto, Names, RInv, RotationTyped
  <2> QED BY <2>1, ListsNothingNew DEF RInv, RotationTyped
<1>4. CASE ReadClock(p) /\ ~\E how : End(p, how)
  <2>1. /\ listing' = listing /\ slot' \in [Procs -> Nat] /\ DOMAIN pc' = Procs /\ Names' = Names
        BY <1>1, <1>4, StoreAssumption DEF ReadClock, Goto, Names, RInv, RotationTyped
  <2> QED BY <2>1, ListsNothingNew DEF RInv, RotationTyped
<1>5. CASE List(p)
  <2>1. /\ listing' = [listing EXCEPT ![p] = Names] /\ slot' \in [Procs -> Nat]
        /\ DOMAIN pc' = Procs /\ Names' = Names
        BY <1>1, <1>5 DEF List, Goto, Names, RInv, RotationTyped
  <2> QED BY <2>1, ListsNothingNew DEF RInv, RotationTyped
<1>6. CASE CreateTemp(p)
  <2>1. Goto(p, "write") /\ UNCHANGED <<slot, listing>>
        BY <1>6 DEF CreateTemp
  <2> QED BY <2>1, <1>3
<1>7. CASE WriteTemp(p) /\ ~\E how : End(p, how)
  <2>1. Goto(p, "stamp") /\ UNCHANGED <<slot, listing>>
        BY <1>7 DEF WriteTemp
  <2> QED BY <2>1, <1>3
<1>8. CASE RemoveTemp(p)
  <2>1. Goto(p, "list") /\ UNCHANGED <<slot, listing>>
        BY <1>8 DEF RemoveTemp
  <2> QED BY <2>1, <1>3
<1>9. CASE Stat(p) /\ ~\E how : End(p, how)
  <2>1. Goto(p, "rotate") /\ UNCHANGED <<slot, listing>>
        BY <1>9 DEF Stat
  <2> QED BY <2>1, <1>3
<1>10. CASE LinkFails(p) \/ Finish(p) \/ Crash(p)
       BY <1>2, <1>10 DEF LinkFails, Finish, Crash
<1> QED BY <1>2, <1>4, <1>5, <1>6, <1>7, <1>8, <1>9, <1>10

LEMMA LinkRotation == ASSUME RInv, NEW p \in Procs, Link(p) PROVE RInv'
<1>1. CASE backups' = With(backups, slot[p], Published(p)) /\ Goto(p, "unlink") /\ UNCHANGED slot
  <2>1. Names' = Names \cup {slot[p]} /\ slot[p] \in Nat
        BY <1>1 DEF With, Names, RInv, RotationTyped
  <2>2. IsFiniteSet(Names') /\ Names \subseteq Names' /\ Names' \subseteq Nat
        BY <2>1, FS_AddElement DEF RInv, RotationTyped
  <2>3. listing' = listing /\ slot' \in [Procs -> Nat] /\ DOMAIN pc' = Procs
        BY <1>1 DEF Link, Goto, RInv, RotationTyped
  <2> QED BY <2>2, <2>3, ListsNothingNew
<1>2. CASE slot' = [slot EXCEPT ![p] = @ + 1] /\ UNCHANGED <<backups, pc>>
  <2>1. listing' = listing /\ slot' \in [Procs -> Nat] /\ DOMAIN pc' = Procs /\ Names' = Names
        BY <1>2 DEF Link, Names, RInv, RotationTyped
  <2> QED BY <2>1, ListsNothingNew DEF RInv, RotationTyped
<1> QED BY <1>1, <1>2 DEF Link

\* Removal takes the name out of the listing it came from; where another process
\* still lists it, or an older one, there are newer names enough.
LEMMA RotateRotation == ASSUME RInv, NEW p \in Procs, Rotate(p) PROVE RInv'
<1> DEFINE o == Oldest(listing[p])
<1>1. CASE End(p, "error") /\ UNCHANGED backups
      BY <1>1, EndRotation
<1>2. CASE /\ Cardinality(listing[p]) > KEEP_BACKUPS /\ o \in Names
           /\ backups' = Without(backups, o) /\ listing' = [listing EXCEPT ![p] = @ \ {o}]
           /\ UNCHANGED <<pc, slot>>
  <2>1. o \in listing[p] /\ o \in Nat /\ Cardinality(Newer(o)) >= KEEP_BACKUPS
        BY <1>2, RemovesOldest
  <2> HIDE DEF o
  <2>2. Names' = Names \ {o}
        BY <1>2 DEF Without, Names
  <2>3. IsFiniteSet(Names') /\ IsFiniteSet(listing[p] \ {o})
        BY <2>2, FS_RemoveElement DEF RInv, RotationTyped
  <2>4. /\ listing' \in [Procs -> SUBSET Nat]
        /\ \A q \in Procs : listing'[q] \in {listing[q], listing[p] \ {o}} /\ listing'[q] \subseteq listing[q]
        BY <1>2 DEF RInv, RotationTyped
  <2>5. RotationTyped'
        BY <1>2, <2>2, <2>3, <2>4 DEF RInv, RotationTyped
  <2>6. \A n \in Nat : n >= o => Newer(n) \subseteq Names'
        BY <2>1, <2>2 DEF Newer, RInv, RotationTyped
  <2>7. GoneIsOld'
    <3> SUFFICES ASSUME NEW q \in Procs, NEW n \in listing'[q] \ Names'
                 PROVE  Cardinality(Newer(n)') >= KEEP_BACKUPS
        BY DEF GoneIsOld
    <3>1. n \in listing[q] /\ n \in Nat
          BY <2>4
    <3>2. CASE n >= o
      <4>1. Cardinality(Newer(n)) >= KEEP_BACKUPS
            BY <2>1, <2>2, <3>1 DEF RInv, GoneIsOld
      <4> QED BY <2>5, <2>6, <3>1, <3>2, <4>1, MoreNames DEF RInv
    <3>3. CASE n < o
      <4>1. Newer(o) \subseteq Newer(n)'
        <5>1. n \in Nat /\ o \in Nat /\ n < o /\ Names \subseteq Nat
              BY <2>1, <3>1, <3>3 DEF RInv, RotationTyped
        <5>2. \A m \in Names : m > o => m \in Names' /\ m > n
              BY <5>1, <2>2
        <5> QED BY <5>2 DEF Newer
      <4>2. IsFiniteSet(Newer(n)')
            BY <2>5, FS_Subset DEF RotationTyped, Newer
      <4>3. Cardinality(Newer(o)) <= Cardinality(Newer(n)') /\ Cardinality(Newer(n)') \in Nat
            BY <4>1, <4>2, FS_Subset, FS_CardinalityType
      <4>4. Cardinality(Newer(o)) \in Nat
            BY NewerIsFinite DEF RInv
      <4> QED BY <2>1, <4>3, <4>4, StoreAssumption
    <3> QED BY <2>1, <3>1, <3>2, <3>3
  <2> QED BY <2>5, <2>7 DEF RInv
<1> QED BY <1>1, <1>2 DEF Rotate

LEMMA StepKeepsRotation == RInv /\ [Next]_vars => RInv'
<1> SUFFICES ASSUME RInv, [Next]_vars PROVE RInv'
    OBVIOUS
<1>1. ASSUME NEW p \in Procs, Save(p) \/ Crash(p) PROVE RInv'
      BY <1>1, SaveRotation, LinkRotation, RotateRotation DEF Save
<1>2. CASE UNCHANGED vars
      BY <1>2 DEF vars, procVars, RInv, RotationTyped, GoneIsOld, Newer, Names
<1> QED BY <1>1, <1>2 DEF Next

\* A backup that is there stays as it is until rotation takes it, from a listing
\* however stale, and then KEEP_BACKUPS newer ones are there (save_backup).
THEOREM OnlyOldBackupsGo == Spec => OnlyTheOldestGo
<1>1. RInv /\ [Next]_vars =>
        \A n \in Names :
          IF n \in DOMAIN backups' THEN backups'[n] = backups[n]
          ELSE Cardinality({m \in Names : m > n}) >= KEEP_BACKUPS
  <2> SUFFICES ASSUME RInv, [Next]_vars, NEW n \in Names
               PROVE  IF n \in DOMAIN backups' THEN backups'[n] = backups[n]
                      ELSE Cardinality(Newer(n)) >= KEEP_BACKUPS
      BY DEF Newer
  <2>1. CASE UNCHANGED backups
        BY <2>1 DEF Names
  <2>2. ASSUME NEW p \in Procs, slot[p] \notin Names, backups' = With(backups, slot[p], Published(p))
        PROVE  n \in DOMAIN backups' /\ backups'[n] = backups[n]
        BY <2>2 DEF With, Names
  <2>3. ASSUME NEW p \in Procs, Cardinality(listing[p]) > KEEP_BACKUPS,
               backups' = Without(backups, Oldest(listing[p]))
        PROVE  IF n \in DOMAIN backups' THEN backups'[n] = backups[n]
               ELSE Cardinality(Newer(n)) >= KEEP_BACKUPS
    <3>1. Cardinality(Newer(Oldest(listing[p]))) >= KEEP_BACKUPS
          BY <2>3, RemovesOldest
    <3> QED BY <2>3, <3>1 DEF Without, Names
  <2>4. ASSUME NEW p \in Procs, Save(p) \/ Crash(p)
        PROVE  IF n \in DOMAIN backups' THEN backups'[n] = backups[n]
               ELSE Cardinality(Newer(n)) >= KEEP_BACKUPS
    <3>1. CASE Link(p)
          BY <2>1, <2>2, <3>1 DEF Link
    <3>2. CASE Rotate(p)
          BY <2>1, <2>3, <3>2 DEF Rotate
    <3>3. CASE ~Link(p) /\ ~Rotate(p)
          BY <2>1, <2>4, <3>3 DEF Save, CreateTemp, WriteTemp, ReadClock, LinkFails, RemoveTemp, List,
                                  Stat, Finish, Crash
    <3> QED BY <3>1, <3>2, <3>3
  <2>5. CASE UNCHANGED vars
        BY <2>1, <2>5 DEF vars
  <2> QED BY <2>4, <2>5 DEF Next
<1> QED BY <1>1, InitRotation, StepKeepsRotation, PTL DEF Spec, OnlyTheOldestGo

-----------------------------------------------------------------------------
(* A save that has the directory to itself.                                *)

Waiting == {p \in Procs : Unpublished(p)}

SavesTyped ==
  /\ saves \in Nat /\ clock \in Nat
  /\ pc \in [Procs -> Stages] /\ DOMAIN text = Procs /\ DOMAIN alone = Procs
  /\ DOMAIN outcome = Procs /\ slot \in [Procs -> Nat]
  /\ Names \subseteq Nat /\ listing \in [Procs -> SUBSET Nat]
  /\ IsFiniteSet(Waiting) /\ Cardinality(Waiting) <= saves

\* A name is ahead of the clock by less than the saves that have been published.
NamesNearClock ==
  /\ \A n \in Names : n + Cardinality(Waiting) < clock + saves
  /\ \A p \in Procs : pc[p] = "link" => slot[p] + Cardinality(Waiting) <= clock + saves

Alone(p) == alone[p] /\ pc[p] # "idle"

AloneMeansAlone == \A p \in Procs : Alone(p) => \A q \in Procs \ {p} : pc[q] = "idle"

\* Its name is above every other from the moment it has read the clock, and is
\* published from the link to the end.
AloneIsNewest ==
  \A p \in Procs : Alone(p) =>
    /\ pc[p] = "link" => \A n \in Names : n < slot[p]
    /\ pc[p] \in {"unlink", "list", "stat", "rotate"} =>
         /\ slot[p] \in Names /\ backups[slot[p]].text = text[p]
         /\ \A n \in Names : n <= slot[p]
    /\ pc[p] \in {"stat", "rotate"} =>
         slot[p] \in listing[p] /\ \A n \in listing[p] : n <= slot[p]

SInv == SavesTyped /\ NamesNearClock /\ AloneMeansAlone /\ AloneIsNewest

LEMMA InitSaves == Init => SInv
<1> SUFFICES ASSUME Init PROVE SInv
    OBVIOUS
<1>1. /\ saves = 0 /\ clock = 0 /\ pc = [p \in Procs |-> "idle"] /\ text = [p \in Procs |-> 0]
      /\ alone = [p \in Procs |-> TRUE] /\ outcome = [p \in Procs |-> "none"]
      /\ slot = [p \in Procs |-> 0] /\ listing = [p \in Procs |-> {}] /\ Names = {}
      BY DEF Init, Names
<1>2. Waiting = {} /\ IsFiniteSet({}) /\ Cardinality({}) = 0
      BY <1>1, FS_EmptySet DEF Waiting, Unpublished
<1>3. SavesTyped
      BY <1>1, <1>2 DEF SavesTyped, Stages
<1>4. NamesNearClock /\ AloneMeansAlone /\ AloneIsNewest
      BY <1>1 DEF NamesNearClock, AloneMeansAlone, AloneIsNewest, Alone
<1> QED BY <1>3, <1>4 DEF SInv

\* A process that goes to another stage waits as before or no longer.
LEMMA WaitingAfter ==
  ASSUME SavesTyped, NEW p \in Procs, NEW l \in Stages, pc[p] # "idle", pc' = [pc EXCEPT ![p] = l],
         l \in {"write", "stamp", "link"} => Unpublished(p)
  PROVE  /\ IsFiniteSet(Waiting') /\ Cardinality(Waiting) \in Nat /\ Cardinality(Waiting') \in Nat
         /\ Cardinality(Waiting') <= Cardinality(Waiting)
         /\ Unpublished(p) /\ l \notin {"write", "stamp", "link"} => Cardinality(Waiting') + 1 = Cardinality(Waiting)
<1>1. \A q \in Procs : pc'[q] = IF q = p THEN l ELSE pc[q]
      BY DEF SavesTyped
<1>2. Waiting' \subseteq Waiting
      BY <1>1 DEF Waiting, Unpublished
<1>3. IsFiniteSet(Waiting)
      BY DEF SavesTyped
<1>4. IsFiniteSet(Waiting') /\ Cardinality(Waiting') <= Cardinality(Waiting)
      BY <1>2, <1>3, FS_Subset
<1>5. Cardinality(Waiting) \in Nat /\ Cardinality(Waiting') \in Nat
      BY <1>3, <1>4, FS_CardinalityType
<1>6. ASSUME Unpublished(p), l \notin {"write", "stamp", "link"}
      PROVE  Cardinality(Waiting') + 1 = Cardinality(Waiting)
  <2>1. Waiting' = Waiting \ {p} /\ p \in Waiting
        BY <1>1, <1>6 DEF Waiting, Unpublished
  <2>2. Cardinality(Waiting \ {p}) = Cardinality(Waiting) - 1
        BY <1>3, <2>1, FS_RemoveElement
  <2> QED BY <1>5, <2>1, <2>2
<1> QED BY <1>4, <1>5, <1>6

\* A process that is at work is alone only if no other is.
LEMMA OnlyItself ==
  ASSUME SInv, NEW p \in Procs, NEW l \in Stages, pc[p] # "idle", pc' = [pc EXCEPT ![p] = l],
         alone' = alone
  PROVE  /\ AloneMeansAlone'
         /\ \A q \in Procs : Alone(q)' => q = p /\ Alone(p) /\ l # "idle"
<1>1. \A q \in Procs : pc'[q] = IF q = p THEN l ELSE pc[q]
      BY DEF SInv, SavesTyped
<1>2. \A q \in Procs : Alone(q)' => q = p /\ Alone(p) /\ l # "idle"
      BY <1>1 DEF SInv, AloneMeansAlone, Alone
<1>3. AloneMeansAlone'
      BY <1>1, <1>2 DEF SInv, AloneMeansAlone
<1> QED BY <1>2, <1>3

\* A process that ends, or goes on without a new name.
LEMMA SavesGoOn ==
  ASSUME SInv, NEW p \in Procs, NEW l \in Stages, pc[p] # "idle", pc' = [pc EXCEPT ![p] = l],
         l \in {"write", "stamp", "link"} => Unpublished(p),
         l = "link" => slot'[p] + Cardinality(Waiting) <= clock' + saves,
         clock' \in Nat, clock' >= clock, UNCHANGED <<alone, saves>>,
         DOMAIN text' = Procs, DOMAIN outcome' = Procs,
         slot' \in [Procs -> Nat], \A q \in Procs \ {p} : slot'[q] = slot[q],
         Names' \subseteq Names, listing' \in [Procs -> SUBSET Nat]
  PROVE  /\ SavesTyped' /\ NamesNearClock' /\ AloneMeansAlone'
         /\ \A q \in Procs : Alone(q)' => q = p /\ Alone(p) /\ l # "idle"
<1>1. /\ IsFiniteSet(Waiting') /\ Cardinality(Waiting) \in Nat /\ Cardinality(Waiting') \in Nat
      /\ Cardinality(Waiting') <= Cardinality(Waiting)
      BY WaitingAfter DEF SInv
<1>2. pc' \in [Procs -> Stages] /\ \A q \in Procs : pc'[q] = IF q = p THEN l ELSE pc[q]
      BY DEF SInv, SavesTyped
<1>3. SavesTyped'
      BY <1>1, <1>2 DEF SInv, SavesTyped
<1>4. ASSUME NEW n \in Names' PROVE n + Cardinality(Waiting)' < clock' + saves'
  <2>1. n + Cardinality(Waiting) < clock + saves /\ n \in Nat /\ saves \in Nat /\ clock \in Nat
        BY DEF SInv, SavesTyped, NamesNearClock
  <2> QED BY <1>1, <2>1
<1>5. ASSUME NEW q \in Procs, pc'[q] = "link"
      PROVE  slot'[q] + Cardinality(Waiting)' <= clock' + saves'
  <2>1. slot'[q] + Cardinality(Waiting) <= clock' + saves
    <3>1. CASE q = p
          BY <1>2, <1>5, <3>1
    <3>2. CASE q # p
      <4>1. slot[q] + Cardinality(Waiting) <= clock + saves /\ slot'[q] = slot[q]
            BY <1>2, <1>5, <3>2 DEF SInv, NamesNearClock
      <4>2. slot[q] \in Nat /\ saves \in Nat /\ clock \in Nat
            BY DEF SInv, SavesTyped
      <4> QED BY <1>1, <4>1, <4>2
    <3> QED BY <3>1, <3>2
  <2>2. slot'[q] \in Nat /\ saves \in Nat /\ clock' \in Nat
        BY DEF SInv, SavesTyped
  <2> QED BY <1>1, <2>1, <2>2
<1>6. NamesNearClock'
      BY <1>4, <1>5 DEF NamesNearClock
<1> QED BY <1>3, <1>6, OnlyItself

LEMMA EndSaves ==
  ASSUME SInv, NEW p \in Procs, pc[p] # "idle", NEW how, End(p, how),
         UNCHANGED <<backups, clock, alone, saves>>
  PROVE  SInv'
<1>1. /\ pc' = [pc EXCEPT ![p] = "idle"] /\ DOMAIN text' = Procs /\ DOMAIN outcome' = Procs
      /\ slot' \in [Procs -> Nat] /\ listing' \in [Procs -> SUBSET Nat]
      /\ \A q \in Procs \ {p} : slot'[q] = slot[q]
      BY DEF End, Goto, SInv, SavesTyped
<1>2. Names' \subseteq Names /\ clock' \in Nat /\ clock' >= clock
      BY DEF Names, SInv, SavesTyped
<1>3. /\ SavesTyped' /\ NamesNearClock' /\ AloneMeansAlone'
      /\ \A q \in Procs : Alone(q)' => q = p /\ Alone(p) /\ "idle" # "idle"
      BY <1>1, <1>2, SavesGoOn DEF Stages
<1>4. AloneIsNewest'
      BY <1>3 DEF AloneIsNewest
<1> QED BY <1>3, <1>4 DEF SInv

\* A save begins: alone if it is, and nobody else any more.
LEMMA CreateTempSaves == ASSUME SInv, NEW p \in Procs, CreateTemp(p) PROVE SInv'
<1>1. /\ pc[p] = "idle" /\ pc' = [pc EXCEPT ![p] = "write"] /\ saves' = saves + 1
      /\ text' = [text EXCEPT ![p] = saves + 1]
      /\ alone' = [q \in Procs |-> IF q = p THEN Saving = {} ELSE FALSE]
      /\ DOMAIN outcome' = Procs /\ UNCHANGED <<backups, clock, slot, listing>>
      BY DEF CreateTemp, Goto, SInv, SavesTyped
<1>2. /\ pc' \in [Procs -> Stages]
      /\ \A q \in Procs : pc'[q] = IF q = p THEN "write" ELSE pc[q]
      BY <1>1 DEF SInv, SavesTyped, Stages
<1>3. Waiting' = Waiting \cup {p} /\ p \notin Waiting /\ IsFiniteSet(Waiting)
      BY <1>1, <1>2 DEF Waiting, Unpublished, SInv, SavesTyped
<1>4. IsFiniteSet(Waiting') /\ Cardinality(Waiting') = Cardinality(Waiting) + 1
      BY <1>3, FS_AddElement
<1>5. Cardinality(Waiting) \in Nat
      BY <1>3, FS_CardinalityType
<1>6. saves \in Nat /\ clock \in Nat /\ Names' = Names /\ Names \subseteq Nat /\ slot \in [Procs -> Nat]
      BY <1>1 DEF SInv, SavesTyped, Names
<1>7. SavesTyped'
      BY <1>1, <1>2, <1>4, <1>5, <1>6 DEF SInv, SavesTyped
<1>8. NamesNearClock'
  <2>1. \A n \in Names : n + Cardinality(Waiting) < clock + saves
        BY DEF SInv, NamesNearClock
  <2>2. \A q \in Procs : pc[q] = "link" => slot[q] + Cardinality(Waiting) <= clock + saves
        BY DEF SInv, NamesNearClock
  <2>3. \A n \in Names : n \in Nat
        BY <1>6
  <2>4. \A n \in Names' : n + Cardinality(Waiting') < clock + saves'
        BY <1>1, <1>4, <1>5, <1>6, <2>1, <2>3
  <2>5. \A q \in Procs : pc'[q] = "link" => slot[q] + Cardinality(Waiting') <= clock + saves'
    <3> TAKE q \in Procs
    <3> HAVE pc'[q] = "link"
    <3>1. slot[q] + Cardinality(Waiting) <= clock + saves /\ slot[q] \in Nat
          BY <1>2, <1>6, <2>2
    <3> QED BY <1>1, <1>4, <1>5, <1>6, <3>1
  <2> QED BY <1>1, <2>4, <2>5 DEF NamesNearClock
<1>9. ASSUME NEW q \in Procs, Alone(q)' PROVE q = p /\ Saving = {}
      BY <1>1, <1>9 DEF Alone
<1>10. AloneMeansAlone'
       BY <1>2, <1>9 DEF AloneMeansAlone, Saving
<1>11. AloneIsNewest'
       BY <1>2, <1>9 DEF AloneIsNewest
<1> QED BY <1>7, <1>8, <1>10, <1>11 DEF SInv

\* Within the save: what AloneIsNewest says is left of p alone to show.
LEMMA AloneFollows ==
  ASSUME SInv, NEW p \in Procs, NEW l \in Stages,
         \A q \in Procs : Alone(q)' => q = p /\ Alone(p) /\ l # "idle",
         pc'[p] = l,
         Alone(p) =>
           /\ l = "link" => \A n \in Names' : n < slot'[p]
           /\ l \in {"unlink", "list", "stat", "rotate"} =>
                /\ slot'[p] \in Names' /\ backups'[slot'[p]].text = text'[p]
                /\ \A n \in Names' : n <= slot'[p]
           /\ l \in {"stat", "rotate"} =>
                slot'[p] \in listing'[p] /\ \A n \in listing'[p] : n <= slot'[p]
  PROVE  AloneIsNewest'
BY DEF AloneIsNewest, Alone

\* What AloneIsNewest says of p.
LEMMA NewestOf ==
  ASSUME SInv, NEW p \in Procs, Alone(p)
  PROVE  /\ pc[p] = "link" => \A n \in Names : n < slot[p]
         /\ pc[p] \in {"unlink", "list", "stat", "rotate"} =>
              /\ slot[p] \in Names /\ backups[slot[p]].text = text[p]
              /\ \A n \in Names : n <= slot[p]
         /\ pc[p] \in {"stat", "rotate"} =>
              slot[p] \in listing[p] /\ \A n \in listing[p] : n <= slot[p]
BY DEF SInv, AloneIsNewest

LEMMA WriteTempSaves == ASSUME SInv, NEW p \in Procs, WriteTemp(p) PROVE SInv'
<1>1. CASE End(p, "error")
      BY <1>1, EndSaves DEF WriteTemp
<1>2. CASE Goto(p, "stamp") /\ UNCHANGED <<text, slot, listing, outcome>>
  <2>1. /\ pc[p] = "write" /\ pc' = [pc EXCEPT ![p] = "stamp"]
        /\ UNCHANGED <<text, slot, listing, outcome, backups, clock, alone, saves>>
        BY <1>2 DEF WriteTemp, Goto
  <2>2. Names' = Names /\ Unpublished(p)
        BY <2>1 DEF Names, Unpublished
  <2>3. /\ SavesTyped' /\ NamesNearClock' /\ AloneMeansAlone'
        /\ \A q \in Procs : Alone(q)' => q = p /\ Alone(p) /\ "stamp" # "idle"
    <3>1. /\ clock' \in Nat /\ clock' >= clock /\ slot' \in [Procs -> Nat] /\ slot' = slot
          /\ DOMAIN text' = Procs /\ DOMAIN outcome' = Procs /\ listing' \in [Procs -> SUBSET Nat]
          BY <2>1 DEF SInv, SavesTyped
    <3> QED BY <2>1, <2>2, <3>1, SavesGoOn DEF Stages
  <2>4. pc'[p] = "stamp"
        BY <2>1 DEF SInv, SavesTyped
  <2>5. AloneIsNewest'
        BY <2>3, <2>4, AloneFollows DEF Stages
  <2> QED BY <2>3, <2>5 DEF SInv
<1> QED BY <1>1, <1>2 DEF WriteTemp

\* A steady clock: the names there are below the reading of a save that is alone.
LEMMA ReadClockSaves == ASSUME SteadyClock, SInv, NEW p \in Procs, ReadClock(p) PROVE SInv'
<1>1. CASE End(p, "error") /\ UNCHANGED clock
      BY <1>1, EndSaves DEF ReadClock
<1>2. CASE \E t \in ClockReadings :
             /\ SteadyClock => t >= clock + (IF alone[p] THEN saves - 1 ELSE 0)
             /\ clock' = t /\ slot' = [slot EXCEPT ![p] = t] /\ Goto(p, "link")
             /\ UNCHANGED <<temps, text, listing, outcome>>
  <2>1. PICK t \in ClockReadings :
             /\ t >= clock + (IF alone[p] THEN saves - 1 ELSE 0)
             /\ clock' = t /\ slot' = [slot EXCEPT ![p] = t] /\ Goto(p, "link")
             /\ UNCHANGED <<text, listing, outcome>>
        BY <1>2
  <2>2. /\ pc[p] = "stamp" /\ pc' = [pc EXCEPT ![p] = "link"]
        /\ UNCHANGED <<backups, alone, saves>>
        BY <2>1 DEF ReadClock, Goto
  <2>3. Names' = Names /\ Unpublished(p) /\ t \in Nat /\ clock \in Nat /\ saves \in Nat
        BY <2>2, StoreAssumption DEF Names, Unpublished, SInv, SavesTyped
  <2>4. Cardinality(Waiting) \in Nat /\ Cardinality(Waiting) <= saves
        BY FS_CardinalityType DEF SInv, SavesTyped
  <2>5. p \in Waiting /\ Cardinality(Waiting) # 0
    <3>1. p \in Waiting
          BY <2>3 DEF Waiting
    <3>2. IsFiniteSet(Waiting)
          BY DEF SInv, SavesTyped
    <3> QED BY <3>1, <3>2, FS_EmptySet
  <2>6. t >= clock
    <3>1. CASE alone[p]
      <4>1. t >= clock + (saves - 1) /\ saves >= 1
            BY <2>1, <2>3, <2>4, <2>5, <3>1
      <4> QED BY <2>3, <4>1
    <3>2. CASE ~alone[p]
          BY <2>1, <2>3, <3>2
    <3> QED BY <3>1, <3>2
  <2>7. slot'[p] = t /\ slot' \in [Procs -> Nat] /\ \A q \in Procs \ {p} : slot'[q] = slot[q]
        BY <2>1, <2>3 DEF SInv, SavesTyped
  <2>8. slot'[p] + Cardinality(Waiting) <= clock' + saves
        BY <2>1, <2>3, <2>4, <2>7
  <2>9. /\ DOMAIN text' = Procs /\ DOMAIN outcome' = Procs /\ listing' \in [Procs -> SUBSET Nat]
        /\ clock' \in Nat /\ clock' >= clock
        BY <2>1, <2>3, <2>6 DEF SInv, SavesTyped
  <2>10. /\ SavesTyped' /\ NamesNearClock' /\ AloneMeansAlone'
         /\ \A q \in Procs : Alone(q)' => q = p /\ Alone(p) /\ "link" # "idle"
         BY <2>2, <2>3, <2>7, <2>8, <2>9, SavesGoOn DEF Stages
  <2>11. pc'[p] = "link"
         BY <2>2 DEF SInv, SavesTyped
  <2>12. ASSUME Alone(p), NEW n \in Names PROVE n < t
    <3>1. n + Cardinality(Waiting) < clock + saves /\ n \in Nat
          BY DEF SInv, NamesNearClock, SavesTyped
    <3>2. t >= clock + (saves - 1)
          BY <2>1, <2>12 DEF Alone
    <3> QED BY <2>3, <2>4, <2>5, <3>1, <3>2
  <2>13. AloneIsNewest'
         BY <2>3, <2>7, <2>10, <2>11, <2>12, AloneFollows DEF Stages
  <2> QED BY <2>10, <2>13 DEF SInv
<1> QED BY <1>1, <1>2 DEF ReadClock

\* A save that is alone finds its name free.
LEMMA LinkSaves == ASSUME SInv, NEW p \in Procs, Link(p) PROVE SInv'
<1>1. /\ pc[p] = "link" /\ Unpublished(p)
      /\ UNCHANGED <<clock, text, listing, alone, outcome, saves>>
      BY DEF Link, Unpublished
<1>2. /\ slot \in [Procs -> Nat] /\ clock \in Nat /\ saves \in Nat /\ Names \subseteq Nat
      /\ pc \in [Procs -> Stages] /\ DOMAIN text = Procs /\ DOMAIN outcome = Procs
      /\ listing \in [Procs -> SUBSET Nat]
      /\ slot[p] + Cardinality(Waiting) <= clock + saves
      BY <1>1 DEF SInv, SavesTyped, NamesNearClock
<1>3. CASE /\ slot[p] \notin Names /\ backups' = With(backups, slot[p], Published(p))
           /\ Goto(p, "unlink") /\ UNCHANGED slot
  <2>1. pc' = [pc EXCEPT ![p] = "unlink"] /\ pc'[p] = "unlink"
        BY <1>2, <1>3 DEF Goto
  <2>2. Names' = Names \cup {slot[p]} /\ backups'[slot[p]].text = text[p]
        BY <1>3 DEF With, Names, Published
  <2>3. /\ IsFiniteSet(Waiting') /\ Cardinality(Waiting) \in Nat /\ Cardinality(Waiting') \in Nat
        /\ Cardinality(Waiting') + 1 = Cardinality(Waiting)
        BY <1>1, <2>1, WaitingAfter DEF SInv, Stages
  <2>4. /\ AloneMeansAlone'
        /\ \A q \in Procs : Alone(q)' => q = p /\ Alone(p) /\ "unlink" # "idle"
        BY <1>1, <2>1, OnlyItself DEF Stages
  <2>5. SavesTyped'
    <3>1. Names' \subseteq Nat /\ pc' \in [Procs -> Stages] /\ slot' = slot
          BY <1>2, <1>3, <2>1, <2>2 DEF Stages
    <3>2. Cardinality(Waiting') <= saves
          BY <1>2, <2>3 DEF SInv, SavesTyped
    <3> QED BY <1>1, <2>3, <3>1, <3>2 DEF SInv, SavesTyped
  <2>6. ASSUME NEW n \in Names' PROVE n + Cardinality(Waiting)' < clock' + saves'
    <3>1. CASE n = slot[p]
      <4>1. slot[p] \in Nat
            BY <1>2
      <4> QED BY <1>1, <1>2, <2>3, <3>1, <4>1
    <3>2. CASE n \in Names
      <4>1. n + Cardinality(Waiting) < clock + saves /\ n \in Nat
            BY <1>2, <3>2 DEF SInv, NamesNearClock
      <4> QED BY <1>1, <1>2, <2>3, <4>1
    <3> QED BY <2>2, <3>1, <3>2
  <2>7. ASSUME NEW q \in Procs, pc'[q] = "link"
        PROVE  slot'[q] + Cardinality(Waiting)' <= clock' + saves'
    <3>1. pc[q] = "link" /\ slot'[q] = slot[q] /\ slot[q] \in Nat
          BY <1>2, <1>3, <2>1, <2>7
    <3>2. slot[q] + Cardinality(Waiting) <= clock + saves
          BY <3>1 DEF SInv, NamesNearClock
    <3> QED BY <1>1, <1>2, <2>3, <3>1, <3>2
  <2>8. NamesNearClock'
        BY <2>6, <2>7 DEF NamesNearClock
  <2>9. ASSUME Alone(p)
        PROVE  /\ slot'[p] \in Names' /\ backups'[slot'[p]].text = text'[p]
               /\ \A n \in Names' : n <= slot'[p]
    <3>1. \A n \in Names : n < slot[p] /\ n \in Nat
          BY <1>1, <1>2, <2>9, NewestOf
    <3>2. slot[p] \in Nat
          BY <1>2
    <3> QED BY <1>1, <1>3, <2>2, <3>1, <3>2
  <2>10. AloneIsNewest'
         BY <2>1, <2>4, <2>9, AloneFollows DEF Stages
  <2> QED BY <2>4, <2>5, <2>8, <2>10 DEF SInv
<1>4. CASE slot[p] \in Names /\ slot' = [slot EXCEPT ![p] = @ + 1] /\ UNCHANGED <<backups, pc>>
  <2>1. Names' = Names /\ slot'[p] = slot[p] + 1 /\ slot[p] \in Nat
        BY <1>2, <1>4 DEF Names
  <2>2. slot' \in [Procs -> Nat] /\ \A q \in Procs \ {p} : slot'[q] = slot[q]
        BY <1>2, <1>4
  <2>3. slot[p] + Cardinality(Waiting) < clock + saves
        BY <1>4 DEF SInv, NamesNearClock
  <2>4. Cardinality(Waiting) \in Nat
        BY FS_CardinalityType DEF SInv, SavesTyped
  <2>5. slot'[p] + Cardinality(Waiting) <= clock' + saves
        BY <1>1, <1>2, <2>1, <2>3, <2>4
  <2>6. pc' = [pc EXCEPT ![p] = "link"] /\ pc'[p] = "link"
        BY <1>1, <1>2, <1>4
  <2>7. /\ SavesTyped' /\ NamesNearClock' /\ AloneMeansAlone'
        /\ \A q \in Procs : Alone(q)' => q = p /\ Alone(p) /\ "link" # "idle"
    <3>1. clock' \in Nat /\ clock' >= clock /\ UNCHANGED <<alone, saves>> /\ Names' \subseteq Names
          BY <1>1, <1>2, <2>1
    <3>2. DOMAIN text' = Procs /\ DOMAIN outcome' = Procs /\ listing' \in [Procs -> SUBSET Nat]
          BY <1>1, <1>2
    <3> QED BY <1>1, <2>2, <2>5, <2>6, <3>1, <3>2, SavesGoOn DEF Stages
  <2>8. ~Alone(p)
    <3> SUFFICES ASSUME Alone(p) PROVE FALSE
        OBVIOUS
    <3>1. slot[p] < slot[p]
          BY <1>1, <1>4, NewestOf
    <3> QED BY <2>1, <3>1
  <2>9. AloneIsNewest'
        BY <2>6, <2>7, <2>8, AloneFollows DEF Stages
  <2> QED BY <2>7, <2>9 DEF SInv
<1> QED BY <1>3, <1>4 DEF Link

\* From the link on: the temp file goes, the directory is listed and looked at.
LEMMA AfterLinkSaves ==
  ASSUME SInv, NEW p \in Procs, RemoveTemp(p) \/ List(p) \/ Stat(p) PROVE SInv'
<1>1. CASE End(p, "error")
  <2>1. pc[p] # "idle" /\ UNCHANGED <<backups, clock, alone, saves>>
        BY DEF RemoveTemp, List, Stat
  <2> QED BY <1>1, <2>1, EndSaves
<1>2. ASSUME NEW l \in {"list", "stat", "rotate"}, Goto(p, l),
             UNCHANGED <<backups, clock, text, slot, alone, outcome, saves>>,
             pc[p] \in {"unlink", "list", "stat"},
             listing' \in [Procs -> SUBSET Nat],
             l = "stat" => listing'[p] = Names,
             l = "rotate" => pc[p] = "stat" /\ listing'[p] = listing[p]
      PROVE  SInv'
  <2>1. pc' = [pc EXCEPT ![p] = l] /\ pc'[p] = l /\ l \in Stages /\ pc[p] # "idle"
        BY <1>2 DEF Goto, SInv, SavesTyped, Stages
  <2>2. /\ Names' = Names /\ clock' \in Nat /\ clock' >= clock /\ slot' \in [Procs -> Nat]
        /\ DOMAIN text' = Procs /\ DOMAIN outcome' = Procs /\ slot' = slot
        BY <1>2 DEF Names, SInv, SavesTyped
  <2>3. l \notin {"write", "stamp", "link"}
        BY <1>2
  <2>4. /\ SavesTyped' /\ NamesNearClock' /\ AloneMeansAlone'
        /\ \A q \in Procs : Alone(q)' => q = p /\ Alone(p) /\ l # "idle"
        BY <1>2, <2>1, <2>2, <2>3, SavesGoOn
  <2>5. ASSUME Alone(p)
        PROVE  /\ slot'[p] \in Names' /\ backups'[slot'[p]].text = text'[p]
               /\ \A n \in Names' : n <= slot'[p]
               /\ l \in {"stat", "rotate"} =>
                    slot'[p] \in listing'[p] /\ \A n \in listing'[p] : n <= slot'[p]
        BY <1>2, <2>2, <2>5, NewestOf
  <2>6. AloneIsNewest'
        BY <2>1, <2>3, <2>4, <2>5, AloneFollows
  <2> QED BY <2>4, <2>6 DEF SInv
<1>3. CASE RemoveTemp(p)
  <2>1. /\ Goto(p, "list") /\ pc[p] = "unlink" /\ listing' = listing
        /\ UNCHANGED <<backups, clock, text, slot, alone, outcome, saves>>
        BY <1>3 DEF RemoveTemp
  <2>2. listing' \in [Procs -> SUBSET Nat]
        BY <2>1 DEF SInv, SavesTyped
  <2> QED BY <1>2, <2>1, <2>2
<1>4. CASE List(p)
  <2>1. /\ Goto(p, "stat") /\ pc[p] = "list" /\ listing' = [listing EXCEPT ![p] = Names]
        /\ UNCHANGED <<backups, clock, text, slot, alone, outcome, saves>>
        BY <1>4 DEF List
  <2>2. listing' \in [Procs -> SUBSET Nat] /\ listing'[p] = Names
        BY <2>1 DEF SInv, SavesTyped
  <2> QED BY <1>2, <2>1, <2>2
<1>5. CASE Stat(p) /\ ~End(p, "error")
  <2>1. /\ Goto(p, "rotate") /\ pc[p] = "stat" /\ listing' = listing
        /\ UNCHANGED <<backups, clock, text, slot, alone, outcome, saves>>
        BY <1>5 DEF Stat
  <2>2. listing' \in [Procs -> SUBSET Nat]
        BY <2>1 DEF SInv, SavesTyped
  <2> QED BY <1>2, <2>1, <2>2
<1> QED BY <1>1, <1>3, <1>4, <1>5

\* Rotation takes the oldest of several, and its own is the newest.
LEMMA RotateSaves == ASSUME RInv, SInv, NEW p \in Procs, Rotate(p) PROVE SInv'
<1> DEFINE o == Oldest(listing[p])
<1>1. CASE End(p, "error") /\ UNCHANGED backups
  <2>1. pc[p] # "idle" /\ UNCHANGED <<clock, alone, saves>>
        BY DEF Rotate
  <2> QED BY <1>1, <2>1, EndSaves
<1>2. CASE /\ o \in Names /\ backups' = Without(backups, o)
           /\ listing' = [listing EXCEPT ![p] = @ \ {o}] /\ UNCHANGED <<pc, text, slot, outcome>>
  <2>1. /\ pc[p] = "rotate" /\ Cardinality(listing[p]) > KEEP_BACKUPS
        /\ UNCHANGED <<clock, alone, saves>>
        BY DEF Rotate
  <2>2. o \in listing[p] /\ o \in Nat /\ \A m \in listing[p] : o <= m
    <3>1. IsFiniteSet(listing[p]) /\ listing[p] \subseteq Nat
          BY DEF RInv, RotationTyped
    <3>2. listing[p] # {}
          BY <2>1, FS_EmptySet, StoreAssumption
    <3> QED BY <3>1, <3>2, LeastOfNats
  <2> HIDE DEF o
  <2>3. Names' = Names \ {o} /\ \A n \in Names' : backups'[n] = backups[n]
        BY <1>2 DEF Without, Names
  <2>4. pc' = [pc EXCEPT ![p] = "rotate"] /\ pc'[p] = "rotate"
        BY <1>2, <2>1 DEF SInv, SavesTyped
  <2>5. listing' \in [Procs -> SUBSET Nat] /\ listing'[p] = listing[p] \ {o}
        BY <1>2 DEF SInv, SavesTyped
  <2>6. /\ SavesTyped' /\ NamesNearClock' /\ AloneMeansAlone'
        /\ \A q \in Procs : Alone(q)' => q = p /\ Alone(p) /\ "rotate" # "idle"
    <3>1. /\ clock' \in Nat /\ clock' >= clock /\ slot' \in [Procs -> Nat] /\ Names' \subseteq Names
          /\ DOMAIN text' = Procs /\ DOMAIN outcome' = Procs /\ slot' = slot
          BY <1>2, <2>1, <2>3 DEF SInv, SavesTyped
    <3> QED BY <2>1, <2>4, <2>5, <3>1, SavesGoOn DEF Stages
  <2>7. ASSUME Alone(p)
        PROVE  /\ slot'[p] \in Names' /\ backups'[slot'[p]].text = text'[p]
               /\ \A n \in Names' : n <= slot'[p]
               /\ slot'[p] \in listing'[p] /\ \A n \in listing'[p] : n <= slot'[p]
    <3>1. /\ slot[p] \in Names /\ backups[slot[p]].text = text[p] /\ \A n \in Names : n <= slot[p]
          /\ slot[p] \in listing[p] /\ \A n \in listing[p] : n <= slot[p]
          BY <2>1, <2>7, NewestOf
    <3>2. o # slot[p]
      <4> SUFFICES ASSUME o = slot[p] PROVE FALSE
          OBVIOUS
      <4>1. \A m \in listing[p] : m \in Nat /\ m <= o /\ o <= m
            BY <2>2, <3>1 DEF RInv, RotationTyped
      <4>2. listing[p] = {o}
            BY <2>2, <4>1
      <4>3. Cardinality(listing[p]) = 1
            BY <4>2, FS_Singleton
      <4> QED BY <2>1, <4>3, StoreAssumption
    <3> QED BY <1>2, <2>3, <2>5, <3>1, <3>2
  <2>8. AloneIsNewest'
        BY <2>4, <2>6, <2>7, AloneFollows DEF Stages
  <2> QED BY <2>6, <2>8 DEF SInv
<1> QED BY <1>1, <1>2 DEF Rotate

LEMMA StepSaves == SteadyClock /\ RInv /\ SInv /\ [Next]_vars => SInv'
<1> SUFFICES ASSUME SteadyClock, RInv, SInv, [Next]_vars PROVE SInv'
    OBVIOUS
<1>1. ASSUME NEW p \in Procs, LinkFails(p) \/ Finish(p) \/ Crash(p) PROVE SInv'
      BY <1>1, EndSaves DEF LinkFails, Finish, Crash
<1>2. ASSUME NEW p \in Procs, Save(p) \/ Crash(p) PROVE SInv'
      BY <1>1, <1>2, CreateTempSaves, WriteTempSaves, ReadClockSaves, LinkSaves, AfterLinkSaves,
         RotateSaves DEF Save
<1>3. CASE UNCHANGED vars
      BY <1>3 DEF vars, procVars, SInv, SavesTyped, NamesNearClock, AloneMeansAlone, AloneIsNewest,
                  Alone, Waiting, Unpublished, Names
<1> QED BY <1>2, <1>3 DEF Next

\* A backup that a command made while no other process was saving is there when
\* the command says so, whatever earlier saves that overlapped have left behind,
\* as long as the clock is steady (save_backup).
THEOREM SavedStaysThere == SteadyClock /\ Spec => SavedIsThere
<1>1. RInv /\ SInv /\ [Next]_vars =>
        \A p \in Procs :
          outcome[p] = "none" /\ outcome'[p] = "saved" /\ alone[p] =>
            \E n \in DOMAIN backups' : backups'[n].text = text[p]
  <2> SUFFICES ASSUME RInv, SInv, [Next]_vars, NEW p \in Procs,
                      outcome[p] = "none", outcome'[p] = "saved", alone[p]
               PROVE  \E n \in DOMAIN backups' : backups'[n].text = text[p]
      OBVIOUS
  <2>1. ASSUME NEW q \in Procs, Save(q) \/ Crash(q) PROVE q = p /\ Finish(q)
    <3>1. ASSUME outcome'[q] = "saved", outcome' # outcome PROVE Finish(q)
      <4>1. \A how : how # "saved" => ~End(q, how)
            BY <3>1 DEF End, SInv, SavesTyped
      <4> QED BY <2>1, <3>1, <4>1 DEF Save, CreateTemp, WriteTemp, ReadClock, Link, LinkFails,
                 RemoveTemp, List, Stat, Rotate, Crash, SInv, SavesTyped
    <3>2. \A r \in Procs \ {q} : outcome'[r] = outcome[r]
          BY <2>1 DEF Save, CreateTemp, WriteTemp, ReadClock, Link, LinkFails,
             RemoveTemp, List, Stat, Rotate, Finish, Crash, End, SInv, SavesTyped
    <3> QED BY <3>1, <3>2
  <2>2. Finish(p)
    <3>1. outcome' # outcome
          OBVIOUS
    <3> QED BY <2>1, <3>1 DEF Next, vars, procVars
  <2>3. pc[p] = "rotate" /\ backups' = backups
        BY <2>2 DEF Finish
  <2>4. slot[p] \in Names /\ backups[slot[p]].text = text[p]
        BY <2>3, NewestOf DEF Alone
  <2> QED BY <2>3, <2>4 DEF Names
<1>2. ASSUME SteadyClock PROVE Spec => SavedIsThere
  <2>1. RInv /\ SInv /\ [Next]_vars => SInv'
        BY <1>2, StepSaves
  <2> QED BY <1>1, <2>1, InitRotation, StepKeepsRotation, InitSaves, PTL DEF Spec, SavedIsThere
<1> QED BY <1>2
-----------------------------------------------------------------------------
(* The groups: commands that overlap keep each other's.                    *)

\* g has what nobody named as it was before any command.
Keeps(g) ==
  \A n \in (DOMAIN first \cup DOMAIN g) \ named :
    n \in DOMAIN first \cap DOMAIN g /\ g[n] = first[n]

\* Every process is at a command whose names are among those named, and what it
\* has made of the groups keeps the others, whenever it read them: a change of
\* another process since then was of a name that has been named.
ChangesKeep ==
  /\ DOMAIN stage = Editors
  /\ cmd = [p \in Editors |-> cmd[p]] /\ held = [p \in Editors |-> held[p]]
  /\ \A p \in Editors :
       /\ stage[p] # "idle" => cmd[p] \in Commands /\ NamesOf(cmd[p]) \subseteq named
       /\ stage[p] = "publish" => Keeps(held[p])

GInv == ChangesKeep /\ Keeps(Stored)

\* A command changes groups of the names it is given only.
LEMMA ChangeKeeps ==
  ASSUME NEW c, NEW keys, NEW g, c.op \in {"group", "ungroup", "rename"},
         NamesOf(c) \subseteq named, Keeps(g)
  PROVE  Keeps(Change(c, keys, g))
<1>1. CASE c.op = "group"
      BY <1>1 DEF Change, Keeps, NamesOf, InsertGroup
<1>2. CASE c.op = "ungroup"
      BY <1>2 DEF Change, Keeps, NamesOf, RemoveGroup, Restrict
<1>3. CASE c.op = "rename"
      BY <1>3 DEF Change, Keeps, NamesOf, InsertGroup, RemoveGroup, Restrict
<1> QED BY <1>1, <1>2, <1>3

\* A step of p that does not touch the files, and leaves p at a command whose
\* names are named and, if it is about to write, with groups that keep the others.
LEMMA OffTheFiles ==
  ASSUME GInv, NEW p \in Editors, UNCHANGED <<json, toml, first>>, named \subseteq named',
         NEW s, NEW c, NEW g,
         stage' = [stage EXCEPT ![p] = s], cmd' = [cmd EXCEPT ![p] = c], held' = [held EXCEPT ![p] = g],
         s # "idle" => c \in Commands /\ NamesOf(c) \subseteq named',
         s = "publish" => Keeps(g)
  PROVE  GInv'
<1>1. Keeps(Stored)'
  <2>1. Keeps(Stored)
        BY DEF GInv
  <2>2. UNCHANGED Stored
        BY DEF Stored
  <2> QED BY <2>1, <2>2 DEF Keeps
<1>2. s = "publish" => Keeps(g)'
      BY DEF Keeps
<1>3. ASSUME NEW q \in Editors \ {p}, stage[q] = "publish" PROVE Keeps(held[q])'
      BY <1>3 DEF GInv, ChangesKeep, Keeps
<1>4. DOMAIN stage' = Editors /\ stage'[p] = s /\ cmd'[p] = c /\ held'[p] = g
      BY DEF GInv, ChangesKeep
<1>5. \A q \in Editors \ {p} : stage'[q] = stage[q] /\ cmd'[q] = cmd[q] /\ held'[q] = held[q]
      BY DEF GInv, ChangesKeep
<1>6. cmd' = [q \in Editors |-> cmd'[q]] /\ held' = [q \in Editors |-> held'[q]]
      BY DEF GInv, ChangesKeep
<1>7. ASSUME NEW q \in Editors
      PROVE  /\ stage'[q] # "idle" => cmd'[q] \in Commands /\ NamesOf(cmd'[q]) \subseteq named'
             /\ stage'[q] = "publish" => Keeps(held[q])'
  <2>1. CASE q = p
        BY <2>1, <1>2, <1>4 DEF Keeps
  <2>2. CASE q # p
        BY <2>2, <1>3, <1>5 DEF GInv, ChangesKeep
  <2> QED BY <2>1, <2>2
<1>8. ChangesKeep'
  <2> HIDE DEF NamesOf, Keeps
  <2> QED BY <1>4, <1>6, <1>7 DEF ChangesKeep
<1> QED BY <1>1, <1>8 DEF GInv

LEMMA GroupsInitKeeps == GroupsInit => GInv
BY DEF GroupsInit, GInv, ChangesKeep, Keeps

LEMMA GroupsStepKeeps == GInv /\ [GroupsNext]_groupsVars => GInv'
<1> SUFFICES ASSUME GInv, [GroupsNext]_groupsVars PROVE GInv'
    OBVIOUS
<1> USE DEF GoTo
<1>1. ASSUME NEW p \in Editors, NEW c \in Commands, Begin(p, c) PROVE GInv'
  <2>1. held' = [held EXCEPT ![p] = held[p]]
        BY <1>1 DEF Begin, GInv, ChangesKeep
  <2> QED BY <1>1, <2>1, OffTheFiles DEF Begin
<1>2. ASSUME NEW p \in Editors, NEW how, EndCommand(p, how), UNCHANGED <<json, toml, first, named>>
      PROVE  GInv'
      BY <1>2, OffTheFiles DEF EndCommand
<1>3. ASSUME NEW p \in Editors, NEW s, stage[p] # "idle", s # "publish", GoTo(p, s),
             UNCHANGED <<json, toml, first, named, cmd, held>>
      PROVE  GInv'
  <2>1. cmd' = [cmd EXCEPT ![p] = cmd[p]] /\ held' = [held EXCEPT ![p] = held[p]]
        BY <1>3 DEF GInv, ChangesKeep
  <2> QED BY <1>3, <2>1, OffTheFiles DEF GInv, ChangesKeep
<1>4. ASSUME NEW p \in Editors, CheckName(p) \/ ResolveMembers(p) PROVE GInv'
      BY <1>2, <1>3, <1>4 DEF CheckName, ResolveMembers
<1>5. ASSUME NEW p \in Editors, ReadAndChange(p) PROVE GInv'
  <2>1. CASE ~Allowed(cmd[p], Stored)
        BY <1>2, <1>5, <2>1 DEF ReadAndChange
  <2>2. CASE Allowed(cmd[p], Stored)
    <3>1. Keeps(Change(cmd[p], members[p], Stored))
          BY <1>5, ChangeKeeps, GroupsAssumption DEF ReadAndChange, GInv, ChangesKeep
    <3>2. cmd' = [cmd EXCEPT ![p] = cmd[p]]
          BY <1>5, <2>2 DEF ReadAndChange, GInv, ChangesKeep
    <3> QED BY <1>5, <2>2, <3>1, <3>2, OffTheFiles DEF ReadAndChange, GInv, ChangesKeep
  <2> QED BY <2>1, <2>2
<1>6. ASSUME NEW p \in Editors, Publish(p) PROVE GInv'
  <2>1. Stored' = held[p]
        BY <1>6 DEF Publish, Stored, File
  <2>2. Keeps(held[p])
        BY <1>6 DEF Publish, GInv, ChangesKeep
  <2>3. Keeps(Stored)'
        BY <1>6, <2>1, <2>2 DEF Publish, Keeps
  <2>4. ChangesKeep'
        BY <1>6 DEF Publish, EndCommand, GInv, ChangesKeep, Keeps
  <2> QED BY <2>3, <2>4 DEF GInv
<1>7. ASSUME NEW p \in Editors, Die(p) PROVE GInv'
      BY <1>2, <1>7 DEF Die
<1>8. CASE UNCHANGED groupsVars
      BY <1>8 DEF groupsVars, editVars, GInv, ChangesKeep, Keeps, Stored
<1> QED BY <1>1, <1>4, <1>5, <1>6, <1>7, <1>8 DEF GroupsNext

\* However the commands of however many processes overlap, and wherever they are
\* killed, a group that none of them named is as it was (write_groups).
THEOREM OthersAlwaysSurvive == GroupsSpec => []OthersSurvive
<1>1. GInv => OthersSurvive
      BY DEF GInv, Keeps, OthersSurvive
<1> QED BY <1>1, GroupsInitKeeps, GroupsStepKeeps, PTL DEF GroupsSpec

-----------------------------------------------------------------------------
(* The selectors: first, what is picked out of a sequence.                 *)

\* The numbers of S below i.
Lower(S, i) == {j \in S : j < i}

\* The n-th number of a finite set is there for every n up to its size, is every
\* one of them in turn, and grows with n.
LEMMA NthIs ==
  ASSUME NEW N \in Nat, NEW S \in SUBSET (1..N)
  PROVE  /\ Cardinality(S) \in Nat
         /\ \A n \in 1..Cardinality(S) : Nth(S, n) \in S
         /\ \A i \in S : \E n \in 1..Cardinality(S) : Nth(S, n) = i
         /\ \A m, n \in 1..Cardinality(S) : m < n => Nth(S, m) < Nth(S, n)
         /\ \A n \in 1..Cardinality(S) : Cardinality(Lower(S, Nth(S, n))) = n - 1
<1> DEFINE Below(i) == {j \in S : j < i}
           rank == [i \in S |-> Cardinality(Below(i)) + 1]
<1>0. PICK total : total = Cardinality(S)
      OBVIOUS
<1>1. IsFiniteSet(S) /\ total \in Nat /\ S \subseteq Nat
  <2>1. IsFiniteSet(1..N)
        BY FS_Interval
  <2>2. IsFiniteSet(S)
        BY <2>1, FS_Subset
  <2>3. total \in Nat
        BY <1>0, <2>2, FS_CardinalityType
  <2>4. S \subseteq Nat
        OBVIOUS
  <2> QED BY <2>2, <2>3, <2>4
<1>2. \A i \in S : IsFiniteSet(Below(i)) /\ Cardinality(Below(i)) \in Nat
      BY <1>1, FS_Subset, FS_CardinalityType
<1>3. ASSUME NEW i \in S PROVE Cardinality(Below(i)) + 1 <= total
  <2>1. Below(i) \cup {i} \in SUBSET S /\ i \notin Below(i)
        OBVIOUS
  <2>2. Cardinality(Below(i) \cup {i}) = Cardinality(Below(i)) + 1
        BY <1>2, <2>1, FS_AddElement
  <2> HIDE DEF Below
  <2>3. Cardinality(Below(i) \cup {i}) <= Cardinality(S)
        BY <1>1, <2>1, FS_Subset
  <2> QED BY <1>0, <2>2, <2>3
<1>4. ASSUME NEW i \in S, NEW k \in S, i < k PROVE rank[i] < rank[k]
  <2>1. Below(i) \cup {i} \in SUBSET Below(k) /\ i \notin Below(i)
    <3>1. i \in Nat /\ k \in Nat /\ i \in Below(k)
          BY <1>1, <1>4
    <3>2. \A j \in S : j \in Nat
          BY <1>1
    <3>3. \A j \in S : j < i => j < k
          BY <1>4, <3>1, <3>2
    <3>4. \A j \in Below(i) : j \in Below(k)
          BY <3>3
    <3>5. ~(i < i)
          BY <3>1
    <3>6. i \notin Below(i)
          BY <3>5
    <3> HIDE DEF Below
    <3>7. Below(i) \cup {i} \subseteq Below(k)
          BY <3>1, <3>4
    <3> QED BY <3>6, <3>7
  <2>2. Cardinality(Below(i) \cup {i}) = Cardinality(Below(i)) + 1
        BY <1>2, <2>1, FS_AddElement
  <2>3. rank[i] = Cardinality(Below(i)) + 1 /\ rank[k] = Cardinality(Below(k)) + 1
        OBVIOUS
  <2> HIDE DEF Below, rank
  <2>4. Cardinality(Below(i) \cup {i}) <= Cardinality(Below(k))
        BY <1>2, <2>1, FS_Subset
  <2> QED BY <1>2, <2>2, <2>3, <2>4
<1>5. rank \in [S -> 1..total]
      BY <1>1, <1>2, <1>3
<1>6. ASSUME NEW i \in S, NEW k \in S, rank[i] = rank[k] PROVE i = k
  <2>1. rank[i] \in Nat /\ rank[k] \in Nat
        BY <1>5
  <2> HIDE DEF rank
  <2> QED BY <1>4, <1>6, <2>1
<1>7. rank \in Surjection(S, 1..total)
  <2> HIDE DEF rank
  <2>1. rank \in Injection(S, 1..total)
        BY <1>5, <1>6, Fun_IsInj
  <2>2. IsFiniteSet(1..total) /\ Cardinality(1..total) = total
        BY <1>1, FS_Interval
  <2> QED BY <1>0, <2>1, <2>2, FS_Injection
<1>8. ASSUME NEW n \in 1..total
      PROVE  /\ Nth(S, n) \in S /\ rank[Nth(S, n)] = n
             /\ Cardinality(Lower(S, Nth(S, n))) = n - 1
  <2>1. \E i \in S : rank[i] = n
    <3> HIDE DEF rank
    <3>1. \A t \in 1..total : \E i \in S : rank[i] = t
          BY <1>7, Fun_SurjectionProperties
    <3> QED BY <3>1
  <2>2. \E i \in S : Cardinality({j \in S : j < i}) = n - 1
    <3>1. PICK i \in S : rank[i] = n
          BY <2>1
    <3>2. Cardinality(Below(i)) + 1 = n
          BY <3>1
    <3>3. Cardinality(Below(i)) \in Nat
          BY <1>2
    <3>4. Cardinality(Below(i)) = n - 1
      <4> HIDE DEF Below
      <4> QED BY <3>2, <3>3
    <3> QED BY <3>4
  <2>3. Nth(S, n) \in S /\ Cardinality({j \in S : j < Nth(S, n)}) = n - 1
        BY <2>2, Zenon DEF Nth
  <2> QED BY <1>1, <2>3 DEF Lower
<1>9. ASSUME NEW i \in S PROVE \E n \in 1..total : Nth(S, n) = i
  <2>1. rank[i] \in 1..total
        BY <1>5
  <2> HIDE DEF rank
  <2>2. Nth(S, rank[i]) \in S /\ rank[Nth(S, rank[i])] = rank[i]
        BY <1>8, <2>1
  <2> QED BY <1>6, <2>1, <2>2
<1>10. ASSUME NEW m \in 1..total, NEW n \in 1..total, m < n PROVE Nth(S, m) < Nth(S, n)
  <2> HIDE DEF rank
  <2>1. /\ Nth(S, m) \in S /\ rank[Nth(S, m)] = m
        /\ Nth(S, n) \in S /\ rank[Nth(S, n)] = n
        BY <1>8
  <2>2. m \in Nat /\ n \in Nat /\ ~(n < m) /\ m # n
        BY <1>1, <1>10
  <2>3. Nth(S, m) # Nth(S, n) /\ ~(Nth(S, n) < Nth(S, m))
        BY <1>4, <2>1, <2>2
  <2>4. Nth(S, m) \in Nat /\ Nth(S, n) \in Nat
        BY <1>1, <2>1
  <2> QED BY <2>3, <2>4
<1> QED BY <1>0, <1>1, <1>8, <1>9, <1>10

\* s is a sequence, whatever it is a sequence of.
IsSeq(s) == Len(s) \in Nat /\ DOMAIN s = 1..Len(s) /\ s = [i \in 1..Len(s) |-> s[i]]

\* What a sequence holds at some of its positions: that and no more, and in the
\* order of the positions.
LEMMA AtIs ==
  ASSUME NEW s, IsSeq(s), NEW P \in SUBSET DOMAIN s
  PROVE  /\ IsSeq(At(s, P))
         /\ \A n \in DOMAIN At(s, P) : Nth(P, n) \in P /\ At(s, P)[n] = s[Nth(P, n)]
         /\ \A i \in P : \E n \in DOMAIN At(s, P) : Nth(P, n) = i /\ At(s, P)[n] = s[i]
         /\ \A m, n \in DOMAIN At(s, P) : m < n => Nth(P, m) < Nth(P, n)
         /\ ToSet(At(s, P)) = {s[i] : i \in P}
<1>1. Len(s) \in Nat /\ P \in SUBSET (1..Len(s))
      BY DEF IsSeq
<1>2. /\ Cardinality(P) \in Nat
      /\ \A n \in 1..Cardinality(P) : Nth(P, n) \in P
      /\ \A i \in P : \E n \in 1..Cardinality(P) : Nth(P, n) = i
      /\ \A m, n \in 1..Cardinality(P) : m < n => Nth(P, m) < Nth(P, n)
      BY <1>1, NthIs
<1>3. /\ DOMAIN At(s, P) = 1..Cardinality(P)
      /\ \A n \in 1..Cardinality(P) : At(s, P)[n] = s[Nth(P, n)]
      BY DEF At
<1>4. Len(At(s, P)) = Cardinality(P)
      BY <1>2 DEF At
<1>5. IsSeq(At(s, P))
      BY <1>2, <1>3, <1>4 DEF IsSeq, At
<1>6. ToSet(At(s, P)) = {s[i] : i \in P}
      BY <1>2, <1>3 DEF ToSet
<1> QED BY <1>2, <1>3, <1>5, <1>6

LEMMA SeqIsSeq == ASSUME NEW S, NEW s \in Seq(S) PROVE IsSeq(s)
BY LenProperties DEF IsSeq

\* Putting one sequence after another.
LEMMA AfterIs ==
  ASSUME NEW s, NEW t, IsSeq(s), IsSeq(t)
  PROVE  /\ IsSeq(s \o t) /\ Len(s \o t) = Len(s) + Len(t)
         /\ \A n \in 1..Len(s) : (s \o t)[n] = s[n]
         /\ \A n \in Len(s) + 1..Len(s) + Len(t) : (s \o t)[n] = t[n - Len(s)]
         /\ ToSet(s \o t) = ToSet(s) \cup ToSet(t)
<1> DEFINE S == ToSet(s) \cup ToSet(t)
<1>1. s \in Seq(S) /\ t \in Seq(S)
  <2>1. \A i \in 1..Len(s) : s[i] \in S
        BY DEF IsSeq, ToSet
  <2>2. \A i \in 1..Len(t) : t[i] \in S
        BY DEF IsSeq, ToSet
  <2> HIDE DEF S
  <2> QED BY <2>1, <2>2 DEF IsSeq
<1>2. /\ s \o t \in Seq(S) /\ Len(s \o t) = Len(s) + Len(t)
      /\ \A n \in 1..Len(s) + Len(t) : (s \o t)[n] = IF n <= Len(s) THEN s[n] ELSE t[n - Len(s)]
  <2> HIDE DEF S
  <2> QED BY <1>1, ConcatProperties
<1>3. /\ \A n \in 1..Len(s) : (s \o t)[n] = s[n]
      /\ \A n \in Len(s) + 1..Len(s) + Len(t) : (s \o t)[n] = t[n - Len(s)]
      BY <1>2 DEF IsSeq
<1>4. IsSeq(s \o t)
  <2> HIDE DEF S
  <2> QED BY <1>2, SeqIsSeq
<1>5. ToSet(s \o t) = S
  <2>1. DOMAIN (s \o t) = 1..Len(s) + Len(t)
        BY <1>2, <1>4 DEF IsSeq
  <2>2. \A n \in 1..Len(s) + Len(t) : (s \o t)[n] \in S
        BY <1>1, <1>2 DEF IsSeq, ToSet
  <2>3. ASSUME NEW n \in 1..Len(s) PROVE s[n] \in ToSet(s \o t)
        BY <1>3, <2>1 DEF IsSeq, ToSet
  <2>4. ASSUME NEW n \in 1..Len(t) PROVE t[n] \in ToSet(s \o t)
    <3>1. Len(s) + n \in Len(s) + 1..Len(s) + Len(t) /\ (Len(s) + n) - Len(s) = n
          BY DEF IsSeq
    <3>2. (s \o t)[Len(s) + n] = t[n]
          BY <1>3, <3>1
    <3>3. Len(s) + n \in DOMAIN (s \o t)
          BY <2>1, <3>1 DEF IsSeq
    <3> QED BY <3>2, <3>3 DEF ToSet
  <2>5. ToSet(s \o t) \subseteq S
        BY <2>1, <2>2 DEF ToSet
  <2>6. ToSet(s) \subseteq ToSet(s \o t) /\ ToSet(t) \subseteq ToSet(s \o t)
        BY <2>3, <2>4 DEF IsSeq, ToSet
  <2> QED BY <2>5, <2>6
<1> QED BY <1>2, <1>3, <1>4, <1>5

\* What was selected after each of the items: the loop of Resolve, unrolled.
IsRun(f, txt, universe, groups) ==
  f = [i \in 0..Len(txt) |->
         IF i = 0 THEN Found(<<>>) ELSE Take(f[i - 1], txt[i], universe, groups)]

LEMMA RunExists ==
  ASSUME NEW txt, NEW universe, NEW groups, IsSeq(txt)
  PROVE  \E f : IsRun(f, txt, universe, groups)
<1> DEFINE Upto(n) == \E f : f = [i \in 0..n |-> IF i = 0 THEN Found(<<>>)
                                                 ELSE Take(f[i - 1], txt[i], universe, groups)]
<1>1. Upto(0)
  <2>1. [i \in 0..0 |-> Found(<<>>)]
          = [i \in 0..0 |-> IF i = 0 THEN Found(<<>>)
                            ELSE Take([j \in 0..0 |-> Found(<<>>)][i - 1], txt[i], universe, groups)]
        OBVIOUS
  <2> QED BY <2>1, Zenon
<1>2. ASSUME NEW n \in Nat, Upto(n) PROVE Upto(n + 1)
  <2>1. PICK f : f = [i \in 0..n |-> IF i = 0 THEN Found(<<>>)
                                     ELSE Take(f[i - 1], txt[i], universe, groups)]
        BY <1>2
  <2> DEFINE g == [i \in 0..n + 1 |-> IF i = n + 1 THEN Take(f[n], txt[n + 1], universe, groups) ELSE f[i]]
  <2>2. g[0] = Found(<<>>)
        BY <2>1
  <2>3. \A i \in 1..n : g[i] = f[i] /\ g[i - 1] = f[i - 1]
        OBVIOUS
  <2>4. \A i \in 1..n : f[i] = Take(f[i - 1], txt[i], universe, groups)
        BY <2>1
  <2>5. \A i \in 1..n : g[i] = Take(g[i - 1], txt[i], universe, groups)
        BY <2>3, <2>4
  <2>6. g[n + 1] = Take(g[n], txt[n + 1], universe, groups)
        OBVIOUS
  <2>7. \A i \in 0..n + 1 : g[i] = IF i = 0 THEN Found(<<>>) ELSE Take(g[i - 1], txt[i], universe, groups)
    <3>1. \A i \in 0..n + 1 : i = 0 \/ i \in 1..n \/ i = n + 1
          OBVIOUS
    <3>2. (n + 1) - 1 = n /\ n + 1 # 0 /\ \A i \in 1..n : i # 0
          OBVIOUS
    <3> HIDE DEF g
    <3> QED BY <2>2, <2>5, <2>6, <3>1, <3>2
  <2>8. g = [i \in 0..n + 1 |-> g[i]]
        OBVIOUS
  <2> HIDE DEF g
  <2>9. g = [i \in 0..n + 1 |-> IF i = 0 THEN Found(<<>>) ELSE Take(g[i - 1], txt[i], universe, groups)]
        BY <2>7, <2>8
  <2> QED BY <2>9
<1>3. \A n \in Nat : Upto(n)
  <2> HIDE DEF Upto
  <2> DEFINE Stuck == {n \in Nat : ~Upto(n)}
  <2> SUFFICES ASSUME Stuck # {} PROVE FALSE
      OBVIOUS
  <2>1. Oldest(Stuck) \in Stuck /\ \A m \in Stuck : Oldest(Stuck) <= m
        BY LeastOfNats
  <2>2. PICK n \in Nat : ~Upto(n) /\ \A m \in Nat : ~Upto(m) => n <= m
        BY <2>1
  <2>3. n # 0 /\ n - 1 \in Nat /\ ~(n <= n - 1)
        BY <1>1, <2>2
  <2>4. Upto(n - 1) /\ (n - 1) + 1 = n
        BY <2>2, <2>3
  <2> QED BY <1>2, <2>2, <2>3, <2>4
<1> QED BY <1>3 DEF IsSeq, IsRun

LEMMA ResolveIs ==
  ASSUME NEW txt, NEW universe, NEW groups, IsSeq(txt)
  PROVE  \E f : /\ IsRun(f, txt, universe, groups)
                /\ Resolve(txt, universe, groups) =
                     IF ParseErrors(txt) = {} THEN f[Len(txt)]
                     ELSE Fault(ParseItem(txt[Nth(ParseErrors(txt), 1)].body).why)
<1> DEFINE f == CHOOSE sofar : IsRun(sofar, txt, universe, groups)
<1>1. IsRun(f, txt, universe, groups)
      BY RunExists, Zenon
<1>2. Resolve(txt, universe, groups) =
        IF ParseErrors(txt) = {} THEN f[Len(txt)]
        ELSE Fault(ParseItem(txt[Nth(ParseErrors(txt), 1)].body).why)
      BY Zenon DEF Resolve, IsRun
<1> QED BY <1>1, <1>2

-----------------------------------------------------------------------------
(* What an item makes of what was selected.                                *)

\* A position of keys that holds what no position before it holds.
Fresh(keys, i) == i \in DOMAIN keys /\ \A j \in DOMAIN keys : j < i => keys[j] # keys[i]

\* In keys, u is met before v is.
Sooner(keys, u, v) ==
  \E i, j : Fresh(keys, i) /\ Fresh(keys, j) /\ keys[i] = u /\ keys[j] = v /\ i < j

LEMMA ExcludeIs ==
  ASSUME NEW out, NEW keys, IsSeq(out)
  PROVE  /\ IsSeq(Exclude(out, keys))
         /\ ToSet(Exclude(out, keys)) = ToSet(out) \ ToSet(keys)
         /\ \A m, n \in DOMAIN Exclude(out, keys) : m < n =>
              \E i, j \in DOMAIN out : i < j /\ out[i] = Exclude(out, keys)[m] /\ out[j] = Exclude(out, keys)[n]
<1> DEFINE P == {i \in DOMAIN out : out[i] \notin ToSet(keys)}
           left == At(out, P)
<1>1. P \in SUBSET DOMAIN out
      OBVIOUS
<1>2. /\ IsSeq(left)
      /\ \A n \in DOMAIN left : Nth(P, n) \in P /\ left[n] = out[Nth(P, n)]
      /\ \A m, n \in DOMAIN left : m < n => Nth(P, m) < Nth(P, n)
      /\ ToSet(left) = {out[i] : i \in P}
  <2> HIDE DEF P
  <2> QED BY <1>1, AtIs
<1>3. ToSet(left) = ToSet(out) \ ToSet(keys)
  <2>1. ToSet(out) = {out[i] : i \in DOMAIN out}
        BY DEF ToSet
  <2> QED BY <1>2, <2>1
<1>4. Exclude(out, keys) = left
      BY DEF Exclude
<1> HIDE DEF left
<1> QED BY <1>2, <1>3, <1>4

\* The first positions at which a sequence holds what it holds.
LEMMA FreshOnes ==
  ASSUME NEW keys, IsSeq(keys), NEW u \in ToSet(keys)
  PROVE  \E i \in DOMAIN keys : Fresh(keys, i) /\ keys[i] = u
<1> DEFINE S == {i \in DOMAIN keys : keys[i] = u}
<1>1. S # {} /\ S \subseteq Nat
      BY DEF ToSet, IsSeq
<1>2. Oldest(S) \in S /\ \A m \in S : Oldest(S) <= m
      BY <1>1, LeastOfNats
<1>3. \A j \in DOMAIN keys : j < Oldest(S) => keys[j] # u
      BY <1>1, <1>2
<1> QED BY <1>2, <1>3 DEF Fresh

LEMMA IncludeIs ==
  ASSUME NEW out, NEW keys, IsSeq(out), IsSeq(keys)
  PROVE  LET inc == Include(out, keys)
         IN  /\ IsSeq(inc)
             /\ ToSet(inc) = ToSet(out) \cup ToSet(keys)
             /\ \A m, n \in DOMAIN inc : m < n =>
                  \/ m \in DOMAIN out /\ n \in DOMAIN out /\ inc[m] = out[m] /\ inc[n] = out[n]
                  \/ inc[m] \in ToSet(out) /\ inc[n] \in ToSet(keys) \ ToSet(out)
                  \/ inc[m] \in ToSet(keys) \ ToSet(out) /\ inc[n] \in ToSet(keys) \ ToSet(out)
                     /\ Sooner(keys, inc[m], inc[n])
<1> DEFINE P == {i \in DOMAIN keys : keys[i] \notin ToSet(out) /\ Fresh(keys, i)}
           new == At(keys, P)
<1>1. P \in SUBSET DOMAIN keys
      OBVIOUS
<1>2. /\ IsSeq(new)
      /\ \A n \in DOMAIN new : Nth(P, n) \in P /\ new[n] = keys[Nth(P, n)]
      /\ \A m, n \in DOMAIN new : m < n => Nth(P, m) < Nth(P, n)
      /\ ToSet(new) = {keys[i] : i \in P}
  <2> HIDE DEF P
  <2> QED BY <1>1, AtIs
<1>3. ToSet(new) = ToSet(keys) \ ToSet(out)
  <2>1. ToSet(keys) = {keys[i] : i \in DOMAIN keys}
        BY DEF ToSet
  <2>2. \A u \in ToSet(keys) \ ToSet(out) : \E i \in P : keys[i] = u
        BY FreshOnes
  <2> QED BY <1>2, <2>1, <2>2
<1>4. Include(out, keys) = out \o new
  <2>1. P = {i \in DOMAIN keys : /\ keys[i] \notin ToSet(out)
                                 /\ \A j \in DOMAIN keys : j < i => keys[j] # keys[i]}
        BY DEF Fresh
  <2> HIDE DEF P
  <2> QED BY <2>1 DEF Include
<1>5. \A n \in DOMAIN new : new[n] \in ToSet(new)
      BY DEF ToSet
<1>6. \A n \in DOMAIN out : out[n] \in ToSet(out)
      BY DEF ToSet
<1>7. \A m, n \in DOMAIN new : m < n => Sooner(keys, new[m], new[n])
      BY <1>2 DEF Sooner
<1> HIDE DEF new, P
<1> DEFINE inc == out \o new
<1>8. /\ IsSeq(inc) /\ Len(inc) = Len(out) + Len(new)
      /\ \A n \in 1..Len(out) : inc[n] = out[n]
      /\ \A n \in Len(out) + 1..Len(out) + Len(new) : inc[n] = new[n - Len(out)]
      /\ ToSet(inc) = ToSet(out) \cup ToSet(new)
      BY <1>2, AfterIs
<1>9. ASSUME NEW n \in DOMAIN inc
      PROVE  \/ n \in DOMAIN out /\ inc[n] = out[n]
             \/ ~(n \in DOMAIN out) /\ n - Len(out) \in DOMAIN new /\ inc[n] = new[n - Len(out)]
      BY <1>2, <1>8 DEF IsSeq
<1> HIDE DEF inc
<1>10. ASSUME NEW m \in DOMAIN inc, NEW n \in DOMAIN inc, m < n
       PROVE  \/ m \in DOMAIN out /\ n \in DOMAIN out /\ inc[m] = out[m] /\ inc[n] = out[n]
              \/ inc[m] \in ToSet(out) /\ inc[n] \in ToSet(keys) \ ToSet(out)
              \/ inc[m] \in ToSet(keys) \ ToSet(out) /\ inc[n] \in ToSet(keys) \ ToSet(out)
                 /\ Sooner(keys, inc[m], inc[n])
  <2>1. m \in Nat /\ n \in Nat /\ m >= 1 /\ Len(out) \in Nat /\ DOMAIN out = 1..Len(out)
        BY <1>8 DEF IsSeq
  <2>2. CASE n \in DOMAIN out
    <3>1. m \in DOMAIN out
          BY <1>10, <2>1, <2>2
    <3> QED BY <1>9, <2>2, <3>1
  <2>3. CASE n \notin DOMAIN out
    <3>1. n - Len(out) \in DOMAIN new /\ inc[n] = new[n - Len(out)]
          BY <1>9, <2>3
    <3>2. inc[n] \in ToSet(keys) \ ToSet(out)
          BY <1>3, <1>5, <3>1
    <3>3. CASE m \in DOMAIN out
          BY <1>6, <1>9, <3>2, <3>3
    <3>4. CASE m \notin DOMAIN out
      <4>1. m - Len(out) \in DOMAIN new /\ inc[m] = new[m - Len(out)] /\ m - Len(out) < n - Len(out)
            BY <1>9, <1>10, <2>1, <3>4
      <4>2. inc[m] \in ToSet(keys) \ ToSet(out)
            BY <1>3, <1>5, <4>1
      <4>3. Sooner(keys, inc[m], inc[n])
            BY <1>7, <3>1, <4>1
      <4> QED BY <3>2, <4>2, <4>3
    <3> QED BY <3>3, <3>4
  <2> QED BY <2>2, <2>3
<1>11. Include(out, keys) = inc
       BY <1>4 DEF inc
<1>12. ToSet(inc) = ToSet(out) \cup ToSet(keys)
       BY <1>3, <1>8
<1> QED BY <1>8, <1>10, <1>11, <1>12

-----------------------------------------------------------------------------
(* What an item comes to.                                                  *)

\* The groups there may be: whatever their names, each a sequence of keys.
IsGroups(g) == \A n \in DOMAIN g : IsSeq(g[n])

\* A board: a sequence of usages.
IsBoard(universe) == IsSeq(universe) /\ ToSet(universe) \subseteq Nat

LEMMA UsageOfKey ==
  ASSUME NEW w, IsKeyName(w)
  PROVE  UsageForName(w) \in Nat
<1>1. UsageForName(w) \in UsagesForName(w)
      BY Zenon DEF IsKeyName, UsageForName
<1>2. UsagesForName(w) \subseteq 0..MaxUsage /\ MaxUsage \in Nat
      BY SelectorAssumption DEF UsagesForName
<1> QED BY <1>1, <1>2

LEMMA ItemIs ==
  ASSUME NEW body
  PROVE  LET item == ParseItem(body)
         IN  /\ item.is \in {"error", "all", "usage", "range", "name"}
             /\ item.is = "range" => item.from \in Nat /\ item.to \in Nat /\ item.from <= item.to
             /\ item.is = "error" => item.why # "none"
<1>1. ASSUME NEW lhs, NEW rhs
      PROVE  LET item == ParseRange(lhs, rhs)
             IN  /\ item.is \in {"error", "range", "name"}
                 /\ item.is = "range" => item.from \in Nat /\ item.to \in Nat /\ item.from <= item.to
                 /\ item.is = "error" => item.why # "none"
  <2>1. CASE IsKeyName(lhs) /\ IsKeyName(rhs)
        BY <2>1, UsageOfKey DEF ParseRange
  <2>2. CASE ~(IsKeyName(lhs) /\ IsKeyName(rhs))
        BY <2>2 DEF ParseRange, IsKeyName
  <2> QED BY <2>1, <2>2
<1> HIDE DEF ParseRange
<1> QED BY <1>1 DEF ParseItem

LEMMA OnBoardIs ==
  ASSUME NEW keys, NEW universe, IsSeq(keys)
  PROVE  /\ IsSeq(OnBoard(keys, universe))
         /\ ToSet(OnBoard(keys, universe)) = ToSet(keys) \cap ToSet(universe)
<1> DEFINE P == {i \in DOMAIN keys : keys[i] \in ToSet(universe)}
<1>1. IsSeq(At(keys, P)) /\ ToSet(At(keys, P)) = {keys[i] : i \in P}
  <2>1. P \in SUBSET DOMAIN keys
        OBVIOUS
  <2> HIDE DEF P
  <2> QED BY <2>1, AtIs
<1>2. ToSet(keys) = {keys[i] : i \in DOMAIN keys}
      BY DEF ToSet
<1> QED BY <1>1, <1>2 DEF OnBoard

\* One key the operator names.
LEMMA OneKeyIs ==
  ASSUME NEW neg \in BOOLEAN, NEW u, NEW universe
  PROVE  LET e == OneKey(neg, u, universe)
         IN  /\ IsSeq(e.keys)
             /\ e.err = "none" => /\ ToSet(e.keys) = {u} \cap ToSet(universe)
                                  /\ neg \/ u \in ToSet(universe)
<1>1. IsSeq(<<u>>) /\ ToSet(<<u>>) = {u}
      BY DEF IsSeq, ToSet
<1>2. IsSeq(<<>>) /\ ToSet(<<>>) = {}
      BY DEF IsSeq, ToSet
<1> QED BY <1>1, <1>2 DEF OneKey, Found, Fault

\* Does an item name one key outright?
Outright(item) == item.is = "usage" \/ (item.is = "name" /\ IsKey(item.name))

\* What is found for an item is what it talks of, as far as the board has it, and a
\* key named outright is there unless it is excluded.
LEMMA ExpandIs ==
  ASSUME NEW neg \in BOOLEAN, NEW universe, NEW groups, IsBoard(universe), IsGroups(groups),
         NEW item, item.is \in {"all", "usage", "range", "name"},
         item.is = "range" => item.from \in Nat /\ item.to \in Nat /\ item.from <= item.to,
         NEW e, e = Expand(neg, item, universe, groups)
  PROVE  /\ IsSeq(e.keys)
         /\ e.err = "none" =>
              /\ ToSet(e.keys) = Extent(item, universe, groups) \cap ToSet(universe)
              /\ Outright(item) => neg \/ Extent(item, universe, groups) \subseteq ToSet(universe)
<1>e. IsSeq(<<>>)
      BY DEF IsSeq
<1>1. CASE item.is = "all"
  <2>1. e = Found(universe) /\ Extent(item, universe, groups) = ToSet(universe) /\ ~Outright(item)
        BY <1>1 DEF Expand, Extent, Outright
  <2> QED BY <2>1 DEF Found, IsBoard
<1>2. CASE item.is = "usage"
  <2>1. e = OneKey(neg, item.usage, universe) /\ Extent(item, universe, groups) = {item.usage}
        BY <1>2 DEF Expand, Extent
  <2> QED BY <2>1, OneKeyIs
<1>3. CASE item.is = "range"
  <2> DEFINE r == [i \in 1 .. item.to - item.from + 1 |-> item.from + i - 1]
  <2>1. /\ e = Found(OnBoard(r, universe)) /\ ~Outright(item)
        /\ Extent(item, universe, groups) = {u \in ToSet(universe) : item.from <= u /\ u <= item.to}
        BY <1>3 DEF Expand, Extent, Outright
  <2>2. IsSeq(r)
    <3>1. item.to - item.from + 1 \in Nat
          BY <1>3
    <3> QED BY <3>1 DEF IsSeq
  <2>3. ToSet(r) = item.from..item.to
    <3>1. \A i \in 1 .. item.to - item.from + 1 : r[i] \in item.from..item.to
          BY <1>3
    <3>2. \A u \in item.from..item.to : u - item.from + 1 \in DOMAIN r /\ r[u - item.from + 1] = u
          BY <1>3
    <3> QED BY <3>1, <3>2 DEF ToSet
  <2> HIDE DEF r
  <2>4. ToSet(OnBoard(r, universe)) = ToSet(r) \cap ToSet(universe) /\ IsSeq(OnBoard(r, universe))
        BY <2>2, OnBoardIs
  <2>5. ToSet(r) \cap ToSet(universe) = {u \in ToSet(universe) : item.from <= u /\ u <= item.to}
        BY <1>3, <2>3 DEF IsBoard
  <2> QED BY <2>1, <2>4, <2>5 DEF Found
<1>4. CASE item.is = "name"
  <2> DEFINE name == item.name
  <2>1. e = Named(neg, name, universe, groups) /\ Extent(item, universe, groups) = ExtentOfName(name, groups)
        BY <1>4 DEF Expand, Extent
  <2>2. Outright(item) <=> IsKey(name)
        BY <1>4 DEF Outright
  <2> HIDE DEF name
  <2>3. CASE e.err = "none" /\ IsKey(name)
    <3>1. e = OneKey(neg, UsageForName(name[1]), universe) /\ ExtentOfName(name, groups) = {UsageForName(name[1])}
          BY <2>1, <2>3 DEF Named, ExtentOfName, Fault
    <3> QED BY <2>1, <2>3, <3>1, OneKeyIs
  <2>4. CASE e.err = "none" /\ ~IsKey(name) /\ IsBuiltin(name)
    <3>1. /\ e = Found(OnBoard(Builtin[name[1]], universe))
          /\ ExtentOfName(name, groups) = ToSet(Builtin[name[1]])
          BY <2>1, <2>4 DEF Named, ExtentOfName, Fault
    <3>2. IsSeq(Builtin[name[1]])
          BY <2>4, SelectorAssumption, SeqIsSeq DEF IsBuiltin
    <3> QED BY <2>1, <2>2, <2>4, <3>1, <3>2, OnBoardIs DEF Found
  <2>5. CASE e.err = "none" /\ ~IsKey(name) /\ ~IsBuiltin(name)
    <3>1. /\ e = Found(OnBoard(groups[Plain(name)], universe)) /\ Plain(name) \in DOMAIN groups
          /\ ExtentOfName(name, groups) = ToSet(groups[Plain(name)])
          BY <2>1, <2>5 DEF Named, ExtentOfName, Fault
    <3> QED BY <2>1, <2>2, <2>5, <3>1, OnBoardIs DEF Found, IsGroups
  <2>6. CASE e.err # "none"
    <3>1. \A u : IsSeq(OneKey(neg, u, universe).keys)
          BY OneKeyIs
    <3>2. IsBuiltin(name) => IsSeq(Builtin[name[1]])
          BY SelectorAssumption, SeqIsSeq DEF IsBuiltin
    <3>3. \A keys : IsSeq(keys) => IsSeq(Found(OnBoard(keys, universe)).keys)
          BY OnBoardIs DEF Found
    <3>4. IsSeq(e.keys)
          BY <1>e, <2>1, <3>1, <3>2, <3>3 DEF Named, Fault, IsGroups
    <3> QED BY <2>6, <3>4
  <2> QED BY <2>3, <2>4, <2>5, <2>6
<1> QED BY <1>1, <1>2, <1>3, <1>4

-----------------------------------------------------------------------------
(* What the items before any point make of a key.                          *)

IsText(txt) == IsSeq(txt) /\ \A i \in DOMAIN txt : txt[i].neg \in BOOLEAN

\* Of the first k items, those that talk of u and come after the last of them to
\* exclude it.
Since(txt, k, u, universe, groups) ==
  {i \in 1..k : /\ Mentions(txt, i, u, universe, groups)
                /\ \A j \in i..k : Mentions(txt, j, u, universe, groups) => ~txt[j].neg}

\* Of the first k items, u owes its place to the i-th.
Owes(txt, k, u, i, universe, groups) ==
  LET since == Since(txt, k, u, universe, groups)
  IN  i \in since /\ \A j \in since : i <= j

LEMMA OwedIsOwes ==
  ASSUME NEW txt, NEW universe, NEW groups, IsText(txt), NEW u
  PROVE  Owed(txt, u, universe, groups)
           = {i \in DOMAIN txt : Owes(txt, Len(txt), u, i, universe, groups)}
<1> DEFINE M(i) == Mentions(txt, i, u, universe, groups)
           talk  == {i \in DOMAIN txt : M(i)}
           since == {i \in talk : \A j \in talk : j >= i => ~txt[j].neg}
<1>1. DOMAIN txt = 1..Len(txt) /\ Len(txt) \in Nat
      BY DEF IsText, IsSeq
<1> HIDE DEF M
<1>2. since = {i \in 1..Len(txt) : M(i) /\ \A j \in i..Len(txt) : M(j) => ~txt[j].neg}
      BY <1>1
<1>3. Owed(txt, u, universe, groups) = {i \in since : \A j \in since : i <= j}
      BY DEF Owed, M
<1>4. Since(txt, Len(txt), u, universe, groups) = since
      BY <1>2 DEF Since, M
<1> HIDE DEF since
<1>5. since \subseteq DOMAIN txt
      BY <1>1, <1>2
<1> QED BY <1>3, <1>4, <1>5 DEF Owes

\* There is one such item at most, and none only if no item counts.
LEMMA OwesOne ==
  ASSUME NEW txt, NEW k \in Nat, NEW u, NEW universe, NEW groups
  PROVE  /\ \A i, j : Owes(txt, k, u, i, universe, groups) /\ Owes(txt, k, u, j, universe, groups) => i = j
         /\ \A i : Owes(txt, k, u, i, universe, groups) => i \in 1..k
         /\ Since(txt, k, u, universe, groups) # {} => \E i : Owes(txt, k, u, i, universe, groups)
<1> DEFINE S == Since(txt, k, u, universe, groups)
<1>1. S \subseteq 1..k /\ S \subseteq Nat
      BY DEF Since
<1> HIDE DEF S
<1>2. \A i, j : i \in S /\ j \in S /\ i <= j /\ j <= i => i = j
      BY <1>1
<1>3. S # {} => Oldest(S) \in S /\ \A j \in S : Oldest(S) <= j
      BY <1>1, LeastOfNats
<1> QED BY <1>1, <1>2, <1>3 DEF Owes, S

\* An item that excludes.
LEMMA OwesAfterExclusion ==
  ASSUME NEW txt, NEW k \in Nat, NEW u, NEW universe, NEW groups, txt[k + 1].neg
  PROVE  \A i : Owes(txt, k + 1, u, i, universe, groups)
                  <=> ~Mentions(txt, k + 1, u, universe, groups) /\ Owes(txt, k, u, i, universe, groups)
<1> DEFINE M(i) == Mentions(txt, i, u, universe, groups)
           B == {i \in 1..k : M(i) /\ \A j \in i..k : M(j) => ~txt[j].neg}
           A == {i \in 1..k + 1 : M(i) /\ \A j \in i..k + 1 : M(j) => ~txt[j].neg}
<1>1. Since(txt, k + 1, u, universe, groups) = A /\ Since(txt, k, u, universe, groups) = B
      BY DEF Since
<1> HIDE DEF M
<1>2. \A i \in 1..k : \A j : j \in i..k + 1 <=> j \in i..k \/ j = k + 1
      OBVIOUS
<1>3. \A i : i \in 1..k + 1 <=> i \in 1..k \/ i = k + 1
      OBVIOUS
<1>4. k + 1 \in k + 1..k + 1
      OBVIOUS
<1>5. CASE M(k + 1)
  <2>1. A = {}
        BY <1>2, <1>3, <1>4, <1>5
  <2> HIDE DEF A, B
  <2> QED BY <1>1, <1>5, <2>1 DEF Owes, M
<1>6. CASE ~M(k + 1)
  <2>1. A = B
        BY <1>2, <1>3, <1>6
  <2> HIDE DEF A, B
  <2> QED BY <1>1, <1>6, <2>1 DEF Owes, M
<1> QED BY <1>5, <1>6

\* An item that does not.
LEMMA OwesAfterMention ==
  ASSUME NEW txt, NEW k \in Nat, NEW u, NEW universe, NEW groups, ~txt[k + 1].neg
  PROVE  \A i : Owes(txt, k + 1, u, i, universe, groups)
                  <=> \/ Owes(txt, k, u, i, universe, groups)
                      \/ /\ i = k + 1 /\ Mentions(txt, k + 1, u, universe, groups)
                         /\ ~\E j : Owes(txt, k, u, j, universe, groups)
<1> DEFINE M(i) == Mentions(txt, i, u, universe, groups)
           B == {i \in 1..k : M(i) /\ \A j \in i..k : M(j) => ~txt[j].neg}
           A == {i \in 1..k + 1 : M(i) /\ \A j \in i..k + 1 : M(j) => ~txt[j].neg}
<1>1. Since(txt, k + 1, u, universe, groups) = A /\ Since(txt, k, u, universe, groups) = B
      BY DEF Since
<1> HIDE DEF M
<1>2. \A i \in 1..k : \A j : j \in i..k + 1 <=> j \in i..k \/ j = k + 1
      OBVIOUS
<1>3. \A i : i \in 1..k + 1 <=> i \in 1..k \/ i = k + 1
      OBVIOUS
<1>4. \A j : j \in k + 1..k + 1 <=> j = k + 1
      OBVIOUS
<1>5. A = IF M(k + 1) THEN B \cup {k + 1} ELSE B
      BY <1>2, <1>3, <1>4
<1>6. \A i \in B : i <= k + 1 /\ ~(k + 1 <= i)
      OBVIOUS
<1>7. k + 1 <= k + 1
      OBVIOUS
<1>8. B # {} <=> \E j : Owes(txt, k, u, j, universe, groups)
      BY <1>1, OwesOne DEF Owes
<1> HIDE DEF A, B
<1> QED BY <1>1, <1>5, <1>6, <1>7, <1>8 DEF Owes, M

-----------------------------------------------------------------------------
(* Going through the items.                                                *)

\* What is found for the i-th item.
FoundFor(txt, i, universe, groups) == Expand(txt[i].neg, ParseItem(txt[i].body), universe, groups)

\* Of two keys, the first comes before the second as the first k items have it.
Ahead(txt, k, u, v, universe, groups) ==
  \E i, j :
    /\ Owes(txt, k, u, i, universe, groups) /\ Owes(txt, k, v, j, universe, groups)
    /\ i < j \/ (i = j /\ Sooner(FoundFor(txt, i, universe, groups).keys, u, v))

\* What has been selected after k items, none of which failed.
Selected(txt, k, keys, universe, groups) ==
  /\ IsSeq(keys)
  /\ \A u : u \in ToSet(keys) <=> u \in ToSet(universe) /\ \E i : Owes(txt, k, u, i, universe, groups)
  /\ \A m, n \in DOMAIN keys : m < n =>
       keys[m] # keys[n] /\ Ahead(txt, k, keys[m], keys[n], universe, groups)

LEMMA NoneSelected ==
  ASSUME NEW txt, NEW universe, NEW groups
  PROVE  Selected(txt, 0, <<>>, universe, groups)
<1>1. \A u, i : ~Owes(txt, 0, u, i, universe, groups)
  <2>1. \A u, i : Owes(txt, 0, u, i, universe, groups) => i \in 1..0
        BY OwesOne
  <2> QED BY <2>1
<1>2. IsSeq(<<>>) /\ ToSet(<<>>) = {} /\ DOMAIN <<>> = {}
      BY DEF IsSeq, ToSet
<1> QED BY <1>1, <1>2 DEF Selected

\* One more item, which finds what it talks of.
LEMMA ItemSelects ==
  ASSUME NEW txt, NEW universe, NEW groups, NEW k \in Nat, NEW keys,
         Selected(txt, k, keys, universe, groups),
         NEW e, e = FoundFor(txt, k + 1, universe, groups), IsSeq(e.keys),
         \A u \in ToSet(universe) : u \in ToSet(e.keys) <=> Mentions(txt, k + 1, u, universe, groups),
         ToSet(e.keys) \subseteq ToSet(universe),
         txt[k + 1].neg \in BOOLEAN
  PROVE  Selected(txt, k + 1, IF txt[k + 1].neg THEN Exclude(keys, e.keys) ELSE Include(keys, e.keys),
                  universe, groups)
<1> DEFINE O(j, u, i) == Owes(txt, j, u, i, universe, groups)
           M(u) == Mentions(txt, k + 1, u, universe, groups)
           U == ToSet(universe)
<1>0. /\ IsSeq(keys)
      /\ \A u : u \in ToSet(keys) <=> u \in U /\ \E i : O(k, u, i)
      /\ \A m, n \in DOMAIN keys : m < n =>
           keys[m] # keys[n] /\ Ahead(txt, k, keys[m], keys[n], universe, groups)
      BY DEF Selected
<1>1. CASE txt[k + 1].neg
  <2> DEFINE left == Exclude(keys, e.keys)
  <2>1. /\ IsSeq(left)
        /\ ToSet(left) = ToSet(keys) \ ToSet(e.keys)
        /\ \A m, n \in DOMAIN left : m < n =>
              \E i, j \in DOMAIN keys : i < j /\ keys[i] = left[m] /\ keys[j] = left[n]
        BY <1>0, ExcludeIs
  <2>2. \A u, i : O(k + 1, u, i) <=> ~M(u) /\ O(k, u, i)
        BY <1>1, OwesAfterExclusion
  <2>3. \A n \in DOMAIN left : left[n] \in ToSet(left)
        BY DEF ToSet
  <2> HIDE DEF left, O, M
  <2>4. \A u : u \in ToSet(left) <=> u \in U /\ \E i : O(k + 1, u, i)
        BY <1>0, <2>1, <2>2 DEF M
  <2>5. ASSUME NEW m \in DOMAIN left, NEW n \in DOMAIN left, m < n
        PROVE  left[m] # left[n] /\ Ahead(txt, k + 1, left[m], left[n], universe, groups)
    <3>1. PICK i \in DOMAIN keys, j \in DOMAIN keys : i < j /\ keys[i] = left[m] /\ keys[j] = left[n]
          BY <2>1, <2>5
    <3>2. left[m] # left[n] /\ Ahead(txt, k, left[m], left[n], universe, groups)
          BY <1>0, <3>1
    <3>3. ~M(left[m]) /\ ~M(left[n])
          BY <1>0, <2>1, <2>3 DEF M
    <3> QED BY <2>2, <3>2, <3>3 DEF Ahead, O
  <2> QED BY <1>1, <2>1, <2>4, <2>5 DEF Selected, left, O
<1>2. CASE ~txt[k + 1].neg
  <2> DEFINE inc == Include(keys, e.keys)
  <2>1. /\ IsSeq(inc)
        /\ ToSet(inc) = ToSet(keys) \cup ToSet(e.keys)
        /\ \A m, n \in DOMAIN inc : m < n =>
             \/ m \in DOMAIN keys /\ n \in DOMAIN keys /\ inc[m] = keys[m] /\ inc[n] = keys[n]
             \/ inc[m] \in ToSet(keys) /\ inc[n] \in ToSet(e.keys) \ ToSet(keys)
             \/ inc[m] \in ToSet(e.keys) \ ToSet(keys) /\ inc[n] \in ToSet(e.keys) \ ToSet(keys)
                /\ Sooner(e.keys, inc[m], inc[n])
        BY <1>0, IncludeIs
  <2>2. ASSUME NEW u
        PROVE  /\ \A i : O(k, u, i) => O(k + 1, u, i)
               /\ \A i : O(k + 1, u, i) => O(k, u, i) \/ M(u)
               /\ M(u) /\ ~(\E j : O(k, u, j)) => O(k + 1, u, k + 1)
    <3>1. \A i : Owes(txt, k + 1, u, i, universe, groups)
                  <=> \/ Owes(txt, k, u, i, universe, groups)
                      \/ /\ i = k + 1 /\ Mentions(txt, k + 1, u, universe, groups)
                         /\ ~\E j : Owes(txt, k, u, j, universe, groups)
          BY <1>2, OwesAfterMention
    <3> QED BY <3>1, Zenon
  <2>3. \A u, i : O(k, u, i) => i < k + 1
    <3>1. \A u, i : O(k, u, i) => i \in 1..k
          BY OwesOne
    <3> QED BY <3>1
  <2> HIDE DEF inc, O, M
  <2>4. ASSUME NEW u PROVE u \in ToSet(inc) <=> u \in U /\ \E i : O(k + 1, u, i)
    <3>1. u \in U => (u \in ToSet(e.keys) <=> M(u))
          BY DEF M
    <3>2. u \in ToSet(e.keys) => u \in U
          OBVIOUS
    <3>3. u \in ToSet(keys) <=> u \in U /\ \E i : O(k, u, i)
          BY <1>0
    <3> QED BY <2>1, <2>2, <3>1, <3>2, <3>3
  <2>5. \A u \in ToSet(e.keys) \ ToSet(keys) : O(k + 1, u, k + 1)
    <3>1. ASSUME NEW u \in ToSet(e.keys) \ ToSet(keys) PROVE M(u) /\ ~\E i : O(k, u, i)
          BY <1>0 DEF M
    <3> QED BY <2>2, <3>1
  <2>6. ASSUME NEW u \in ToSet(keys) PROVE \E i : O(k + 1, u, i) /\ i < k + 1
    <3>1. PICK i : O(k, u, i)
          BY <1>0
    <3> QED BY <2>2, <2>3, <3>1
  <2>7. ASSUME NEW u, NEW v, Ahead(txt, k, u, v, universe, groups)
        PROVE  Ahead(txt, k + 1, u, v, universe, groups)
    <3>1. PICK i, j :
            /\ O(k, u, i) /\ O(k, v, j)
            /\ i < j \/ (i = j /\ Sooner(FoundFor(txt, i, universe, groups).keys, u, v))
          BY <2>7 DEF Ahead, O
    <3>2. O(k + 1, u, i) /\ O(k + 1, v, j)
          BY <2>2, <3>1
    <3> QED BY <3>1, <3>2 DEF Ahead, O
  <2>8. ASSUME NEW u \in ToSet(e.keys) \ ToSet(keys), NEW v \in ToSet(e.keys) \ ToSet(keys),
               Sooner(e.keys, u, v)
        PROVE  u # v /\ Ahead(txt, k + 1, u, v, universe, groups)
    <3>1. Ahead(txt, k + 1, u, v, universe, groups)
          BY <2>5, <2>8 DEF Ahead, O
    <3>2. u # v
          BY <2>8 DEF Sooner, Fresh
    <3> QED BY <3>1, <3>2
  <2>9. ASSUME NEW m \in DOMAIN inc, NEW n \in DOMAIN inc, m < n
        PROVE  inc[m] # inc[n] /\ Ahead(txt, k + 1, inc[m], inc[n], universe, groups)
    <3>1. CASE m \in DOMAIN keys /\ n \in DOMAIN keys /\ inc[m] = keys[m] /\ inc[n] = keys[n]
          BY <1>0, <2>7, <2>9, <3>1
    <3>2. CASE inc[m] \in ToSet(keys) /\ inc[n] \in ToSet(e.keys) \ ToSet(keys)
      <4>1. O(k + 1, inc[n], k + 1) /\ \E i : O(k + 1, inc[m], i) /\ i < k + 1
            BY <2>5, <2>6, <3>2
      <4>2. PICK i, j : O(k + 1, inc[m], i) /\ O(k + 1, inc[n], j) /\ i < j
            BY <4>1
      <4>3. Ahead(txt, k + 1, inc[m], inc[n], universe, groups)
            BY <4>2 DEF Ahead, O
      <4>4. inc[m] # inc[n]
            BY <3>2
      <4> QED BY <4>3, <4>4
    <3>3. CASE inc[m] \in ToSet(e.keys) \ ToSet(keys) /\ inc[n] \in ToSet(e.keys) \ ToSet(keys)
               /\ Sooner(e.keys, inc[m], inc[n])
          BY <2>8, <3>3
    <3> QED BY <2>1, <2>9, <3>1, <3>2, <3>3
  <2> QED BY <1>2, <2>1, <2>4, <2>9 DEF Selected, inc, O
<1> QED BY <1>1, <1>2

-----------------------------------------------------------------------------
(* An item by itself, and all of them.                                     *)

LEMMA AloneIs ==
  ASSUME NEW t, NEW universe, NEW groups
  PROVE  Resolve(<<t>>, universe, groups) =
           IF ParseItem(t.body).is = "error" THEN Fault(ParseItem(t.body).why)
           ELSE Take(Found(<<>>), t, universe, groups)
<1> DEFINE txt == <<t>>
           E == ParseErrors(txt)
<1>1. IsSeq(txt) /\ Len(txt) = 1 /\ DOMAIN txt = {1} /\ txt[1] = t
      BY DEF IsSeq
<1>2. E = IF ParseItem(t.body).is = "error" THEN {1} ELSE {}
      BY <1>1 DEF ParseErrors
<1> HIDE DEF txt, E
<1>3. PICK f : /\ IsRun(f, txt, universe, groups)
               /\ Resolve(txt, universe, groups) =
                    IF E = {} THEN f[Len(txt)] ELSE Fault(ParseItem(txt[Nth(E, 1)].body).why)
      BY <1>1, ResolveIs DEF E
<1>4. f[1] = Take(Found(<<>>), t, universe, groups)
  <2>1. f = [i \in 0..1 |-> IF i = 0 THEN Found(<<>>) ELSE Take(f[i - 1], txt[i], universe, groups)]
        BY <1>1, <1>3 DEF IsRun
  <2>2. f[0] = Found(<<>>) /\ f[1] = Take(f[1 - 1], txt[1], universe, groups) /\ 1 - 1 = 0
        BY <2>1
  <2> QED BY <1>1, <2>2
<1>5. Nth({1}, 1) = 1
  <2>1. Cardinality({1}) = 1
        BY FS_Singleton
  <2>2. {1} \in SUBSET (1..1) /\ 1 \in 1..1
        OBVIOUS
  <2>3. Nth({1}, 1) \in {1}
        BY <2>1, <2>2, NthIs
  <2> QED BY <2>3
<1>6. Resolve(txt, universe, groups) =
        IF ParseItem(t.body).is = "error" THEN Fault(ParseItem(t.body).why)
        ELSE Take(Found(<<>>), t, universe, groups)
  <2>1. CASE ParseItem(t.body).is = "error"
        BY <1>1, <1>2, <1>3, <1>5, <2>1
  <2>2. CASE ParseItem(t.body).is # "error"
        BY <1>1, <1>2, <1>3, <1>4, <2>2
  <2> QED BY <2>1, <2>2
<1> QED BY <1>6 DEF txt

LEMMA FreshOne ==
  ASSUME NEW keys, IsSeq(keys), NEW i, NEW j, Fresh(keys, i), Fresh(keys, j), keys[i] = keys[j]
  PROVE  i = j
<1>1. i \in Nat /\ j \in Nat
      BY DEF Fresh, IsSeq
<1> QED BY <1>1 DEF Fresh

\* What one item finds is in the order it is found in.
LEMMA SoonerAlone ==
  ASSUME NEW keys, IsSeq(keys), NEW u, NEW v, Sooner(keys, u, v)
  PROVE  LET inc == Include(<<>>, keys)
         IN  (CHOOSE n \in DOMAIN inc : inc[n] = u) < (CHOOSE n \in DOMAIN inc : inc[n] = v)
<1> DEFINE inc == Include(<<>>, keys)
<1>1. IsSeq(<<>>) /\ ToSet(<<>>) = {} /\ DOMAIN <<>> = {}
      BY DEF IsSeq, ToSet
<1>2. /\ IsSeq(inc) /\ ToSet(inc) = ToSet(keys)
      /\ \A m, n \in DOMAIN inc : m < n => Sooner(keys, inc[m], inc[n])
  <2> HIDE DEF inc
  <2>1. /\ IsSeq(inc)
        /\ ToSet(inc) = ToSet(<<>>) \cup ToSet(keys)
        /\ \A m, n \in DOMAIN inc : m < n =>
             \/ m \in DOMAIN <<>> /\ n \in DOMAIN <<>> /\ inc[m] = <<>>[m] /\ inc[n] = <<>>[n]
             \/ inc[m] \in ToSet(<<>>) /\ inc[n] \in ToSet(keys) \ ToSet(<<>>)
             \/ inc[m] \in ToSet(keys) \ ToSet(<<>>) /\ inc[n] \in ToSet(keys) \ ToSet(<<>>)
                /\ Sooner(keys, inc[m], inc[n])
        BY <1>1, IncludeIs DEF inc
  <2> QED BY <1>1, <2>1
<1> HIDE DEF inc
<1>3. \A x, y : Sooner(keys, x, y) => x # y /\ ~Sooner(keys, y, x)
  <2> SUFFICES ASSUME NEW x, NEW y, Sooner(keys, x, y) PROVE x # y /\ ~Sooner(keys, y, x)
      OBVIOUS
  <2>1. PICK i, j : Fresh(keys, i) /\ Fresh(keys, j) /\ keys[i] = x /\ keys[j] = y /\ i < j
        BY DEF Sooner
  <2>2. i \in Nat /\ j \in Nat
        BY <2>1 DEF Fresh, IsSeq
  <2>3. x # y
        BY <2>1, <2>2, FreshOne
  <2>4. ASSUME Sooner(keys, y, x) PROVE FALSE
    <3>1. PICK l, m : Fresh(keys, l) /\ Fresh(keys, m) /\ keys[l] = y /\ keys[m] = x /\ l < m
          BY <2>4 DEF Sooner
    <3>2. l = j /\ m = i
          BY <2>1, <3>1, FreshOne
    <3> QED BY <2>1, <2>2, <3>1, <3>2
  <2> QED BY <2>3, <2>4
<1>4. \A m, n \in DOMAIN inc : inc[m] = inc[n] => m = n
  <2>1. \A n \in DOMAIN inc : n \in Nat
        BY <1>2 DEF IsSeq
  <2> QED BY <1>2, <1>3, <2>1
<1>5. u \in ToSet(keys) /\ v \in ToSet(keys)
      BY DEF Sooner, Fresh, ToSet
<1>6. PICK a \in DOMAIN inc : inc[a] = u
      BY <1>2, <1>5 DEF ToSet
<1>7. PICK b \in DOMAIN inc : inc[b] = v
      BY <1>2, <1>5 DEF ToSet
<1>8. (CHOOSE n \in DOMAIN inc : inc[n] = u) = a
      BY <1>4, <1>6
<1>9. (CHOOSE n \in DOMAIN inc : inc[n] = v) = b
      BY <1>4, <1>7
<1>10. a < b
  <2>1. a \in Nat /\ b \in Nat
        BY <1>2 DEF IsSeq
  <2>2. a # b /\ ~(b < a)
        BY <1>2, <1>3, <1>6, <1>7
  <2> QED BY <2>1, <2>2
<1> QED BY <1>8, <1>9, <1>10 DEF inc

\* What one item comes to, in a text that can be parsed.
LEMMA TakeIs ==
  ASSUME NEW sofar, NEW txt, NEW i, NEW universe, NEW groups,
         NEW e, e = FoundFor(txt, i, universe, groups)
  PROVE  LET r == Take(sofar, txt[i], universe, groups)
         IN  /\ sofar.err # "none" => r = sofar
             /\ sofar.err = "none" /\ e.err # "none" => r = e
             /\ sofar.err = "none" /\ e.err = "none" =>
                  /\ r.err = "none"
                  /\ r.keys = IF txt[i].neg THEN Exclude(sofar.keys, e.keys) ELSE Include(sofar.keys, e.keys)
BY DEF Take, FoundFor, Found

\* The loop, as far as the k-th item: the first item to fail is what it fails for.
LEMMA LoopSelects ==
  ASSUME NEW txt, NEW universe, NEW groups, IsText(txt), IsBoard(universe), IsGroups(groups),
         ParseErrors(txt) = {}, NEW f, IsRun(f, txt, universe, groups)
  PROVE  \A k \in 0..Len(txt) :
           \/ /\ \A i \in 1..k : FoundFor(txt, i, universe, groups).err = "none"
              /\ f[k].err = "none" /\ Selected(txt, k, f[k].keys, universe, groups)
           \/ \E i \in 1..k :
                /\ FoundFor(txt, i, universe, groups).err # "none"
                /\ f[k].err = FoundFor(txt, i, universe, groups).err
                /\ \A j \in 1..k : j < i => FoundFor(txt, j, universe, groups).err = "none"
<1> DEFINE Err(i) == FoundFor(txt, i, universe, groups).err
           Fine(k) == /\ \A i \in 1..k : Err(i) = "none"
                      /\ f[k].err = "none" /\ Selected(txt, k, f[k].keys, universe, groups)
           Failed(k) == \E i \in 1..k : /\ Err(i) # "none" /\ f[k].err = Err(i)
                                        /\ \A j \in 1..k : j < i => Err(j) = "none"
<1>0. DOMAIN txt = 1..Len(txt) /\ Len(txt) \in Nat
      BY DEF IsText, IsSeq
<1>1. f[0] = Found(<<>>)
      BY <1>0 DEF IsRun
<1>2. \A i \in 1..Len(txt) : f[i] = Take(f[i - 1], txt[i], universe, groups)
      BY <1>0 DEF IsRun
<1>3. Fine(0)
      BY <1>1, NoneSelected DEF Found
<1>4. ASSUME NEW i \in DOMAIN txt
      PROVE  LET e == FoundFor(txt, i, universe, groups)
             IN  /\ IsSeq(e.keys)
                 /\ e.err = "none" =>
                      /\ \A u \in ToSet(universe) : u \in ToSet(e.keys) <=> Mentions(txt, i, u, universe, groups)
                      /\ ToSet(e.keys) \subseteq ToSet(universe)
  <2> DEFINE item == ParseItem(txt[i].body)
             e == FoundFor(txt, i, universe, groups)
  <2>1. item.is # "error"
        BY DEF ParseErrors
  <2>2. /\ item.is \in {"all", "usage", "range", "name"}
        /\ item.is = "range" => item.from \in Nat /\ item.to \in Nat /\ item.from <= item.to
        BY <2>1, ItemIs
  <2>3. e = Expand(txt[i].neg, item, universe, groups) /\ txt[i].neg \in BOOLEAN
        BY DEF FoundFor, IsText
  <2>4. \A u : Mentions(txt, i, u, universe, groups) <=> u \in Extent(item, universe, groups)
        BY DEF Mentions
  <2> HIDE DEF item, e
  <2>5. /\ IsSeq(e.keys)
        /\ e.err = "none" => ToSet(e.keys) = Extent(item, universe, groups) \cap ToSet(universe)
        BY <2>2, <2>3, ExpandIs
  <2> QED BY <2>4, <2>5 DEF e
<1>5. ASSUME NEW k \in 0..Len(txt) - 1, Fine(k) \/ Failed(k) PROVE Fine(k + 1) \/ Failed(k + 1)
  <2> DEFINE e == FoundFor(txt, k + 1, universe, groups)
  <2>1. k \in Nat /\ k + 1 \in DOMAIN txt /\ k + 1 \in 1..Len(txt) /\ (k + 1) - 1 = k
        BY <1>0
  <2>2. f[k + 1] = Take(f[k], txt[k + 1], universe, groups)
        BY <1>2, <2>1
  <2>3. /\ f[k].err # "none" => f[k + 1] = f[k]
        /\ f[k].err = "none" /\ e.err # "none" => f[k + 1] = e
        /\ f[k].err = "none" /\ e.err = "none" =>
             /\ f[k + 1].err = "none"
             /\ f[k + 1].keys = IF txt[k + 1].neg THEN Exclude(f[k].keys, e.keys) ELSE Include(f[k].keys, e.keys)
        BY <2>2, TakeIs
  <2>4. \A i \in 1..k + 1 : i \in 1..k \/ i = k + 1
        BY <2>1
  <2>5. 1..k \subseteq 1..k + 1 /\ k + 1 \in 1..k + 1 /\ \A i \in 1..k : i < k + 1 /\ ~(k + 1 < i)
        BY <2>1
  <2>6. CASE Failed(k)
    <3>1. PICK i \in 1..k : /\ Err(i) # "none" /\ f[k].err = Err(i)
                            /\ \A j \in 1..k : j < i => Err(j) = "none"
          BY <2>6
    <3>2. f[k + 1] = f[k]
          BY <2>3, <3>1
    <3>3. \A j \in 1..k + 1 : j < i => Err(j) = "none"
          BY <2>4, <2>5, <3>1
    <3> QED BY <2>5, <3>1, <3>2, <3>3
  <2>7. CASE Fine(k) /\ e.err # "none"
    <3>1. f[k + 1] = e /\ Err(k + 1) = e.err
          BY <2>3, <2>7
    <3>2. \A j \in 1..k + 1 : j < k + 1 => Err(j) = "none"
          BY <2>1, <2>4, <2>7
    <3> HIDE DEF Err, e
    <3> QED BY <2>5, <2>7, <3>1, <3>2
  <2>8. CASE Fine(k) /\ e.err = "none"
    <3>1. \A j \in 1..k + 1 : Err(j) = "none"
          BY <2>4, <2>8
    <3>2. txt[k + 1].neg \in BOOLEAN
          BY <2>1 DEF IsText
    <3>3. Selected(txt, k, f[k].keys, universe, groups)
          BY <2>8
    <3>4. /\ IsSeq(e.keys)
          /\ \A u \in ToSet(universe) : u \in ToSet(e.keys) <=> Mentions(txt, k + 1, u, universe, groups)
          /\ ToSet(e.keys) \subseteq ToSet(universe)
          BY <1>4, <2>1, <2>8
    <3>5. e = FoundFor(txt, k + 1, universe, groups)
          OBVIOUS
    <3>6. f[k + 1].err = "none"
          BY <2>3, <2>8
    <3>7. f[k + 1].keys = IF txt[k + 1].neg THEN Exclude(f[k].keys, e.keys) ELSE Include(f[k].keys, e.keys)
          BY <2>3, <2>8
    <3> HIDE DEF e
    <3>8. Selected(txt, k + 1, f[k + 1].keys, universe, groups)
          BY <2>1, <3>2, <3>3, <3>4, <3>5, <3>7, ItemSelects
    <3> QED BY <3>1, <3>6, <3>8
  <2> QED BY <1>5, <2>6, <2>7, <2>8
<1> HIDE DEF Fine, Failed
<1>6. \A k \in 0..Len(txt) : Fine(k) \/ Failed(k)
  <2> DEFINE Stuck == {n \in 0..Len(txt) : ~(Fine(n) \/ Failed(n))}
  <2> SUFFICES ASSUME Stuck # {} PROVE FALSE
      OBVIOUS
  <2>1. Stuck \subseteq Nat
        BY <1>0
  <2>2. Oldest(Stuck) \in Stuck /\ \A m \in Stuck : Oldest(Stuck) <= m
        BY <2>1, LeastOfNats
  <2>3. PICK n \in 0..Len(txt) : ~(Fine(n) \/ Failed(n)) /\ \A m \in 0..Len(txt) : ~(Fine(m) \/ Failed(m)) => n <= m
        BY <2>2
  <2>4. n # 0 /\ n - 1 \in 0..Len(txt) - 1 /\ n - 1 \in 0..Len(txt) /\ ~(n <= n - 1) /\ (n - 1) + 1 = n
        BY <1>0, <1>3, <2>3
  <2>5. Fine(n - 1) \/ Failed(n - 1)
        BY <2>3, <2>4
  <2>6. Fine((n - 1) + 1) \/ Failed((n - 1) + 1)
        BY <1>5, <2>4, <2>5
  <2> QED BY <2>3, <2>4, <2>6
<1> QED BY <1>6 DEF Fine, Failed

\* For every text, every board and whatever groups are on file: a selector means
\* what it says.
LEMMA SelectorMeans ==
  ASSUME NEW txt, NEW universe, NEW groups, IsText(txt), IsBoard(universe), IsGroups(groups)
  PROVE  MeansWhatItSays(txt, universe, groups)
<1> DEFINE r == Resolve(txt, universe, groups)
           single == [i \in DOMAIN txt |-> Resolve(<<txt[i]>>, universe, groups)]
           at(u) == CHOOSE i \in Owed(txt, u, universe, groups) : TRUE
           place(u) == CHOOSE n \in DOMAIN single[at(u)].keys : single[at(u)].keys[n] = u
           before(u, v) == \/ at(u) < at(v)
                           \/ at(u) = at(v) /\ place(u) < place(v)
           bad == {i \in DOMAIN txt : single[i].err # "none"}
           E == ParseErrors(txt)
           blamed == IF E # {} THEN E ELSE bad
           e(i) == FoundFor(txt, i, universe, groups)
<1>0. DOMAIN txt = 1..Len(txt) /\ Len(txt) \in Nat /\ IsSeq(txt)
      BY DEF IsText, IsSeq
<1>1. ASSUME NEW i \in DOMAIN txt
      PROVE  /\ i \in E <=> ParseItem(txt[i].body).is = "error"
             /\ i \in E => single[i].err = ParseItem(txt[i].body).why /\ single[i].err # "none"
             /\ i \notin E => single[i].err = e(i).err
             /\ i \notin E /\ e(i).err = "none" =>
                  single[i].keys = IF txt[i].neg THEN Exclude(<<>>, e(i).keys) ELSE Include(<<>>, e(i).keys)
  <2>1. i \in E <=> ParseItem(txt[i].body).is = "error"
        BY DEF ParseErrors
  <2>2. single[i] = IF ParseItem(txt[i].body).is = "error" THEN Fault(ParseItem(txt[i].body).why)
                   ELSE Take(Found(<<>>), txt[i], universe, groups)
        BY AloneIs
  <2>3. ParseItem(txt[i].body).is = "error" => ParseItem(txt[i].body).why # "none"
        BY ItemIs
  <2>4. LET a == Take(Found(<<>>), txt[i], universe, groups)
        IN  /\ e(i).err # "none" => a = e(i)
            /\ e(i).err = "none" =>
                 a.err = "none" /\ a.keys = IF txt[i].neg THEN Exclude(<<>>, e(i).keys) ELSE Include(<<>>, e(i).keys)
        BY TakeIs DEF Found
  <2> HIDE DEF single, E, e
  <2>5. CASE i \in E
        BY <2>1, <2>2, <2>3, <2>5 DEF Fault
  <2>6. CASE i \notin E
        BY <2>1, <2>2, <2>4, <2>6
  <2> QED BY <2>1, <2>5, <2>6
<1>2. PICK f : /\ IsRun(f, txt, universe, groups)
               /\ r = IF E = {} THEN f[Len(txt)] ELSE Fault(ParseItem(txt[Nth(E, 1)].body).why)
      BY <1>0, ResolveIs
<1>3. E \subseteq DOMAIN txt /\ bad \subseteq DOMAIN txt
      BY DEF ParseErrors
<1>4. ASSUME E # {}
      PROVE  bad # {} /\ \E i \in blamed : r.err = single[i].err /\ \A j \in blamed : i <= j
  <2> DEFINE i == Nth(E, 1)
  <2>1. Cardinality(E) \in Nat /\ Cardinality(E) # 0
    <3>1. IsFiniteSet(1..Len(txt)) /\ E \in SUBSET (1..Len(txt))
          BY <1>0, <1>3, FS_Interval
    <3> HIDE DEF E
    <3>2. IsFiniteSet(E)
          BY <3>1, FS_Subset
    <3> QED BY <1>4, <3>2, FS_EmptySet, FS_CardinalityType
  <2>2. E \in SUBSET (1..Len(txt))
        BY <1>0, <1>3
  <2> HIDE DEF E
  <2>3. /\ \A n \in 1..Cardinality(E) : Nth(E, n) \in E
        /\ \A j \in E : \E n \in 1..Cardinality(E) : Nth(E, n) = j
        /\ \A m, n \in 1..Cardinality(E) : m < n => Nth(E, m) < Nth(E, n)
        BY <1>0, <2>2, NthIs
  <2>4. 1 \in 1..Cardinality(E) /\ \A n \in 1..Cardinality(E) : n = 1 \/ 1 < n
        BY <2>1
  <2>5. i \in E /\ \A j \in E : i = j \/ i < j
        BY <2>3, <2>4
  <2>6. i \in E /\ \A j \in E : i <= j
    <3>1. \A j \in E : j \in Nat
          BY <1>0, <2>2
    <3> HIDE DEF i
    <3> QED BY <2>5, <3>1
  <2> HIDE DEF i
  <2>7. i \in DOMAIN txt
        BY <1>0, <2>2, <2>6
  <2>8. single[i].err = ParseItem(txt[i].body).why /\ single[i].err # "none"
        BY <1>1, <2>6, <2>7
  <2>9. r.err = ParseItem(txt[i].body).why
        BY <1>2, <1>4 DEF Fault, i
  <2>10. i \in bad
        BY <2>7, <2>8
  <2> HIDE DEF r, single, bad
  <2> QED BY <1>4, <2>6, <2>8, <2>9, <2>10
<1>5. ASSUME E = {}, bad # {}
      PROVE  \E i \in blamed : r.err = single[i].err /\ \A j \in blamed : i <= j
  <2>1. \A i \in DOMAIN txt : i \in bad <=> e(i).err # "none"
        BY <1>1, <1>5
  <2>2. r = f[Len(txt)] /\ Len(txt) \in 0..Len(txt) /\ blamed = bad
        BY <1>0, <1>2, <1>5
  <2>3. \/ \A i \in 1..Len(txt) : e(i).err = "none"
        \/ \E i \in 1..Len(txt) :
             /\ e(i).err # "none" /\ f[Len(txt)].err = e(i).err
             /\ \A j \in 1..Len(txt) : j < i => e(j).err = "none"
        BY <1>2, <1>5, <2>2, LoopSelects
  <2>4. \A i \in DOMAIN txt : single[i].err = e(i).err
        BY <1>1, <1>5
  <2> HIDE DEF r, single, bad, blamed, e, E
  <2>5. PICK i \in 1..Len(txt) :
             /\ e(i).err # "none" /\ f[Len(txt)].err = e(i).err
             /\ \A j \in 1..Len(txt) : j < i => e(j).err = "none"
        BY <1>0, <1>3, <1>5, <2>1, <2>3
  <2>6. i \in bad /\ r.err = single[i].err
        BY <1>0, <2>1, <2>2, <2>4, <2>5
  <2>7. ASSUME NEW j \in bad PROVE i <= j
    <3>1. j \in 1..Len(txt) /\ e(j).err # "none"
          BY <1>0, <1>3, <2>1
    <3>2. ~(j < i)
          BY <2>5, <3>1
    <3> QED BY <1>0, <3>1, <3>2
  <2> QED BY <2>2, <2>6, <2>7
<1>6. ASSUME bad = {}
      PROVE  /\ r.err = "none"
             /\ ToSet(r.keys) = SelectedKeys(txt, universe, groups)
             /\ \A m, n \in DOMAIN r.keys : m < n => r.keys[m] # r.keys[n] /\ before(r.keys[m], r.keys[n])
             /\ \A i \in DOMAIN txt :
                  LET item == ParseItem(txt[i].body)
                  IN  item.is = "usage" \/ (item.is = "name" /\ IsKey(item.name))
                        => txt[i].neg \/ Extent(item, universe, groups) \subseteq ToSet(universe)
  <2>1. E = {}
        BY <1>4, <1>6
  <2>2. \A i \in DOMAIN txt : e(i).err = "none"
        BY <1>1, <1>6, <2>1
  <2>3. r = f[Len(txt)] /\ Len(txt) \in 0..Len(txt)
        BY <1>0, <1>2, <2>1
  <2>4. r.err = "none" /\ Selected(txt, Len(txt), r.keys, universe, groups)
    <3>1. \/ f[Len(txt)].err = "none" /\ Selected(txt, Len(txt), f[Len(txt)].keys, universe, groups)
          \/ \E i \in 1..Len(txt) : e(i).err # "none"
          BY <1>2, <2>1, <2>3, LoopSelects
    <3> HIDE DEF e, r
    <3> QED BY <1>0, <2>2, <2>3, <3>1
  <2>5. \A u : Owed(txt, u, universe, groups)
                 = {i \in DOMAIN txt : Owes(txt, Len(txt), u, i, universe, groups)}
        BY OwedIsOwes
  <2>6. \A u, i : Owes(txt, Len(txt), u, i, universe, groups) => i \in DOMAIN txt /\ at(u) = i
    <3> SUFFICES ASSUME NEW u, NEW i, Owes(txt, Len(txt), u, i, universe, groups)
                 PROVE  i \in DOMAIN txt /\ at(u) = i
        OBVIOUS
    <3>1. i \in DOMAIN txt /\ \A j : Owes(txt, Len(txt), u, j, universe, groups) => j = i
          BY <1>0, OwesOne
    <3>2. Owed(txt, u, universe, groups) = {i}
          BY <2>5, <3>1
    <3> QED BY <3>1, <3>2
  <2>7. ToSet(r.keys) = SelectedKeys(txt, universe, groups)
    <3>1. \A u : Owed(txt, u, universe, groups) # {} <=> \E i : Owes(txt, Len(txt), u, i, universe, groups)
          BY <2>5, <2>6
    <3> HIDE DEF r
    <3>2. \A u : u \in ToSet(r.keys) <=> u \in ToSet(universe) /\ Owed(txt, u, universe, groups) # {}
          BY <2>4, <3>1 DEF Selected
    <3> QED BY <3>2 DEF SelectedKeys
  <2>8. ASSUME NEW m \in DOMAIN r.keys, NEW n \in DOMAIN r.keys, m < n
        PROVE  r.keys[m] # r.keys[n] /\ before(r.keys[m], r.keys[n])
    <3> DEFINE u == r.keys[m]
               v == r.keys[n]
    <3>1. u # v /\ Ahead(txt, Len(txt), u, v, universe, groups)
          BY <2>4, <2>8 DEF Selected
    <3> HIDE DEF u, v
    <3>2. PICK i, j :
            /\ Owes(txt, Len(txt), u, i, universe, groups) /\ Owes(txt, Len(txt), v, j, universe, groups)
            /\ i < j \/ (i = j /\ Sooner(e(i).keys, u, v))
          BY <3>1 DEF Ahead
    <3>3. at(u) = i /\ at(v) = j /\ i \in DOMAIN txt
          BY <2>6, <3>2
    <3>4. ASSUME i = j, Sooner(e(i).keys, u, v) PROVE place(u) < place(v)
      <4>1. ~txt[i].neg
        <5>1. i \in Since(txt, Len(txt), u, universe, groups)
              BY <3>2 DEF Owes
        <5>2. i \in 1..Len(txt) /\ i \in i..Len(txt)
              BY <1>0, <3>3
        <5> QED BY <5>1, <5>2 DEF Since
      <4>2. single[i].keys = Include(<<>>, e(i).keys)
            BY <1>1, <2>1, <2>2, <3>3, <4>1
      <4>3. IsSeq(e(i).keys)
        <5>1. ParseItem(txt[i].body).is # "error"
              BY <1>1, <2>1, <3>3
        <5>2. LET item == ParseItem(txt[i].body)
              IN  /\ item.is \in {"all", "usage", "range", "name"}
                  /\ item.is = "range" => item.from \in Nat /\ item.to \in Nat /\ item.from <= item.to
              BY <5>1, ItemIs
        <5>3. txt[i].neg \in BOOLEAN
              BY <3>3 DEF IsText
        <5> QED BY <5>2, <5>3, ExpandIs DEF FoundFor
      <4>4. place(u) = (CHOOSE l \in DOMAIN single[i].keys : single[i].keys[l] = u)
            BY <3>3
      <4>5. place(v) = (CHOOSE l \in DOMAIN single[i].keys : single[i].keys[l] = v)
            BY <3>3, <3>4
      <4> HIDE DEF place, single, e
      <4> QED BY <3>4, <4>2, <4>3, <4>4, <4>5, SoonerAlone
    <3>5. before(u, v)
      <4> HIDE DEF at, place, e
      <4> QED BY <3>2, <3>3, <3>4
    <3> QED BY <3>1, <3>5 DEF u, v
  <2>9. ASSUME NEW i \in DOMAIN txt, Outright(ParseItem(txt[i].body))
        PROVE  txt[i].neg \/ Extent(ParseItem(txt[i].body), universe, groups) \subseteq ToSet(universe)
    <3>1. ParseItem(txt[i].body).is # "error"
          BY <1>1, <2>1
    <3>2. LET item == ParseItem(txt[i].body)
          IN  /\ item.is \in {"all", "usage", "range", "name"}
              /\ item.is = "range" => item.from \in Nat /\ item.to \in Nat /\ item.from <= item.to
          BY <3>1, ItemIs
    <3>3. txt[i].neg \in BOOLEAN
          BY DEF IsText
    <3>4. Expand(txt[i].neg, ParseItem(txt[i].body), universe, groups).err = "none"
          BY <2>2 DEF FoundFor
    <3> QED BY <2>9, <3>2, <3>3, <3>4, ExpandIs
  <2> QED BY <2>4, <2>7, <2>8, <2>9 DEF Outright
<1> QED BY <1>4, <1>5, <1>6 DEF MeansWhatItSays

LEMMA ResolveGivesSeq ==
  ASSUME NEW txt, NEW universe, NEW groups, IsText(txt), IsBoard(universe), IsGroups(groups),
         Resolve(txt, universe, groups).err = "none"
  PROVE  IsSeq(Resolve(txt, universe, groups).keys)
<1> DEFINE r == Resolve(txt, universe, groups)
           E == ParseErrors(txt)
<1>0. DOMAIN txt = 1..Len(txt) /\ Len(txt) \in Nat /\ IsSeq(txt)
      BY DEF IsText, IsSeq
<1>1. PICK f : /\ IsRun(f, txt, universe, groups)
               /\ r = IF E = {} THEN f[Len(txt)] ELSE Fault(ParseItem(txt[Nth(E, 1)].body).why)
      BY <1>0, ResolveIs
<1>2. CASE E = {}
  <2>1. r = f[Len(txt)] /\ Len(txt) \in 0..Len(txt)
        BY <1>0, <1>1, <1>2
  <2>2. Selected(txt, Len(txt), r.keys, universe, groups)
    <3>1. \/ Selected(txt, Len(txt), f[Len(txt)].keys, universe, groups)
          \/ f[Len(txt)].err # "none"
          BY <1>1, <1>2, <2>1, LoopSelects
    <3> HIDE DEF r
    <3> QED BY <2>1, <3>1 DEF r
  <2> QED BY <2>2 DEF Selected
<1>3. CASE E # {}
  <2>1. r.keys = <<>>
        BY <1>1, <1>3 DEF Fault
  <2> QED BY <2>1 DEF IsSeq
<1> QED BY <1>2, <1>3

-----------------------------------------------------------------------------
(* What is on file, and what is about to be, are groups.                   *)

LEMMA SelectorIsText == ASSUME NEW txt \in Selectors PROVE IsText(txt)
<1>1. IsSeq(txt)
      BY SeqIsSeq DEF Selectors
<1>2. \A i \in DOMAIN txt : txt[i] \in [neg : BOOLEAN, body : Seq(STRING)]
      BY ElementOfSeq, <1>1 DEF Selectors, IsSeq
<1> QED BY <1>1, <1>2 DEF IsText

LEMMA TableIsBoard == IsBoard(TableUsages)
<1>1. IsSeq(Table)
      BY SelectorAssumption, SeqIsSeq
<1>2. \A i \in DOMAIN Table : Table[i][2] \in Nat
  <2>1. \A i \in DOMAIN Table : Table[i] \in STRING \X (0..MaxUsage)
        BY <1>1, SelectorAssumption, ElementOfSeq DEF IsSeq
  <2> QED BY <2>1, SelectorAssumption
<1>3. IsSeq(TableUsages)
  <2>1. TableUsages = [i \in 1..Len(Table) |-> Table[i][2]] /\ Len(Table) \in Nat
        BY <1>1 DEF IsSeq, TableUsages
  <2>2. Len(TableUsages) = Len(Table)
        BY <2>1
  <2> QED BY <2>1, <2>2 DEF IsSeq
<1>4. ToSet(TableUsages) \subseteq Nat
      BY <1>2 DEF ToSet, TableUsages
<1> QED BY <1>3, <1>4 DEF IsBoard

LEMMA CommandIs ==
  ASSUME NEW c \in Commands
  PROVE  c.op \in {"group", "ungroup", "rename"} /\ (c.op = "group" => IsText(c.selector))
BY GroupsAssumption, SelectorIsText

\* Every process is at a command with what the command needs by then.
AtWork ==
  /\ DOMAIN stage = Editors /\ cmd = [p \in Editors |-> cmd[p]]
  /\ members = [p \in Editors |-> members[p]] /\ held = [p \in Editors |-> held[p]]
  /\ \A p \in Editors :
       /\ stage[p] # "idle" => cmd[p] \in Commands
       /\ stage[p] = "resolve" => cmd[p].op = "group"
       /\ stage[p] = "change" => cmd[p].op # "group" \/ IsSeq(members[p])
       /\ stage[p] = "publish" => IsGroups(held[p])

FInv == AtWork /\ IsGroups(Stored)

LEMMA ChangeIsGroups ==
  ASSUME NEW c \in Commands, NEW keys, NEW g, IsGroups(g), Allowed(c, g), c.op # "group" \/ IsSeq(keys)
  PROVE  IsGroups(Change(c, keys, g))
<1>0. c.op \in {"group", "ungroup", "rename"}
      BY CommandIs
<1>1. CASE c.op = "group"
      BY <1>1 DEF Change, InsertGroup, IsGroups
<1>2. CASE c.op = "ungroup"
      BY <1>2 DEF Change, RemoveGroup, Restrict, IsGroups
<1>3. CASE c.op = "rename"
      BY <1>3 DEF Change, InsertGroup, RemoveGroup, Restrict, IsGroups, Allowed
<1> QED BY <1>0, <1>1, <1>2, <1>3

\* A step of p that does not touch the files.
LEMMA WorkOffTheFiles ==
  ASSUME FInv, NEW p \in Editors, UNCHANGED <<json, toml>>, NEW s, NEW c, NEW keys, NEW g,
         stage' = [stage EXCEPT ![p] = s], cmd' = [cmd EXCEPT ![p] = c],
         members' = [members EXCEPT ![p] = keys], held' = [held EXCEPT ![p] = g],
         s # "idle" => c \in Commands,
         s = "resolve" => c.op = "group",
         s = "change" => c.op # "group" \/ IsSeq(keys),
         s = "publish" => IsGroups(g)
  PROVE  FInv'
<1>1. IsGroups(Stored)'
  <2>1. IsGroups(Stored) /\ UNCHANGED Stored
        BY DEF FInv, Stored
  <2> QED BY <2>1
<1>2. /\ DOMAIN stage' = Editors /\ stage'[p] = s /\ cmd'[p] = c /\ members'[p] = keys /\ held'[p] = g
      /\ \A q \in Editors \ {p} : /\ stage'[q] = stage[q] /\ cmd'[q] = cmd[q]
                                 /\ members'[q] = members[q] /\ held'[q] = held[q]
      BY DEF FInv, AtWork
<1>3. /\ cmd' = [q \in Editors |-> cmd'[q]] /\ members' = [q \in Editors |-> members'[q]]
      /\ held' = [q \in Editors |-> held'[q]]
      BY DEF FInv, AtWork
<1>4. ASSUME NEW q \in Editors
      PROVE  /\ stage'[q] # "idle" => cmd'[q] \in Commands
             /\ stage'[q] = "resolve" => cmd'[q].op = "group"
             /\ stage'[q] = "change" => cmd'[q].op # "group" \/ IsSeq(members'[q])
             /\ stage'[q] = "publish" => IsGroups(held'[q])
  <2>1. CASE q = p
        BY <1>2, <2>1
  <2>2. CASE q # p
        BY <1>2, <2>2 DEF FInv, AtWork
  <2> QED BY <2>1, <2>2
<1>5. AtWork'
      BY <1>2, <1>3, <1>4 DEF AtWork
<1> QED BY <1>1, <1>5 DEF FInv

LEMMA InitIsGroups == GroupsInit => FInv
<1> SUFFICES ASSUME GroupsInit PROVE FInv
    OBVIOUS
<1>1. \A n \in DOMAIN Stored : Stored[n] \in Seq(0..MaxUsage)
  <2>1. Readable(Stored)
        BY GroupsAssumption DEF GroupsInit, Stored
  <2> QED BY <2>1 DEF Readable
<1>2. IsGroups(Stored)
      BY <1>1, SeqIsSeq DEF IsGroups
<1> QED BY <1>2 DEF GroupsInit, FInv, AtWork

LEMMA StepIsGroups == FInv /\ [GroupsNext]_groupsVars => FInv'
<1> SUFFICES ASSUME FInv, [GroupsNext]_groupsVars PROVE FInv'
    OBVIOUS
<1> USE DEF GoTo
<1>0. ASSUME NEW p \in Editors
      PROVE  /\ cmd = [cmd EXCEPT ![p] = cmd[p]] /\ members = [members EXCEPT ![p] = members[p]]
             /\ held = [held EXCEPT ![p] = held[p]]
             /\ stage[p] # "idle" => cmd[p] \in Commands
             /\ stage[p] = "change" => cmd[p].op # "group" \/ IsSeq(members[p])
             /\ stage[p] = "publish" => IsGroups(held[p])
             /\ stage[p] = "resolve" => cmd[p].op = "group"
      BY DEF FInv, AtWork
<1>1. ASSUME NEW p \in Editors, NEW c \in Commands, Begin(p, c) PROVE FInv'
  <2>1. /\ members' = [members EXCEPT ![p] = members[p]] /\ held' = [held EXCEPT ![p] = held[p]]
        /\ stage' = [stage EXCEPT ![p] = "name"] /\ cmd' = [cmd EXCEPT ![p] = c]
        /\ UNCHANGED <<json, toml>>
        BY <1>0, <1>1 DEF Begin
  <2> QED BY <2>1, WorkOffTheFiles
<1>2. ASSUME NEW p \in Editors, NEW how, EndCommand(p, how), UNCHANGED <<json, toml>> PROVE FInv'
      BY <1>2, WorkOffTheFiles DEF EndCommand
<1>3. ASSUME NEW p \in Editors, CheckName(p) PROVE FInv'
  <2>0. PICK s : s = IF cmd[p].op = "group" THEN "resolve" ELSE "change"
        OBVIOUS
  <2>1. CASE EndCommand(p, "refused")
        BY <1>2, <1>3, <2>1 DEF CheckName
  <2>2. CASE ~EndCommand(p, "refused")
    <3>1. stage' = [stage EXCEPT ![p] = s] /\ UNCHANGED <<json, toml, cmd, members, held>> /\ stage[p] = "name"
          BY <1>3, <2>0, <2>2 DEF CheckName
    <3>2. /\ s # "idle" /\ s # "publish" /\ (s = "resolve" => cmd[p].op = "group")
          /\ s = "change" => cmd[p].op # "group"
          BY <2>0
    <3>3. PICK c, keys, g : c = cmd[p] /\ keys = members[p] /\ g = held[p]
          OBVIOUS
    <3>4. /\ stage' = [stage EXCEPT ![p] = s] /\ cmd' = [cmd EXCEPT ![p] = c]
          /\ members' = [members EXCEPT ![p] = keys] /\ held' = [held EXCEPT ![p] = g]
          /\ UNCHANGED <<json, toml>>
          BY <1>0, <3>1, <3>3
    <3>5. c \in Commands /\ (s = "resolve" => c.op = "group") /\ (s = "change" => c.op # "group")
          BY <1>0, <3>1, <3>2, <3>3
    <3> QED BY <3>2, <3>4, <3>5, WorkOffTheFiles
  <2> QED BY <2>1, <2>2
<1>4. ASSUME NEW p \in Editors, ResolveMembers(p) PROVE FInv'
  <2> DEFINE r == Selects(cmd[p], Stored)
  <2>1. CASE EndCommand(p, "refused")
        BY <1>2, <1>4, <2>1 DEF ResolveMembers
  <2>2. CASE ~EndCommand(p, "refused")
    <3>1. /\ r.err = "none" /\ stage' = [stage EXCEPT ![p] = "change"] /\ UNCHANGED <<json, toml, cmd, held>>
          /\ members' = [members EXCEPT ![p] = r.keys] /\ stage[p] = "resolve"
          BY <1>4, <2>2 DEF ResolveMembers
    <3>2. IsText(cmd[p].selector)
          BY <1>0, <3>1, CommandIs
    <3>3. IsSeq(r.keys)
          BY <3>1, <3>2, TableIsBoard, ResolveGivesSeq DEF FInv, Selects
    <3> HIDE DEF r
    <3>4. PICK c, keys, g : c = cmd[p] /\ keys = r.keys /\ g = held[p]
          OBVIOUS
    <3>5. /\ stage' = [stage EXCEPT ![p] = "change"] /\ cmd' = [cmd EXCEPT ![p] = c]
          /\ members' = [members EXCEPT ![p] = keys] /\ held' = [held EXCEPT ![p] = g]
          /\ UNCHANGED <<json, toml>> /\ c \in Commands /\ IsSeq(keys)
          BY <1>0, <3>1, <3>3, <3>4
    <3> QED BY <3>5, WorkOffTheFiles
  <2> QED BY <2>1, <2>2
<1>5. ASSUME NEW p \in Editors, ReadAndChange(p) PROVE FInv'
  <2> DEFINE g == Change(cmd[p], members[p], Stored)
  <2>1. CASE EndCommand(p, "refused")
        BY <1>2, <1>5, <2>1 DEF ReadAndChange
  <2>2. CASE ~EndCommand(p, "refused")
    <3>1. /\ Allowed(cmd[p], Stored) /\ stage[p] = "change"
          /\ stage' = [stage EXCEPT ![p] = "publish"] /\ UNCHANGED <<json, toml, cmd, members>>
          /\ held' = [held EXCEPT ![p] = g]
          BY <1>5, <2>2 DEF ReadAndChange
    <3>2. IsGroups(g)
          BY <1>0, <3>1, ChangeIsGroups DEF FInv
    <3> HIDE DEF g
    <3> QED BY <1>0, <3>1, <3>2, WorkOffTheFiles
  <2> QED BY <2>1, <2>2
<1>6. ASSUME NEW p \in Editors, Publish(p) PROVE FInv'
  <2>1. IsGroups(Stored)'
    <3>1. Stored' = held[p] /\ IsGroups(held[p])
          BY <1>0, <1>6 DEF Publish, Stored, File
    <3> QED BY <3>1
  <2>2. AtWork'
        BY <1>6 DEF Publish, EndCommand, FInv, AtWork
  <2> QED BY <2>1, <2>2 DEF FInv
<1>7. ASSUME NEW p \in Editors, Die(p) PROVE FInv'
      BY <1>2, <1>7 DEF Die
<1>8. CASE UNCHANGED groupsVars
  <2>1. UNCHANGED Stored
        BY <1>8 DEF groupsVars, Stored
  <2> QED BY <1>8, <2>1 DEF groupsVars, editVars, FInv, AtWork
<1> QED BY <1>1, <1>3, <1>4, <1>5, <1>6, <1>7, <1>8 DEF GroupsNext

\* Whatever the groups on file, now or after any commands: a selector that is
\* tried, or that a command is given, means what it says on any board.
THEOREM SelectorsAlwaysMean == GroupsSpec => []SelectorsMeanWhatTheySay
<1>1. ASSUME FInv PROVE SelectorsMeanWhatTheySay
  <2> DEFINE asked == IF started = 0 THEN Texts
                      ELSE {cmd[p].selector : p \in {q \in Editors : stage[q] = "resolve"}}
  <2>1. ASSUME NEW txt \in asked, NEW universe \in Boards \cup {TableUsages}
        PROVE  MeansWhatItSays(txt, universe, Stored)
    <3>1. IsText(txt)
      <4>1. CASE started = 0
        <5>1. Texts \subseteq Selectors
              BY GroupsAssumption, Zenon
        <5> QED BY <2>1, <4>1, <5>1, SelectorIsText
      <4>2. CASE started # 0
        <5>1. PICK p \in Editors : stage[p] = "resolve" /\ txt = cmd[p].selector
              BY <2>1, <4>2
        <5>2. cmd[p] \in Commands /\ cmd[p].op = "group"
              BY <1>1, <5>1 DEF FInv, AtWork
        <5> QED BY <5>1, <5>2, CommandIs
      <4> QED BY <4>1, <4>2
    <3>2. IsBoard(universe)
      <4>1. CASE universe \in Boards
        <5>1. universe \in Seq(0..MaxUsage)
              BY <4>1, GroupsAssumption
        <5>2. IsSeq(universe) /\ \A i \in DOMAIN universe : universe[i] \in 0..MaxUsage
              BY <5>1, SeqIsSeq, ElementOfSeq DEF IsSeq
        <5> QED BY <5>2 DEF IsBoard, ToSet
      <4> QED BY <4>1, TableIsBoard
    <3> QED BY <1>1, <3>1, <3>2, SelectorMeans DEF FInv
  <2> HIDE DEF asked
  <2> QED BY <2>1 DEF SelectorsMeanWhatTheySay, asked
<1> QED BY <1>1, InitIsGroups, StepIsGroups, PTL DEF GroupsSpec

-----------------------------------------------------------------------------
(* The groups as the map that GroupMap promises.                           *)

\* The sequence of the elements of a set has them all and no others.
LEMMA SetToSeqIs ==
  ASSUME NEW s, IsSeq(s)
  PROVE  ToSet(SetToSeq(ToSet(s))) = ToSet(s)
<1> DEFINE S == ToSet(s)
<1>1. IsFiniteSet(S)
  <2>0. Len(s) \in Nat /\ DOMAIN s = 1..Len(s) /\ 1 \in Int /\ Len(s) \in Int
        BY DEF IsSeq
  <2>1. IsFiniteSet(1..Len(s)) /\ DOMAIN s = 1..Len(s)
        BY <2>0, FS_Interval
  <2>2. S = {s[i] : i \in 1..Len(s)}
        BY <2>1 DEF ToSet
  <2>3. s \in Surjection(1..Len(s), S)
        BY <2>1, <2>2, Fun_IsSurj DEF IsSeq
  <2> HIDE DEF S
  <2> QED BY <2>1, <2>3, FS_Surjection
<1>2. PICK n \in Nat : ExistsBijection(1..n, S)
  <2> HIDE DEF S
  <2> QED BY <1>1, FS_NatBijection
<1>3. Cardinality(S) = n
  <2> HIDE DEF S
  <2> QED BY <1>2, FS_CountingElements
<1>4. PICK f : f \in Bijection(1..n, S)
      BY <1>2 DEF ExistsBijection
<1>5. f \in [1..n -> S] /\ IsInjective(f)
  <2> HIDE DEF S
  <2>1. f \in [1..n -> S] /\ \A a, b \in 1..n : f[a] = f[b] => a = b
        BY <1>4, Fun_BijectionProperties
  <2> QED BY <2>1 DEF IsInjective
<1> DEFINE q == SetToSeq(S)
<1>6. q \in [1..n -> S] /\ IsInjective(q)
  <2> HIDE DEF S
  <2> QED BY <1>3, <1>5, Zenon DEF SetToSeq
<1>7. q \in Injection(1..n, S)
  <2> HIDE DEF S, q
  <2>1. \A a, b \in 1..n : q[a] = q[b] => a = b
        BY <1>6 DEF IsInjective
  <2> QED BY <1>6, <2>1, Fun_IsInj
<1>8. q \in Surjection(1..n, S)
  <2>1. IsFiniteSet(1..n) /\ Cardinality(1..n) = Cardinality(S)
        BY <1>3, FS_Interval
  <2> HIDE DEF S, q
  <2> QED BY <1>1, <1>7, <2>1, FS_Injection
<1>9. {q[i] : i \in DOMAIN q} = S
  <2> HIDE DEF S, q
  <2> QED BY <1>6, <1>8, Fun_SurjectionProperties
<1> QED BY <1>9 DEF ToSet

\* Whether an item by itself is an error is a matter of which groups there are.
LEMMA ErrorsByName ==
  ASSUME NEW t, NEW universe, NEW g, NEW h, DOMAIN g = DOMAIN h
  PROVE  Resolve(<<t>>, universe, g).err = Resolve(<<t>>, universe, h).err
<1> DEFINE item == ParseItem(t.body)
<1>1. \A name : Named(t.neg, name, universe, g).err = Named(t.neg, name, universe, h).err
      BY DEF Named, Found
<1>2. Expand(t.neg, item, universe, g).err = Expand(t.neg, item, universe, h).err
  <2>1. CASE item.is = "name"
        BY <1>1, <2>1 DEF Expand
  <2>2. CASE item.is # "name"
        BY <2>2 DEF Expand
  <2> QED BY <2>1, <2>2
<1>3. Take(Found(<<>>), t, universe, g).err = Take(Found(<<>>), t, universe, h).err
      BY <1>2 DEF Take, Found
<1> QED BY <1>3, AloneIs

\* The groups as sets, and back as sequences in whatever order.
Sets(g) == [n \in DOMAIN g |-> ToSet(g[n])]
Again(g) == [n \in DOMAIN Sets(g) |-> SetToSeq(Sets(g)[n])]

LEMMA AgainIs ==
  ASSUME NEW g, IsGroups(g)
  PROVE  DOMAIN Again(g) = DOMAIN g /\ \A n \in DOMAIN g : ToSet(Again(g)[n]) = ToSet(g[n])
<1>1. \A n \in DOMAIN g : ToSet(SetToSeq(ToSet(g[n]))) = ToSet(g[n])
      BY SetToSeqIs DEF IsGroups
<1>2. DOMAIN Again(g) = DOMAIN g /\ \A n \in DOMAIN g : Again(g)[n] = SetToSeq(ToSet(g[n]))
      BY DEF Again, Sets
<1> QED BY <1>1, <1>2

\* A text fails if an item of it fails by itself, and only then; what does not
\* fail selects what its last mentions say.
LEMMA FailsForAnItem ==
  ASSUME NEW txt, NEW universe, NEW g, IsText(txt), IsBoard(universe), IsGroups(g),
         NEW r, r = Resolve(txt, universe, g)
  PROVE  /\ r.err # "none" => \E i \in DOMAIN txt : Resolve(<<txt[i]>>, universe, g).err # "none"
         /\ r.err = "none" => /\ \A i \in DOMAIN txt : Resolve(<<txt[i]>>, universe, g).err = "none"
                              /\ ToSet(r.keys) = SelectedKeys(txt, universe, g)
<1> DEFINE single == [i \in DOMAIN txt |-> Resolve(<<txt[i]>>, universe, g)]
           bad == {i \in DOMAIN txt : single[i].err # "none"}
           E == ParseErrors(txt)
           blamed == IF E # {} THEN E ELSE bad
<1>1. MeansWhatItSays(txt, universe, g)
      BY SelectorMeans
<1>2. bad # {} => \E i \in blamed : r.err = single[i].err
      BY <1>1 DEF MeansWhatItSays
<1>3. bad = {} => r.err = "none" /\ ToSet(r.keys) = SelectedKeys(txt, universe, g)
      BY <1>1 DEF MeansWhatItSays
<1>4. blamed \subseteq bad
  <2>1. ASSUME NEW i \in E PROVE i \in bad
    <3>1. i \in DOMAIN txt /\ ParseItem(txt[i].body).is = "error"
          BY <2>1 DEF ParseErrors
    <3>2. single[i] = Fault(ParseItem(txt[i].body).why)
          BY <3>1, AloneIs
    <3> HIDE DEF single
    <3>3. single[i].err # "none"
          BY <3>1, <3>2, ItemIs DEF Fault
    <3> QED BY <3>1, <3>3
  <2> QED BY <2>1
<1>5. r.err = "none" <=> bad = {}
  <2> HIDE DEF bad, single, blamed
  <2>1. \A i \in bad : single[i].err # "none"
        BY DEF bad
  <2> QED BY <1>2, <1>3, <1>4, <2>1
<1>6. bad = {} <=> \A i \in DOMAIN txt : Resolve(<<txt[i]>>, universe, g).err = "none"
      OBVIOUS
<1> HIDE DEF bad
<1> QED BY <1>3, <1>5, <1>6

\* What fails has an item that fails by itself, and what does not fail selects
\* what its last mentions say, both for the groups in order and for the groups
\* as sets.
LEMMA InSets ==
  ASSUME NEW txt, NEW universe, NEW g, IsText(txt), IsBoard(universe), IsGroups(g),
         NEW r, r = Resolve(txt, universe, g)
  PROVE  /\ r.err # "none" => \E i \in DOMAIN txt : Resolve(<<txt[i]>>, universe, Again(g)).err # "none"
         /\ r.err = "none" =>
              /\ \A i \in DOMAIN txt : Resolve(<<txt[i]>>, universe, Again(g)).err = "none"
              /\ ToSet(r.keys) = SelectedKeys(txt, universe, Again(g))
<1> DEFINE single(i) == Resolve(<<txt[i]>>, universe, g)
           h == Again(g)
<1>1. DOMAIN h = DOMAIN g /\ \A n \in DOMAIN g : ToSet(h[n]) = ToSet(g[n])
      BY AgainIs
<1> HIDE DEF h
<1>2. \A i \in DOMAIN txt : Resolve(<<txt[i]>>, universe, h).err = single(i).err
      BY <1>1, ErrorsByName
<1>3. /\ r.err # "none" => \E i \in DOMAIN txt : single(i).err # "none"
      /\ r.err = "none" => /\ \A i \in DOMAIN txt : single(i).err = "none"
                           /\ ToSet(r.keys) = SelectedKeys(txt, universe, g)
      BY FailsForAnItem
<1> HIDE DEF single
<1>4. ASSUME r.err = "none" PROVE SelectedKeys(txt, universe, g) = SelectedKeys(txt, universe, h)
  <2>1. ASSUME NEW i \in DOMAIN txt, NEW u
        PROVE  Mentions(txt, i, u, universe, g) <=> Mentions(txt, i, u, universe, h)
    <3> DEFINE item == ParseItem(txt[i].body)
    <3>1. single(i).err = "none"
          BY <1>3, <1>4, <2>1
    <3>2. single(i) = IF item.is = "error" THEN Fault(item.why) ELSE Take(Found(<<>>), txt[i], universe, g)
          BY <2>1, AloneIs DEF single
    <3>3. item.is \in {"error", "all", "usage", "range", "name"} /\ (item.is = "error" => item.why # "none")
          BY ItemIs
    <3> HIDE DEF item
    <3>4. item.is # "error" /\ Take(Found(<<>>), txt[i], universe, g).err = "none"
          BY <3>1, <3>2, <3>3 DEF Fault
    <3>5. Expand(txt[i].neg, item, universe, g).err = "none"
          BY <3>4 DEF Take, Found, item
    <3>6. CASE item.is = "name"
      <4>1. Named(txt[i].neg, item.name, universe, g).err = "none"
            BY <3>5, <3>6 DEF Expand
      <4>2. IsKey(item.name) \/ IsBuiltin(item.name) \/ Plain(item.name) \in DOMAIN g
            BY <4>1 DEF Named, Fault
      <4>3. ExtentOfName(item.name, g) = ExtentOfName(item.name, h)
            BY <1>1, <4>2 DEF ExtentOfName
      <4> QED BY <3>6, <4>3 DEF Mentions, Extent, item
    <3>7. CASE item.is # "name"
      <4>1. Extent(item, universe, g) = Extent(item, universe, h)
            BY <3>3, <3>4, <3>7 DEF Extent
      <4> QED BY <4>1 DEF Mentions, item
    <3> QED BY <3>6, <3>7
  <2>2. \A u : Owed(txt, u, universe, g) = Owed(txt, u, universe, h)
    <3> TAKE u
    <3>1. {i \in DOMAIN txt : Mentions(txt, i, u, universe, g)} = {i \in DOMAIN txt : Mentions(txt, i, u, universe, h)}
          BY <2>1
    <3> QED BY <3>1, Zenon DEF Owed
  <2> QED BY <2>2 DEF SelectedKeys
<1> QED BY <1>2, <1>3, <1>4 DEF h

\* The names let through are those the check lets through, as GroupMap has it.
PlainAreUsable == \A c \in Commands : \A n \in Creates(c) : n \in PlainNames <=> CheckGroupNameUsable(n)

\* As long as no two commands overlapped, one process at most is at one.
OneAtATime ==
  ~overlap => \A p, q \in Editors : stage[p] # "idle" /\ stage[q] # "idle" => p = q

\* What the selector of a command comes to, as long as it does.
Resolved(c, keys, g) == Selects(c, g).err = "none" /\ Selects(c, g).keys = keys /\ keys # <<>>

\* What is so of a process at work: as long as no other is, what it resolved and
\* changed is of the groups on file.
Ready(p) ==
  /\ stage[p] \in {"idle", "name", "resolve", "change", "publish"}
  /\ stage[p] = "idle" <=> cmd[p] = None
  /\ stage[p] \in {"resolve", "change", "publish"} => Creates(cmd[p]) \subseteq PlainNames
  /\ ~overlap /\ stage[p] \in {"change", "publish"} /\ cmd[p].op = "group" =>
       Resolved(cmd[p], members[p], Stored)
  /\ ~overlap /\ stage[p] = "publish" =>
       Allowed(cmd[p], Stored) /\ held[p] = Change(cmd[p], members[p], Stored)

AInv == FInv /\ OneAtATime /\ \A p \in Editors : Ready(p)

\* A step of p that does not touch the files.
LEMMA ReadyOffTheFiles ==
  ASSUME AInv, FInv', NEW p \in Editors, UNCHANGED <<json, toml>>, overlap => overlap',
         NEW s, NEW c, NEW keys, NEW g,
         stage' = [stage EXCEPT ![p] = s], cmd' = [cmd EXCEPT ![p] = c],
         members' = [members EXCEPT ![p] = keys], held' = [held EXCEPT ![p] = g],
         ~overlap' /\ s # "idle" => \A q \in Editors \ {p} : stage[q] = "idle",
         s \in {"idle", "name", "resolve", "change", "publish"}, s = "idle" <=> c = None,
         s \in {"resolve", "change", "publish"} => Creates(c) \subseteq PlainNames,
         ~overlap' /\ s \in {"change", "publish"} /\ c.op = "group" => Resolved(c, keys, Stored),
         ~overlap' /\ s = "publish" => Allowed(c, Stored) /\ g = Change(c, keys, Stored)
  PROVE  AInv'
<1>1. UNCHANGED Stored
      BY DEF Stored
<1>2. /\ DOMAIN stage' = Editors /\ stage'[p] = s /\ cmd'[p] = c /\ members'[p] = keys /\ held'[p] = g
      /\ \A q \in Editors \ {p} : /\ stage'[q] = stage[q] /\ cmd'[q] = cmd[q]
                                 /\ members'[q] = members[q] /\ held'[q] = held[q]
      BY DEF AInv, FInv, AtWork
<1>3. ASSUME NEW q \in Editors PROVE Ready(q)'
  <2> USE DEF Ready
  <2>1. CASE q = p
        BY <1>1, <1>2, <2>1 DEF Resolved
  <2>2. CASE q # p
    <3>1. Ready(q)
          BY DEF AInv
    <3> QED BY <1>1, <1>2, <2>2, <3>1 DEF Resolved
  <2> QED BY <2>1, <2>2
<1>4. OneAtATime'
      BY <1>2 DEF AInv, OneAtATime
<1> QED BY <1>3, <1>4 DEF AInv

LEMMA InitReady == GroupsInit => AInv
<1> SUFFICES ASSUME GroupsInit PROVE AInv
    OBVIOUS
<1>1. FInv
      BY InitIsGroups
<1>2. OneAtATime /\ \A p \in Editors : Ready(p)
      BY DEF GroupsInit, OneAtATime, Ready
<1> QED BY <1>1, <1>2 DEF AInv

LEMMA StepReady == PlainAreUsable /\ AInv /\ [GroupsNext]_groupsVars => AInv'
<1> SUFFICES ASSUME PlainAreUsable, AInv, [GroupsNext]_groupsVars PROVE AInv'
    OBVIOUS
<1>f. FInv'
      BY StepIsGroups DEF AInv
<1> USE DEF GoTo
<1>0. ASSUME NEW p \in Editors
      PROVE  /\ cmd = [cmd EXCEPT ![p] = cmd[p]] /\ members = [members EXCEPT ![p] = members[p]]
             /\ held = [held EXCEPT ![p] = held[p]]
             /\ stage[p] # "idle" => cmd[p] \in Commands
             /\ stage[p] = "resolve" => cmd[p].op = "group"
             /\ Ready(p)
             /\ ~overlap /\ stage[p] # "idle" => \A q \in Editors \ {p} : stage[q] = "idle"
      BY DEF AInv, FInv, AtWork, OneAtATime
<1>1. ASSUME NEW p \in Editors, NEW c \in Commands, Begin(p, c) PROVE AInv'
  <2>1. /\ members' = [members EXCEPT ![p] = members[p]] /\ held' = [held EXCEPT ![p] = held[p]]
        /\ stage' = [stage EXCEPT ![p] = "name"] /\ cmd' = [cmd EXCEPT ![p] = c]
        /\ UNCHANGED <<json, toml>> /\ (overlap => overlap')
        BY <1>0, <1>1 DEF Begin
  <2>2. ~overlap' => \A q \in Editors \ {p} : stage[q] = "idle"
        BY <1>1 DEF Begin
  <2>3. c # None
        BY GroupsAssumption
  <2> QED BY <1>f, <2>1, <2>2, <2>3, ReadyOffTheFiles
<1>2. ASSUME NEW p \in Editors, NEW how, EndCommand(p, how), UNCHANGED <<json, toml, overlap>> PROVE AInv'
  <2>1. /\ stage' = [stage EXCEPT ![p] = "idle"] /\ cmd' = [cmd EXCEPT ![p] = None]
        /\ members' = [members EXCEPT ![p] = <<>>] /\ held' = [held EXCEPT ![p] = <<>>]
        /\ UNCHANGED <<json, toml>> /\ (overlap => overlap')
        BY <1>2 DEF EndCommand
  <2> QED BY <1>f, <2>1, ReadyOffTheFiles
<1>3. ASSUME NEW p \in Editors, stage[p] # "idle", NEW s, NEW keys, NEW g,
             stage' = [stage EXCEPT ![p] = s], members' = [members EXCEPT ![p] = keys],
             held' = [held EXCEPT ![p] = g], UNCHANGED <<json, toml, cmd, overlap>>,
             s \in {"resolve", "change", "publish"}, Creates(cmd[p]) \subseteq PlainNames,
             ~overlap /\ s \in {"change", "publish"} /\ cmd[p].op = "group" => Resolved(cmd[p], keys, Stored),
             ~overlap /\ s = "publish" => Allowed(cmd[p], Stored) /\ g = Change(cmd[p], keys, Stored)
      PROVE  AInv'
  <2>1. PICK c : c = cmd[p]
        OBVIOUS
  <2>2. cmd' = [cmd EXCEPT ![p] = c] /\ c # None
        BY <1>0, <1>3, <2>1 DEF Ready
  <2>3. ~overlap' => \A q \in Editors \ {p} : stage[q] = "idle"
        BY <1>0, <1>3
  <2>4. /\ Creates(c) \subseteq PlainNames
        /\ ~overlap' /\ s \in {"change", "publish"} /\ c.op = "group" => Resolved(c, keys, Stored)
        /\ ~overlap' /\ s = "publish" => Allowed(c, Stored) /\ g = Change(c, keys, Stored)
        BY <1>3, <2>1
  <2> QED BY <1>f, <1>3, <2>2, <2>3, <2>4, ReadyOffTheFiles
<1>4. ASSUME NEW p \in Editors, CheckName(p) PROVE AInv'
  <2>1. CASE EndCommand(p, "refused")
        BY <1>2, <1>4, <2>1 DEF CheckName
  <2>2. CASE ~EndCommand(p, "refused")
    <3>0. PICK s, keys, g : /\ s = IF cmd[p].op = "group" THEN "resolve" ELSE "change"
                            /\ keys = members[p] /\ g = held[p]
          OBVIOUS
    <3>1. /\ stage' = [stage EXCEPT ![p] = s] /\ UNCHANGED <<json, toml, cmd, members, held, overlap>>
          /\ stage[p] = "name" /\ \A n \in Creates(cmd[p]) : CheckGroupNameUsable(n)
          BY <1>4, <2>2, <3>0 DEF CheckName
    <3>2. Creates(cmd[p]) \subseteq PlainNames
          BY <1>0, <3>1 DEF PlainAreUsable
    <3>3. members' = [members EXCEPT ![p] = keys] /\ held' = [held EXCEPT ![p] = g]
          BY <1>0, <3>0, <3>1
    <3>4. s \in {"resolve", "change"} /\ ~(s = "change" /\ cmd[p].op = "group")
          BY <3>0
    <3> QED BY <1>3, <3>1, <3>2, <3>3, <3>4
  <2> QED BY <2>1, <2>2
<1>5. ASSUME NEW p \in Editors, ResolveMembers(p) PROVE AInv'
  <2> DEFINE r == Selects(cmd[p], Stored)
  <2>1. CASE EndCommand(p, "refused")
        BY <1>2, <1>5, <2>1 DEF ResolveMembers
  <2>2. CASE ~EndCommand(p, "refused")
    <3>0. PICK keys, g : keys = r.keys /\ g = held[p]
          OBVIOUS
    <3>1. /\ r.err = "none" /\ r.keys # <<>> /\ stage' = [stage EXCEPT ![p] = "change"]
          /\ UNCHANGED <<json, toml, cmd, held, overlap>>
          /\ members' = [members EXCEPT ![p] = keys] /\ stage[p] = "resolve"
          BY <1>5, <2>2, <3>0 DEF ResolveMembers
    <3>2. Resolved(cmd[p], keys, Stored)
          BY <3>0, <3>1 DEF Resolved
    <3> HIDE DEF r
    <3>3. held' = [held EXCEPT ![p] = g] /\ Creates(cmd[p]) \subseteq PlainNames
          BY <1>0, <3>0, <3>1 DEF Ready
    <3> QED BY <1>3, <3>1, <3>2, <3>3
  <2> QED BY <2>1, <2>2
<1>6. ASSUME NEW p \in Editors, ReadAndChange(p) PROVE AInv'
  <2>1. CASE EndCommand(p, "refused")
        BY <1>2, <1>6, <2>1 DEF ReadAndChange
  <2>2. CASE ~EndCommand(p, "refused")
    <3>0. PICK keys, g : keys = members[p] /\ g = Change(cmd[p], members[p], Stored)
          OBVIOUS
    <3>1. /\ Allowed(cmd[p], Stored) /\ stage[p] = "change"
          /\ stage' = [stage EXCEPT ![p] = "publish"] /\ UNCHANGED <<json, toml, cmd, members, overlap>>
          /\ held' = [held EXCEPT ![p] = g]
          BY <1>6, <2>2, <3>0 DEF ReadAndChange
    <3>2. members' = [members EXCEPT ![p] = keys] /\ Creates(cmd[p]) \subseteq PlainNames
          BY <1>0, <3>0, <3>1 DEF Ready
    <3>3. ~overlap /\ cmd[p].op = "group" => Resolved(cmd[p], keys, Stored)
          BY <1>0, <3>0, <3>1 DEF Ready
    <3> QED BY <1>3, <3>0, <3>1, <3>2, <3>3
  <2> QED BY <2>1, <2>2
<1>7. ASSUME NEW p \in Editors, Publish(p) PROVE AInv'
  <2>1. /\ DOMAIN stage' = Editors /\ stage'[p] = "idle" /\ cmd'[p] = None
        /\ \A q \in Editors \ {p} : /\ stage'[q] = stage[q] /\ cmd'[q] = cmd[q]
                                   /\ members'[q] = members[q] /\ held'[q] = held[q]
        /\ overlap' = overlap /\ stage[p] # "idle"
        BY <1>7 DEF Publish, EndCommand, AInv, FInv, AtWork
  <2>2. ASSUME NEW q \in Editors PROVE Ready(q)'
    <3>1. CASE q = p
          BY <2>1, <3>1 DEF Ready
    <3>2. CASE q # p /\ overlap
      <4>1. Ready(q)
            BY <1>0
      <4> QED BY <2>1, <3>2, <4>1 DEF Ready
    <3>3. CASE q # p /\ ~overlap
      <4>1. Ready(q) /\ stage[q] = "idle"
            BY <1>0, <2>1, <3>3
      <4> QED BY <2>1, <3>3, <4>1 DEF Ready
    <3> QED BY <3>1, <3>2, <3>3
  <2>3. OneAtATime'
        BY <2>1 DEF AInv, OneAtATime
  <2> QED BY <1>f, <2>2, <2>3 DEF AInv
<1>8. ASSUME NEW p \in Editors, Die(p) PROVE AInv'
      BY <1>2, <1>8 DEF Die
<1>9. CASE UNCHANGED groupsVars
  <2>1. UNCHANGED Stored
        BY <1>9 DEF groupsVars, Stored
  <2> QED BY <1>f, <1>9, <2>1 DEF groupsVars, editVars, AInv, OneAtATime, Ready, Resolved
<1> QED BY <1>1, <1>4, <1>5, <1>6, <1>7, <1>8, <1>9 DEF GroupsNext

\* A command that is done has done what the map promises, and one that is refused
\* could be.
LEMMA DoesWhatIsPromised ==
  ASSUME PlainAreUsable, AInv, ~overlap, NEW p \in Editors, Publish(p)
  PROVE  Abstract!Done(cmd[p])
<1> DEFINE c == cmd[p]
           G == Sets(Stored)
           H == Sets(Change(c, members[p], Stored))
<1>1. /\ c \in Commands /\ IsGroups(Stored) /\ Creates(c) \subseteq PlainNames
      /\ Allowed(c, Stored) /\ held[p] = Change(c, members[p], Stored)
      /\ c.op = "group" => Resolved(c, members[p], Stored) /\ IsText(c.selector)
      BY CommandIs DEF AInv, FInv, AtWork, Ready, Publish
<1>2. Stored' = held[p]
      BY DEF Publish, Stored, File
<1>3. /\ [n \in DOMAIN Stored |-> ToSet(Stored[n])] = G
      /\ [n \in DOMAIN Stored |-> ToSet(Stored[n])]' = H
      BY <1>1, <1>2 DEF Sets
<1>4. /\ DOMAIN G = DOMAIN Stored /\ \A n \in DOMAIN Stored : G[n] = ToSet(Stored[n])
      BY DEF Sets, G
<1>5. c.op \in {"group", "ungroup", "rename"}
      BY <1>1, CommandIs
<1> HIDE DEF c, G, H
<1>6. CASE c.op = "group"
  <2>1. /\ ToSet(members[p]) = Means(c.selector, G) /\ ~Refuses(c.selector, G)
    <3>1. /\ Resolve(c.selector, TableUsages, Stored).err = "none"
          /\ Resolve(c.selector, TableUsages, Stored).keys = members[p]
          BY <1>1, <1>6 DEF Resolved, Selects
    <3>2. /\ \A i \in DOMAIN c.selector : Resolve(<<c.selector[i]>>, TableUsages, Again(Stored)).err = "none"
          /\ ToSet(members[p]) = SelectedKeys(c.selector, TableUsages, Again(Stored))
          BY <1>1, <1>6, <3>1, TableIsBoard, InSets
    <3> QED BY <3>2 DEF Means, Refuses, Again, G
  <2>2. ToSet(members[p]) # {}
    <3>1. Resolve(c.selector, TableUsages, Stored).err = "none"
          BY <1>1, <1>6 DEF Resolved, Selects
    <3>2. IsSeq(Resolve(c.selector, TableUsages, Stored).keys)
          BY <1>1, <1>6, <3>1, TableIsBoard, ResolveGivesSeq
    <3>3. IsSeq(members[p]) /\ members[p] # <<>>
          BY <1>1, <1>6, <3>2 DEF Resolved, Selects
    <3>4. Len(members[p]) # 0
          BY <3>3 DEF IsSeq
    <3>5. 1 \in DOMAIN members[p]
          BY <3>3, <3>4 DEF IsSeq
    <3> QED BY <3>5 DEF ToSet
  <2>3. /\ DOMAIN H = DOMAIN G \cup {c.name} /\ H[c.name] = ToSet(members[p])
        /\ \A n \in DOMAIN G \ {c.name} : H[n] = G[n]
        BY <1>4, <1>6 DEF H, Change, InsertGroup, Sets
  <2>4. c.name \in PlainNames
        BY <1>1, <1>6 DEF Creates
  <2> HIDE DEF Means, Refuses
  <2> QED BY <1>3, <1>6, <2>1, <2>2, <2>3, <2>4 DEF c, Abstract!Done, Abstract!Taken
<1>7. CASE c.op = "ungroup"
  <2>1. /\ DOMAIN H = DOMAIN G \ {c.name} /\ c.name \in DOMAIN G
        /\ \A n \in DOMAIN H : H[n] = G[n]
        BY <1>1, <1>4, <1>7 DEF H, Change, RemoveGroup, Restrict, Sets, Allowed
  <2> QED BY <1>3, <1>7, <2>1 DEF c, Abstract!Done, Abstract!Taken
<1>8. CASE c.op = "rename"
  <2>1. /\ c.name \in DOMAIN G /\ c.new \in PlainNames \ DOMAIN G
        BY <1>1, <1>4, <1>8 DEF Allowed, Creates
  <2>2. /\ DOMAIN H = (DOMAIN G \ {c.name}) \cup {c.new} /\ H[c.new] = G[c.name]
        /\ \A n \in DOMAIN G \ {c.name} : H[n] = G[n]
        BY <1>4, <1>8, <2>1 DEF H, Change, InsertGroup, RemoveGroup, Restrict, Sets
  <2> QED BY <1>3, <1>8, <2>1, <2>2 DEF c, Abstract!Done, Abstract!Taken
<1> QED BY <1>5, <1>6, <1>7, <1>8

LEMMA RefusedForAReason ==
  ASSUME PlainAreUsable, AInv, ~overlap, NEW p \in Editors, stage[p] # "idle",
         \/ stage[p] = "name" /\ \E n \in Creates(cmd[p]) : ~CheckGroupNameUsable(n)
         \/ /\ stage[p] = "resolve"
            /\ Selects(cmd[p], Stored).err # "none" \/ Selects(cmd[p], Stored).keys = <<>>
         \/ stage[p] = "change" /\ ~Allowed(cmd[p], Stored)
  PROVE  Abstract!Refusable(cmd[p])
<1> DEFINE c == cmd[p]
           G == Sets(Stored)
<1>1. /\ c \in Commands /\ c.op \in {"group", "ungroup", "rename"} /\ IsGroups(Stored)
      /\ c.op = "group" => IsText(c.selector)
      /\ stage[p] = "resolve" => c.op = "group"
      BY CommandIs DEF AInv, FInv, AtWork
<1>2. [n \in DOMAIN Stored |-> ToSet(Stored[n])] = G /\ DOMAIN G = DOMAIN Stored
      BY DEF Sets
<1> HIDE DEF c, G
<1>3. CASE stage[p] = "name" /\ \E n \in Creates(c) : ~CheckGroupNameUsable(n)
  <2>1. \E n \in Creates(c) : n \notin PlainNames
        BY <1>1, <1>3 DEF PlainAreUsable
  <2>2. \/ c.op = "group" /\ c.name \notin PlainNames
        \/ c.op = "rename" /\ c.new \notin PlainNames
        BY <1>1, <2>1 DEF Creates
  <2> QED BY <2>2 DEF c, Abstract!Refusable
<1>4. CASE /\ stage[p] = "resolve"
           /\ Selects(c, Stored).err # "none" \/ Selects(c, Stored).keys = <<>>
  <2> DEFINE r == Resolve(c.selector, TableUsages, Stored)
  <2>1. /\ r.err # "none" =>
             \E i \in DOMAIN c.selector : Resolve(<<c.selector[i]>>, TableUsages, Again(Stored)).err # "none"
        /\ r.err = "none" => ToSet(r.keys) = SelectedKeys(c.selector, TableUsages, Again(Stored))
    <3>1. IsText(c.selector) /\ IsGroups(Stored) /\ IsBoard(TableUsages)
          BY <1>1, <1>4, TableIsBoard
    <3>2. PICK txt, g : txt = c.selector /\ g = Stored
          OBVIOUS
    <3>3. IsText(txt) /\ IsGroups(g)
          BY <3>1, <3>2
    <3>4. LET q == Resolve(txt, TableUsages, g)
          IN  /\ q.err # "none" => \E i \in DOMAIN txt : Resolve(<<txt[i]>>, TableUsages, Again(g)).err # "none"
              /\ q.err = "none" => ToSet(q.keys) = SelectedKeys(txt, TableUsages, Again(g))
      <4>1. PICK q : q = Resolve(txt, TableUsages, g)
            OBVIOUS
      <4>2. /\ q.err # "none" => \E i \in DOMAIN txt : Resolve(<<txt[i]>>, TableUsages, Again(g)).err # "none"
            /\ q.err = "none" => ToSet(q.keys) = SelectedKeys(txt, TableUsages, Again(g))
            BY <3>1, <3>3, <4>1, InSets
      <4> QED BY <4>1, <4>2
    <3> QED BY <3>2, <3>4
  <2>2. r.err # "none" \/ r.keys = <<>>
        BY <1>4 DEF Selects
  <2>3. ToSet(<<>>) = {}
        BY DEF ToSet
  <2> HIDE DEF r
  <2>4. Refuses(c.selector, G) \/ Means(c.selector, G) = {}
        BY <2>1, <2>2, <2>3 DEF Refuses, Means, Again, G
  <2>5. c.op = "group"
        BY <1>1, <1>4
  <2> HIDE DEF Means, Refuses
  <2> QED BY <1>2, <2>4, <2>5 DEF c, Abstract!Refusable
<1>5. CASE stage[p] = "change" /\ ~Allowed(c, Stored)
      BY <1>1, <1>2, <1>5 DEF c, Allowed, Abstract!Refusable, Abstract!Taken
<1> QED BY <1>3, <1>4, <1>5 DEF c

\* Each step of a command is a step of the map or none.
LEMMA StepIsAtomic ==
  ASSUME PlainAreUsable, AInv, [GroupsNext]_groupsVars, ~overlap'
  PROVE  Abstract!Next \/ UNCHANGED Abstract!vars
<1> DEFINE G == [n \in DOMAIN Stored |-> ToSet(Stored[n])]
<1>0. /\ ~overlap /\ (UNCHANGED <<json, toml>> => UNCHANGED G)
  <2>1. ~overlap
        BY DEF GroupsNext, groupsVars, Begin, CheckName, ResolveMembers, ReadAndChange, Publish, Die
  <2>2. UNCHANGED <<json, toml>> => UNCHANGED Stored
        BY DEF Stored
  <2> QED BY <2>1, <2>2
<1>s. UNCHANGED <<json, toml, cmd, ended>> => UNCHANGED Abstract!vars
      BY <1>0 DEF Abstract!vars
<1>r. ASSUME NEW p \in Editors PROVE stage[p] = "idle" <=> cmd[p] = None
      BY DEF AInv, Ready
<1>1. ASSUME NEW p \in Editors, NEW c \in Commands, Begin(p, c) PROVE Abstract!Start(p, c)
      BY <1>0, <1>1, <1>r DEF Begin, Abstract!Start
<1>2. ASSUME NEW p \in Editors, NEW how, stage[p] # "idle", EndCommand(p, how) PROVE Abstract!End(p, how)
      BY <1>2, <1>r DEF EndCommand, Abstract!End
<1>3. ASSUME NEW p \in Editors, CheckName(p) \/ ResolveMembers(p) \/ ReadAndChange(p)
      PROVE  \/ Abstract!End(p, "refused") /\ Abstract!Refusable(cmd[p]) /\ UNCHANGED G
             \/ UNCHANGED Abstract!vars
  <2>1. CASE EndCommand(p, "refused") /\ stage'[p] # stage[p]
    <3>1. /\ stage[p] # "idle" /\ UNCHANGED <<json, toml>>
          BY <1>3 DEF CheckName, ResolveMembers, ReadAndChange
    <3>2. /\ DOMAIN stage = Editors /\ stage'[p] = "idle"
          BY <2>1 DEF EndCommand, GoTo, AInv, FInv, AtWork
    <3>3. \/ stage[p] = "name" /\ \E n \in Creates(cmd[p]) : ~CheckGroupNameUsable(n)
          \/ /\ stage[p] = "resolve"
             /\ Selects(cmd[p], Stored).err # "none" \/ Selects(cmd[p], Stored).keys = <<>>
          \/ stage[p] = "change" /\ ~Allowed(cmd[p], Stored)
          BY <1>3, <3>2 DEF CheckName, ResolveMembers, ReadAndChange, GoTo
    <3>4. Abstract!Refusable(cmd[p])
          BY <1>0, <3>1, <3>3, RefusedForAReason
    <3> QED BY <1>0, <1>2, <2>1, <3>1, <3>4
  <2>2. CASE ~(EndCommand(p, "refused") /\ stage'[p] # stage[p])
    <3>1. stage[p] # "idle" /\ DOMAIN stage = Editors
          BY <1>3 DEF CheckName, ResolveMembers, ReadAndChange, AInv, FInv, AtWork
    <3>2. ~EndCommand(p, "refused")
          BY <2>2, <3>1 DEF EndCommand, GoTo
    <3>3. UNCHANGED <<json, toml, cmd, ended>>
          BY <1>3, <3>2 DEF CheckName, ResolveMembers, ReadAndChange
    <3> QED BY <1>s, <3>3
  <2> QED BY <2>1, <2>2
<1>4. ASSUME NEW p \in Editors, Publish(p) PROVE Abstract!End(p, "done") /\ Abstract!Done(cmd[p])
      BY <1>0, <1>2, <1>4, DoesWhatIsPromised DEF Publish
<1>5. ASSUME NEW p \in Editors, Die(p) PROVE Abstract!End(p, "failed") /\ UNCHANGED G
      BY <1>0, <1>2, <1>5 DEF Die
<1>6. CASE UNCHANGED groupsVars
      BY <1>s, <1>6 DEF groupsVars, editVars
<1> HIDE DEF G
<1> QED BY <1>1, <1>3, <1>4, <1>5, <1>6 DEF GroupsNext, Abstract!Next, G

\* As long as they run one at a time, however many there are and wherever they are
\* killed, the commands implement the map of groups: each takes effect in full or
\* not at all, and is refused only for what the map says (set_group, remove_group,
\* rename_group, write_groups).
THEOREM GroupsAreAlwaysAtomic == PlainAreUsable /\ GroupsSpec => GroupsAreAtomic
<1>1. AInv /\ PlainAreUsable /\ [GroupsNext]_groupsVars => [~overlap' => Abstract!Next]_(Abstract!vars)
      BY StepIsAtomic
<1>2. GroupsInit => Abstract!Init
      BY DEF GroupsInit, Abstract!Init
<1>3. ASSUME PlainAreUsable PROVE GroupsSpec => GroupsAreAtomic
  <2>1. AInv /\ [GroupsNext]_groupsVars => AInv'
        BY <1>3, StepReady
  <2>2. AInv /\ [GroupsNext]_groupsVars => [~overlap' => Abstract!Next]_(Abstract!vars)
        BY <1>1, <1>3
  <2> QED BY <1>2, <2>1, <2>2, InitReady, PTL DEF GroupsSpec, GroupsAreAtomic
<1> QED BY <1>3

-----------------------------------------------------------------------------
(* What is printed of a group, and typed again: one item after the other,  *)
(* each of one key.                                                        *)

\* The numbers of a set of positions, with one more above them.
LEMMA NthOfMore ==
  ASSUME NEW N \in Nat, NEW P \in SUBSET (1..N), NEW m \in 1..N, \A i \in P : i < m
  PROVE  /\ Cardinality(P) \in Nat /\ Cardinality(P \cup {m}) = Cardinality(P) + 1
         /\ \A n \in 1..Cardinality(P) : Nth(P \cup {m}, n) = Nth(P, n)
         /\ Nth(P \cup {m}, Cardinality(P) + 1) = m
<1> DEFINE Q == P \cup {m}
<1>1. IsFiniteSet(P) /\ Cardinality(P) \in Nat
  <2>1. IsFiniteSet(1..N)
        BY FS_Interval
  <2>2. IsFiniteSet(P)
        BY <2>1, FS_Subset
  <2> QED BY <2>2, FS_CardinalityType
<1>2. m \notin P /\ m \in Nat
      BY DEF Q
<1>3. Cardinality(Q) = Cardinality(P) + 1 /\ Q \in SUBSET (1..N)
      BY <1>1, <1>2, FS_AddElement
<1>4. \A i \in P : Lower(Q, i) = Lower(P, i)
      BY DEF Lower
<1>5. Lower(Q, m) = P
  <2>1. \A i \in Q : i < m <=> i \in P
        BY <1>2
  <2> QED BY <2>1 DEF Lower
<1> HIDE DEF Q
<1>6. ASSUME NEW i \in Q, NEW n \in 1..Cardinality(Q), Cardinality(Lower(Q, i)) = n - 1 PROVE Nth(Q, n) = i
  <2>1. PICK k \in 1..Cardinality(Q) : Nth(Q, k) = i
        BY <1>3, NthIs
  <2>2. Cardinality(Lower(Q, i)) = k - 1
        BY <1>3, <2>1, NthIs
  <2>3. k = n
        BY <1>1, <1>3, <1>6, <2>2
  <2> QED BY <2>1, <2>3
<1>7. ASSUME NEW n \in 1..Cardinality(P) PROVE Nth(Q, n) = Nth(P, n)
  <2>1. Nth(P, n) \in P /\ Cardinality(Lower(P, Nth(P, n))) = n - 1
        BY NthIs
  <2>2. Nth(P, n) \in Q /\ n \in 1..Cardinality(Q) /\ Cardinality(Lower(Q, Nth(P, n))) = n - 1
    <3>1. Lower(Q, Nth(P, n)) = Lower(P, Nth(P, n))
          BY <1>4, <2>1
    <3> QED BY <1>1, <1>3, <2>1, <3>1 DEF Q
  <2> QED BY <1>6, <2>2
<1>8. Nth(Q, Cardinality(P) + 1) = m
  <2>1. m \in Q /\ Cardinality(P) + 1 \in 1..Cardinality(Q)
        BY <1>1, <1>3 DEF Q
  <2>2. Cardinality(Lower(Q, m)) = (Cardinality(P) + 1) - 1
        BY <1>1, <1>5
  <2> QED BY <1>6, <2>1, <2>2
<1> QED BY <1>1, <1>3, <1>7, <1>8 DEF Q

\* One more position, one more element.
LEMMA AtOfMore ==
  ASSUME NEW s, IsSeq(s), NEW P \in SUBSET DOMAIN s, NEW m \in DOMAIN s, \A i \in P : i < m
  PROVE  At(s, P \cup {m}) = At(s, P) \o <<s[m]>>
<1> DEFINE c == Cardinality(P)
           lhs == At(s, P \cup {m})
           rhs == At(s, P) \o <<s[m]>>
<1>1. /\ c \in Nat /\ Cardinality(P \cup {m}) = c + 1 /\ Nth(P \cup {m}, c + 1) = m
      /\ \A n \in 1..c : Nth(P \cup {m}, n) = Nth(P, n)
  <2>1. Len(s) \in Nat /\ P \in SUBSET (1..Len(s)) /\ m \in 1..Len(s)
        BY DEF IsSeq
  <2> QED BY <2>1, NthOfMore
<1>2. IsSeq(At(s, P)) /\ DOMAIN At(s, P) = 1..c /\ \A n \in 1..c : At(s, P)[n] = s[Nth(P, n)]
      BY AtIs DEF At
<1>3. Len(At(s, P)) = c
      BY <1>1, <1>2 DEF IsSeq
<1>4. IsSeq(<<s[m]>>) /\ Len(<<s[m]>>) = 1 /\ <<s[m]>>[1] = s[m]
      BY DEF IsSeq
<1>5. /\ IsSeq(rhs) /\ Len(rhs) = c + 1 /\ \A n \in 1..c : rhs[n] = s[Nth(P, n)]
      /\ \A n \in c + 1..c + 1 : rhs[n] = s[m]
  <2> HIDE DEF c
  <2>1. /\ IsSeq(rhs) /\ Len(rhs) = c + 1 /\ \A n \in 1..c : rhs[n] = At(s, P)[n]
        /\ \A n \in c + 1..c + 1 : rhs[n] = <<s[m]>>[n - c]
        BY <1>2, <1>3, <1>4, AfterIs
  <2>2. \A n \in c + 1..c + 1 : n - c = 1
        BY <1>1
  <2> QED BY <1>2, <1>4, <2>1, <2>2
<1>6. lhs = [n \in 1..c + 1 |-> IF n = c + 1 THEN s[m] ELSE s[Nth(P, n)]]
  <2> HIDE DEF c
  <2>1. lhs = [n \in 1..c + 1 |-> s[Nth(P \cup {m}, n)]]
        BY <1>1 DEF At
  <2>2. \A n \in 1..c + 1 : s[Nth(P \cup {m}, n)] = IF n = c + 1 THEN s[m] ELSE s[Nth(P, n)]
        BY <1>1
  <2> QED BY <2>1, <2>2
<1>7. rhs = [n \in 1..c + 1 |-> IF n = c + 1 THEN s[m] ELSE s[Nth(P, n)]]
  <2> HIDE DEF c, rhs
  <2>1. rhs = [n \in 1..c + 1 |-> rhs[n]]
        BY <1>5 DEF IsSeq
  <2>2. \A n \in 1..c + 1 : rhs[n] = IF n = c + 1 THEN s[m] ELSE s[Nth(P, n)]
        BY <1>1, <1>5
  <2> QED BY <2>1, <2>2
<1> QED BY <1>6, <1>7

\* All of a sequence.
LEMMA AtAll ==
  ASSUME NEW s, IsSeq(s)
  PROVE  At(s, DOMAIN s) = s
<1>1. Len(s) \in Nat /\ DOMAIN s = 1..Len(s) /\ s = [i \in 1..Len(s) |-> s[i]]
      BY DEF IsSeq
<1>2. Cardinality(1..Len(s)) = Len(s)
      BY <1>1, FS_Interval
<1>3. ASSUME NEW n \in 1..Len(s) PROVE Nth(1..Len(s), n) = n
  <2>1. PICK k \in 1..Len(s) : Nth(1..Len(s), k) = n
        BY <1>1, <1>2, NthIs
  <2>2. Cardinality(Lower(1..Len(s), n)) = k - 1
        BY <1>1, <1>2, <2>1, NthIs
  <2>3. Lower(1..Len(s), n) = 1..n - 1
        BY <1>1 DEF Lower
  <2>4. Cardinality(1..n - 1) = n - 1
        BY <1>1, FS_Interval
  <2>5. k = n
        BY <1>1, <2>2, <2>3, <2>4
  <2> QED BY <2>1, <2>5
<1> QED BY <1>1, <1>2, <1>3 DEF At

\* No position, no element.
LEMMA AtNone == ASSUME NEW s PROVE At(s, {}) = <<>>
BY FS_EmptySet DEF At

LEMMA NothingBefore == ASSUME NEW s, IsSeq(s) PROVE <<>> \o s = s /\ s \o <<>> = s
<1>1. IsSeq(<<>>) /\ Len(<<>>) = 0
      BY DEF IsSeq
<1>2. /\ IsSeq(<<>> \o s) /\ Len(<<>> \o s) = 0 + Len(s)
      /\ \A n \in 0 + 1..0 + Len(s) : (<<>> \o s)[n] = s[n - 0]
      /\ IsSeq(s \o <<>>) /\ Len(s \o <<>>) = Len(s) + 0
      /\ \A n \in 1..Len(s) : (s \o <<>>)[n] = s[n]
      BY <1>1, AfterIs
<1>3. PICK l, r : l = <<>> \o s /\ r = s \o <<>>
      OBVIOUS
<1>4. /\ IsSeq(l) /\ Len(l) = Len(s) /\ \A n \in 1..Len(s) : l[n] = s[n]
      /\ IsSeq(r) /\ Len(r) = Len(s) /\ \A n \in 1..Len(s) : r[n] = s[n]
      BY <1>2, <1>3 DEF IsSeq
<1>5. l = s /\ r = s
      BY <1>4 DEF IsSeq
<1> QED BY <1>3, <1>5

\* The label of a key is an item, a name of the key or the 0x form of its usage.
IsItemOf(t, u) ==
  /\ t.neg = FALSE
  /\ \/ ParseItem(t.body).is = "usage" /\ ParseItem(t.body).usage = u /\ ~IsKey(t.body)
     \/ /\ ParseItem(t.body).is = "name" /\ ParseItem(t.body).name = t.body
        /\ IsKey(t.body) /\ UsageForName(t.body[1]) = u

\* A name that is no other word.
LEMMA WordIsName ==
  ASSUME NEW w, w \in KeyNames \cup DOMAIN Builtin
  PROVE  ParseItem(<<w>>).is = "name" /\ ParseItem(<<w>>).name = <<w>>
<1>1. w \notin {"all"} \cup DOMAIN HexWords
      BY SelectorAssumption
<1>2. <<w>> # <<"all">> /\ <<w>> # <<>> /\ <<w>>[1] = w /\ Len(<<w>>) = 1
      BY <1>1
<1> QED BY <1>1, <1>2 DEF ParseItem

LEMMA UsageOfRow ==
  ASSUME NEW i \in DOMAIN Table
  PROVE  /\ UsagesForName(Table[i][1]) = {Table[i][2]} /\ UsageForName(Table[i][1]) = Table[i][2]
         /\ IsKeyName(Table[i][1]) /\ Table[i][2] \in 2..MaxUsage /\ Table[i][2] \in Nat
<1>1. UsagesForName(Table[i][1]) = {Table[i][2]}
      BY SelectorAssumption DEF UsagesForName
<1>2. Table[i] \in STRING \X (2..MaxUsage)
  <2>1. IsSeq(Table)
        BY SelectorAssumption, SeqIsSeq
  <2> QED BY <2>1, SelectorAssumption, ElementOfSeq DEF IsSeq
<1> QED BY <1>1, <1>2, SelectorAssumption DEF UsageForName, IsKeyName

LEMMA KeyIsRow ==
  ASSUME NEW w, IsKeyName(w)
  PROVE  w \in KeyNames /\ UsageForName(w) \in ToSet(TableUsages) /\ UsageForName(w) \in 2..MaxUsage
<1>1. PICK i \in DOMAIN Table : Table[i][1] = w
      BY DEF IsKeyName, UsagesForName
<1>2. UsageForName(w) = Table[i][2] /\ Table[i][2] \in 2..MaxUsage
      BY <1>1, UsageOfRow
<1> QED BY <1>1, <1>2 DEF KeyNames, ToSet, TableUsages

LEMMA PlainIs ==
  ASSUME NEW label, NEW body, label = Plain(body)
  PROVE  label = <<label[1]>> /\ label = Plain(label[1].body) /\ label[1].neg = FALSE /\ label[1].body = body
<1>1. PICK t : t = [neg |-> FALSE, body |-> body]
      OBVIOUS
<1>2. label = <<t>>
      BY <1>1 DEF Plain
<1>3. label[1] = t
      BY <1>2
<1>4. t.neg = FALSE /\ t.body = body
      BY <1>1
<1> QED BY <1>2, <1>3, <1>4

LEMMA LabelIs ==
  ASSUME NEW u \in 0..MaxUsage
  PROVE  Label(u) = <<Label(u)[1]>> /\ Label(u) = Plain(Label(u)[1].body) /\ IsItemOf(Label(u)[1], u)
<1>1. CASE u \in ToSet(TableUsages)
  <2> DEFINE w == CHOOSE x \in KeyNames : UsageForName(x) = u
  <2>1. PICK i \in DOMAIN Table : Table[i][2] = u
        BY <1>1 DEF ToSet, TableUsages
  <2>2. Table[i][1] \in KeyNames /\ UsageForName(Table[i][1]) = u
        BY <2>1, UsageOfRow DEF KeyNames
  <2>3. w \in KeyNames /\ UsageForName(w) = u
        BY <2>2
  <2>4. Label(u) = Plain(<<w>>)
        BY <1>1 DEF Label
  <2> HIDE DEF w
  <2>5. IsKeyName(w)
        BY <2>3, UsageOfRow DEF KeyNames
  <2>6. IsKey(<<w>>) /\ UsageForName(<<w>>[1]) = u /\ ParseItem(<<w>>).is = "name" /\ ParseItem(<<w>>).name = <<w>>
        BY <2>3, <2>5, WordIsName DEF IsKey
  <2>7. PICK t : t = Label(u)[1]
        OBVIOUS
  <2>8. Label(u) = <<t>> /\ Label(u) = Plain(t.body) /\ t.neg = FALSE /\ t.body = <<w>>
        BY <2>4, <2>7, PlainIs
  <2>9. IsItemOf(t, u)
        BY <2>6, <2>8 DEF IsItemOf
  <2> QED BY <2>7, <2>8, <2>9
<1>2. CASE u \notin ToSet(TableUsages)
  <2> DEFINE w == CHOOSE x \in DOMAIN HexWords : HexWords[x] = u
  <2>1. w \in DOMAIN HexWords /\ HexWords[w] = u
        BY SelectorAssumption
  <2>2. Label(u) = Plain(<<w>>)
        BY <1>2 DEF Label
  <2> HIDE DEF w
  <2>3. w # "all" /\ u # NoUsage /\ w \notin KeyNames
        BY <2>1, SelectorAssumption
  <2>4. <<w>> # <<"all">> /\ <<w>> # <<>> /\ <<w>>[1] = w /\ Len(<<w>>) = 1
        BY <2>3
  <2>5. ParseItem(<<w>>).is = "usage" /\ ParseItem(<<w>>).usage = u
        BY <2>1, <2>3, <2>4 DEF ParseItem
  <2>6. ~IsKey(<<w>>)
        BY <2>3, <2>4, KeyIsRow DEF IsKey
  <2>7. PICK t : t = Label(u)[1]
        OBVIOUS
  <2>8. Label(u) = <<t>> /\ Label(u) = Plain(t.body) /\ t.neg = FALSE /\ t.body = <<w>>
        BY <2>2, <2>7, PlainIs
  <2>9. IsItemOf(t, u)
        BY <2>5, <2>6, <2>8 DEF IsItemOf
  <2> QED BY <2>7, <2>8, <2>9
<1> QED BY <1>1, <1>2

\* What is found for such an item on a board that has the key.
LEMMA ItemFinds ==
  ASSUME NEW t, NEW u, IsItemOf(t, u), NEW universe, u \in ToSet(universe), NEW groups
  PROVE  /\ ParseItem(t.body).is # "error"
         /\ Expand(t.neg, ParseItem(t.body), universe, groups) =
              IF IsKey(t.body) /\ Plain(t.body) \in DOMAIN groups THEN Fault("AmbiguousWithGroup") ELSE Found(<<u>>)
<1>1. CASE ParseItem(t.body).is = "usage" /\ ParseItem(t.body).usage = u /\ ~IsKey(t.body)
      BY <1>1 DEF Expand, OneKey
<1>2. CASE /\ ParseItem(t.body).is = "name" /\ ParseItem(t.body).name = t.body
           /\ IsKey(t.body) /\ UsageForName(t.body[1]) = u
  <2>1. Expand(t.neg, ParseItem(t.body), universe, groups) = Named(t.neg, t.body, universe, groups)
        BY <1>2 DEF Expand
  <2> QED BY <1>2, <2>1 DEF Named, OneKey
<1> QED BY <1>1, <1>2 DEF IsItemOf

\* One key, included.
LEMMA IncludeOne ==
  ASSUME NEW out, IsSeq(out), NEW u
  PROVE  Include(out, <<u>>) = IF u \in ToSet(out) THEN out ELSE out \o <<u>>
<1> DEFINE P == {i \in DOMAIN <<u>> : /\ <<u>>[i] \notin ToSet(out)
                                     /\ \A j \in DOMAIN <<u>> : j < i => <<u>>[j] # <<u>>[i]}
<1>1. IsSeq(<<u>>) /\ DOMAIN <<u>> = {1} /\ <<u>>[1] = u
      BY DEF IsSeq
<1>2. Include(out, <<u>>) = out \o At(<<u>>, P)
      BY DEF Include
<1>3. CASE u \in ToSet(out)
  <2>1. P = {}
        BY <1>1, <1>3
  <2> HIDE DEF P
  <2>2. Include(out, <<u>>) = out \o <<>>
        BY <1>2, <2>1, AtNone
  <2> QED BY <1>3, <2>2, NothingBefore
<1>4. CASE u \notin ToSet(out)
  <2>1. P = {1} /\ DOMAIN <<u>> = {1}
        BY <1>1, <1>4
  <2>2. At(<<u>>, P) = <<u>>
        BY <1>1, <2>1, AtAll
  <2> HIDE DEF P
  <2> QED BY <1>2, <1>4, <2>2
<1> QED BY <1>3, <1>4

\* Of the first k positions of keys, those that hold something new.
New(keys, k) == {i \in 1..k : Fresh(keys, i)}

LEMMA NewOnes ==
  ASSUME NEW keys, IsSeq(keys), NEW k \in 0..Len(keys)
  PROVE  /\ New(keys, k) \in SUBSET DOMAIN keys /\ IsSeq(At(keys, New(keys, k)))
         /\ ToSet(At(keys, New(keys, k))) = {keys[i] : i \in 1..k}
<1>1. Len(keys) \in Nat /\ DOMAIN keys = 1..Len(keys)
      BY DEF IsSeq
<1>2. New(keys, k) \in SUBSET DOMAIN keys
      BY <1>1 DEF New
<1>3. IsSeq(At(keys, New(keys, k))) /\ ToSet(At(keys, New(keys, k))) = {keys[i] : i \in New(keys, k)}
      BY <1>2, AtIs
<1>4. ASSUME NEW i \in 1..k PROVE \E j \in New(keys, k) : keys[j] = keys[i]
  <2>1. i \in DOMAIN keys
        BY <1>1
  <2>2. keys[i] \in ToSet(keys)
        BY <2>1 DEF ToSet
  <2>3. PICK j \in DOMAIN keys : Fresh(keys, j) /\ keys[j] = keys[i]
        BY <2>2, FreshOnes
  <2>4. ~(i < j)
        BY <2>1, <2>3 DEF Fresh
  <2>5. j \in 1..k
        BY <1>1, <2>4
  <2> QED BY <2>3, <2>5 DEF New
<1>5. {keys[i] : i \in New(keys, k)} = {keys[i] : i \in 1..k}
  <2>1. New(keys, k) \subseteq 1..k
        BY DEF New
  <2> QED BY <1>4, <2>1
<1> QED BY <1>2, <1>3, <1>5

\* A text of items that are one key each comes to those keys, once, if none of
\* them is a group's name too.
LEMMA OneByOne ==
  ASSUME NEW keys, IsSeq(keys), NEW txt, IsSeq(txt), Len(txt) = Len(keys),
         \A i \in DOMAIN keys : IsItemOf(txt[i], keys[i]),
         NEW universe, ToSet(keys) \subseteq ToSet(universe), NEW groups
  PROVE  Resolve(txt, universe, groups) \in {Found(Once(keys)), Fault("AmbiguousWithGroup")}
<1>0. /\ Len(keys) \in Nat /\ DOMAIN keys = 1..Len(keys) /\ DOMAIN txt = 1..Len(keys)
      /\ \A i \in 1..Len(keys) : keys[i] \in ToSet(universe)
      BY DEF IsSeq, ToSet
<1>1. ASSUME NEW i \in 1..Len(keys)
      PROVE  /\ ParseItem(txt[i].body).is # "error" /\ txt[i].neg = FALSE
             /\ Expand(txt[i].neg, ParseItem(txt[i].body), universe, groups)
                  \in {Fault("AmbiguousWithGroup"), Found(<<keys[i]>>)}
  <2>1. PICK t, u : t = txt[i] /\ u = keys[i]
        OBVIOUS
  <2>2. IsItemOf(t, u) /\ u \in ToSet(universe)
        BY <1>0, <2>1
  <2>3. /\ ParseItem(t.body).is # "error"
        /\ Expand(t.neg, ParseItem(t.body), universe, groups) \in {Fault("AmbiguousWithGroup"), Found(<<u>>)}
        BY <2>2, ItemFinds
  <2>4. t.neg = FALSE
        BY <2>2 DEF IsItemOf
  <2> QED BY <2>1, <2>3, <2>4
<1>2. ParseErrors(txt) = {}
      BY <1>0, <1>1 DEF ParseErrors
<1>3. PICK f : IsRun(f, txt, universe, groups) /\ Resolve(txt, universe, groups) = f[Len(keys)]
      BY <1>2, ResolveIs
<1>4. f[0] = Found(<<>>) /\ \A k \in 1..Len(keys) : f[k] = Take(f[k - 1], txt[k], universe, groups)
  <2>1. f = [i \in 0..Len(keys) |-> IF i = 0 THEN Found(<<>>) ELSE Take(f[i - 1], txt[i], universe, groups)]
        BY <1>3 DEF IsRun
  <2>2. \A k \in 1..Len(keys) : k \in 0..Len(keys) /\ k # 0
        BY <1>0
  <2>3. 0 \in 0..Len(keys)
        BY <1>0
  <2> QED BY <2>1, <2>2, <2>3
<1> DEFINE Good(k) == f[k] \in {Found(At(keys, New(keys, k))), Fault("AmbiguousWithGroup")}
<1>5. Good(0)
  <2>1. New(keys, 0) = {}
        BY DEF New
  <2> QED BY <1>4, <2>1, AtNone
<1>6. ASSUME NEW k \in 0..Len(keys) - 1, Good(k) PROVE Good(k + 1)
  <2>0. PICK t, u, out, e : /\ t = txt[k + 1] /\ u = keys[k + 1] /\ out = At(keys, New(keys, k))
                            /\ e = Expand(t.neg, ParseItem(t.body), universe, groups)
        OBVIOUS
  <2>1. k + 1 \in 1..Len(keys) /\ (k + 1) - 1 = k /\ k \in 0..Len(keys)
        BY <1>0
  <2>2. f[k + 1] = Take(f[k], t, universe, groups)
        BY <1>4, <2>0, <2>1
  <2>3. t.neg = FALSE /\ e \in {Fault("AmbiguousWithGroup"), Found(<<u>>)}
        BY <1>1, <2>0, <2>1
  <2>4. CASE f[k] = Fault("AmbiguousWithGroup")
        BY <2>2, <2>4 DEF Take, Fault
  <2>5. CASE f[k] = Found(out) /\ e = Fault("AmbiguousWithGroup")
        BY <2>0, <2>2, <2>5 DEF Take, Fault, Found
  <2>6. CASE f[k] = Found(out) /\ e = Found(<<u>>)
    <3>1. f[k + 1] = Found(Include(out, <<u>>))
          BY <2>0, <2>2, <2>3, <2>6 DEF Take, Found
    <3>2. IsSeq(out) /\ ToSet(out) = {keys[i] : i \in 1..k} /\ New(keys, k) \in SUBSET DOMAIN keys
          BY <2>0, <2>1, NewOnes
    <3>3. Include(out, <<u>>) = IF u \in ToSet(out) THEN out ELSE out \o <<u>>
          BY <3>2, IncludeOne
    <3>4. Fresh(keys, k + 1) <=> u \notin ToSet(out)
      <4>1. \A j \in DOMAIN keys : j < k + 1 <=> j \in 1..k
            BY <1>0
      <4>2. 1..k \subseteq DOMAIN keys /\ k + 1 \in DOMAIN keys
            BY <1>0
      <4> QED BY <2>0, <3>2, <4>1, <4>2 DEF Fresh
    <3>5. CASE u \in ToSet(out)
      <4>1. New(keys, k + 1) = New(keys, k)
        <5>1. \A i \in 1..k + 1 : i \in 1..k \/ i = k + 1
              BY <2>1
        <5>2. 1..k \subseteq 1..k + 1
              BY <2>1
        <5> QED BY <3>4, <3>5, <5>1, <5>2 DEF New
      <4> QED BY <2>0, <3>1, <3>3, <3>5, <4>1
    <3>6. CASE u \notin ToSet(out)
      <4>1. New(keys, k + 1) = New(keys, k) \cup {k + 1}
        <5>1. \A i \in 1..k + 1 : i \in 1..k \/ i = k + 1
              BY <2>1
        <5>2. 1..k \subseteq 1..k + 1 /\ k + 1 \in 1..k + 1
              BY <2>1
        <5> QED BY <3>4, <3>6, <5>1, <5>2 DEF New
      <4>2. \A i \in New(keys, k) : i < k + 1
            BY <2>1 DEF New
      <4>3. k + 1 \in DOMAIN keys
            BY <1>0, <2>1
      <4>4. At(keys, New(keys, k + 1)) = out \o <<u>>
            BY <2>0, <3>2, <4>1, <4>2, <4>3, AtOfMore
      <4> QED BY <3>1, <3>3, <3>6, <4>4
    <3> QED BY <3>5, <3>6
  <2> QED BY <1>6, <2>0, <2>3, <2>4, <2>5, <2>6
<1>7. \A k \in 0..Len(keys) : Good(k)
  <2> HIDE DEF Good
  <2> DEFINE Stuck == {k \in 0..Len(keys) : ~Good(k)}
  <2> SUFFICES ASSUME Stuck # {} PROVE FALSE
      OBVIOUS
  <2>1. Stuck \subseteq Nat
        BY <1>0
  <2>2. Oldest(Stuck) \in Stuck /\ \A m \in Stuck : Oldest(Stuck) <= m
        BY <2>1, LeastOfNats
  <2>3. PICK n \in 0..Len(keys) : ~Good(n) /\ \A m \in 0..Len(keys) : ~Good(m) => n <= m
        BY <2>2
  <2>4. n # 0
        BY <1>5, <2>3
  <2>5. n - 1 \in 0..Len(keys) - 1 /\ n - 1 \in 0..Len(keys) /\ ~(n <= n - 1) /\ (n - 1) + 1 = n
        BY <1>0, <2>4
  <2>6. Good(n - 1)
        BY <2>3, <2>5
  <2>7. Good((n - 1) + 1)
        BY <1>6, <2>5, <2>6
  <2> QED BY <2>3, <2>5, <2>7
<1>8. New(keys, Len(keys)) = {i \in DOMAIN keys : \A j \in DOMAIN keys : j < i => keys[j] # keys[i]}
      BY <1>0 DEF New, Fresh
<1>9. At(keys, New(keys, Len(keys))) = Once(keys)
      BY <1>8 DEF Once
<1> QED BY <1>0, <1>3, <1>7, <1>9

\* What is printed of a group is read as the group, if it is read at all.
LEMMA PrintedReadsBack ==
  ASSUME NEW keys \in Seq(0..MaxUsage), NEW universe, ToSet(keys) \subseteq ToSet(universe), NEW groups
  PROVE  Resolve(ListLine(keys), universe, groups) \in {Found(Once(keys)), Fault("AmbiguousWithGroup")}
<1>1. IsSeq(keys) /\ \A i \in DOMAIN keys : keys[i] \in 0..MaxUsage
      BY SeqIsSeq, ElementOfSeq DEF IsSeq
<1>2. IsSeq(ListLine(keys)) /\ Len(ListLine(keys)) = Len(keys)
  <2>1. ListLine(keys) = [i \in 1..Len(keys) |-> Label(keys[i])[1]] /\ Len(keys) \in Nat
        BY <1>1 DEF ListLine, IsSeq
  <2>2. Len(ListLine(keys)) = Len(keys)
        BY <2>1
  <2> QED BY <2>1, <2>2 DEF IsSeq
<1>3. \A i \in DOMAIN keys : IsItemOf(ListLine(keys)[i], keys[i])
      BY <1>1, LabelIs DEF ListLine
<1> HIDE DEF ListLine
<1> QED BY <1>1, <1>2, <1>3, OneByOne

\* The label of a key selects it, unless it is the name of a group.
LEMMA LabelSelects ==
  ASSUME NEW u \in 0..MaxUsage, NEW universe, u \in ToSet(universe), NEW groups
  PROVE  ResolveKeys(Label(u), universe, groups) =
           IF Label(u) \in DOMAIN groups /\ IsKey(Label(u)[1].body)
           THEN Fault("AmbiguousWithGroup") ELSE Found(<<u>>)
<1>1. PICK t : t = Label(u)[1]
      OBVIOUS
<1>2. Label(u) = <<t>> /\ Label(u) = Plain(t.body) /\ IsItemOf(t, u)
      BY <1>1, LabelIs
<1>3. PICK e : e = IF IsKey(t.body) /\ Plain(t.body) \in DOMAIN groups THEN Fault("AmbiguousWithGroup") ELSE Found(<<u>>)
      OBVIOUS
<1>4. ParseItem(t.body).is # "error" /\ Expand(t.neg, ParseItem(t.body), universe, groups) = e
      BY <1>2, <1>3, ItemFinds
<1>5. Resolve(<<t>>, universe, groups) = Take(Found(<<>>), t, universe, groups)
      BY <1>4, AloneIs
<1>6. t.neg = FALSE
      BY <1>2 DEF IsItemOf
<1>7. Include(<<>>, <<u>>) = <<u>>
  <2>1. IsSeq(<<>>) /\ ToSet(<<>>) = {} /\ IsSeq(<<u>>)
        BY DEF IsSeq, ToSet
  <2>2. Include(<<>>, <<u>>) = <<>> \o <<u>>
        BY <2>1, IncludeOne
  <2> QED BY <2>1, <2>2, NothingBefore
<1>8. Take(Found(<<>>), t, universe, groups) = e
  <2>1. CASE e = Found(<<u>>)
        BY <1>4, <1>6, <1>7, <2>1 DEF Take, Found
  <2>2. CASE e = Fault("AmbiguousWithGroup")
        BY <1>4, <2>2 DEF Take, Found, Fault
  <2> QED BY <1>3, <2>1, <2>2
<1>9. e # Found(<<>>)
  <2>1. Found(<<u>>) # Found(<<>>)
        BY DEF Found
  <2>2. Fault("AmbiguousWithGroup") # Found(<<>>)
        BY DEF Found, Fault
  <2> QED BY <1>3, <2>1, <2>2
<1>10. ResolveKeys(Label(u), universe, groups) = e
      BY <1>2, <1>5, <1>8, <1>9 DEF ResolveKeys
<1> QED BY <1>1, <1>2, <1>3, <1>10

\* The usages no name stands for begin with 0x00 and 0x01.
LEMMA SentinelsAre == SentinelA = 0 /\ SentinelB = 1
<1>1. ToSet(TableUsages) \subseteq 2..MaxUsage
      BY UsageOfRow DEF ToSet, TableUsages
<1>2. MaxUsage \in Nat \ {0}
      BY SelectorAssumption
<1>3. 0 \in Absent /\ 1 \in Absent /\ Absent \subseteq Nat
      BY <1>1, <1>2 DEF Absent
<1>4. SentinelA = 0
  <2>1. \A v \in Absent : 0 <= v
        BY <1>3
  <2>2. \A u \in Absent : (\A v \in Absent : u <= v) => u = 0
        BY <1>3
  <2> QED BY <1>3, <2>1, <2>2 DEF SentinelA
<1>5. SentinelB = 1
  <2> DEFINE rest == Absent \ {SentinelA}
  <2>1. 1 \in rest /\ rest \subseteq Nat \ {0}
        BY <1>3, <1>4
  <2>2. \A v \in rest : 1 <= v
        BY <2>1
  <2>3. \A u \in rest : (\A v \in rest : u <= v) => u = 1
        BY <2>1
  <2> QED BY <2>1, <2>2, <2>3 DEF SentinelB
<1> QED BY <1>4, <1>5

LEMMA ItemOfBody ==
  ASSUME NEW body \in Seq(STRING), NEW item, item = ParseItem(body)
  PROVE  /\ item.is = "usage" => \E w \in DOMAIN HexWords : body = <<w>> /\ item.usage = HexWords[w]
         /\ item.is = "name" => item.name = body
         /\ item.is = "range" => item.from \in 2..MaxUsage
<1>1. IsSeq(body)
      BY SeqIsSeq
<1>2. ASSUME Len(body) = 1 PROVE body = <<body[1]>>
      BY <1>1, <1>2 DEF IsSeq
<1>3. ASSUME Len(body) = 2 PROVE body = <<body[1], body[2]>>
      BY <1>1, <1>3 DEF IsSeq
<1>4. ASSUME NEW lhs, NEW rhs, NEW r, r = ParseRange(lhs, rhs)
      PROVE  /\ r.is \in {"error", "name", "range"}
             /\ r.is = "name" => r.name = <<lhs, rhs>>
             /\ r.is = "range" => r.from \in 2..MaxUsage
  <2>1. CASE ~(IsKeyName(lhs) /\ IsKeyName(rhs))
        BY <1>4, <2>1 DEF ParseRange
  <2>2. CASE IsKeyName(lhs) /\ IsKeyName(rhs)
    <3>1. UsageForName(lhs) \in 2..MaxUsage
          BY <2>2, KeyIsRow
    <3> QED BY <1>4, <2>2, <3>1 DEF ParseRange
  <2> QED BY <2>1, <2>2
<1>5. CASE body = <<>> \/ body = <<"all">>
      BY <1>5 DEF ParseItem
<1>6. CASE body # <<>> /\ body # <<"all">> /\ body[1] \in DOMAIN HexWords
      BY <1>2, <1>6 DEF ParseItem
<1>7. CASE body # <<>> /\ body # <<"all">> /\ body[1] \notin DOMAIN HexWords /\ Len(body) = 2
  <2>1. item = ParseRange(body[1], body[2])
        BY <1>7 DEF ParseItem
  <2> QED BY <1>3, <1>4, <1>7, <2>1
<1>8. CASE body # <<>> /\ body # <<"all">> /\ body[1] \notin DOMAIN HexWords /\ Len(body) # 2
      BY <1>8 DEF ParseItem
<1> QED BY <1>5, <1>6, <1>7, <1>8

\* An item that speaks of a sentinel without writing it out is "all" or the name
\* of a group.
LEMMA SpeaksOfSentinel ==
  ASSUME NEW neg \in BOOLEAN, NEW body \in Seq(STRING), NEW v \in {0, 1}, NEW universe, NEW groups,
         NEW item, item = ParseItem(body), item.is # "error",
         Expand(neg, item, universe, groups).err = "none",
         \A w \in DOMAIN HexWords : body = <<w>> => HexWords[w] # v,
         v \in Extent(item, universe, groups), item.is # "all"
  PROVE  /\ item.is = "name" /\ item.name = body /\ ~IsKey(body) /\ ~IsBuiltin(body)
         /\ Plain(body) \in DOMAIN groups /\ v \in ToSet(groups[Plain(body)])
<1>1. item.is \in {"error", "all", "usage", "range", "name"}
      BY ItemIs
<1>2. /\ item.is = "usage" => \E w \in DOMAIN HexWords : body = <<w>> /\ item.usage = HexWords[w]
      /\ item.is = "name" => item.name = body
      /\ item.is = "range" => item.from \in 2..MaxUsage
      BY ItemOfBody
<1>3. item.is # "usage"
  <2> SUFFICES ASSUME item.is = "usage" PROVE FALSE
      OBVIOUS
  <2>1. v = item.usage
        BY DEF Extent
  <2> QED BY <1>2, <2>1
<1>4. item.is # "range"
  <2> SUFFICES ASSUME item.is = "range" PROVE FALSE
      OBVIOUS
  <2>1. item.from <= v
        BY DEF Extent
  <2> QED BY <1>2, <2>1, SelectorAssumption
<1>5. item.is = "name" /\ item.name = body
      BY <1>1, <1>2, <1>3, <1>4
<1>6. /\ v \in ExtentOfName(body, groups)
      /\ Named(neg, body, universe, groups).err = "none"
  <2>1. /\ Extent(item, universe, groups) = ExtentOfName(item.name, groups)
        /\ Expand(neg, item, universe, groups) = Named(neg, item.name, universe, groups)
        BY <1>5 DEF Extent, Expand
  <2> QED BY <1>5, <2>1
<1>7. ~IsKey(body)
  <2> SUFFICES ASSUME IsKey(body) PROVE FALSE
      OBVIOUS
  <2>1. v = UsageForName(body[1])
        BY <1>6 DEF ExtentOfName
  <2>2. UsageForName(body[1]) \in 2..MaxUsage
        BY KeyIsRow DEF IsKey
  <2> QED BY <2>1, <2>2, SelectorAssumption
<1>8. ~IsBuiltin(body)
  <2> SUFFICES ASSUME IsBuiltin(body) PROVE FALSE
      OBVIOUS
  <2>1. v \in ToSet(Builtin[body[1]])
        BY <1>6, <1>7 DEF ExtentOfName
  <2>2. Builtin[body[1]] \in Seq(ToSet(TableUsages))
        BY SelectorAssumption DEF IsBuiltin
  <2>3. v \in ToSet(TableUsages)
    <3>1. PICK b : b = Builtin[body[1]]
          OBVIOUS
    <3>2. b \in Seq(ToSet(TableUsages)) /\ IsSeq(b)
          BY <2>2, <3>1, SeqIsSeq
    <3>3. \A i \in DOMAIN b : b[i] \in ToSet(TableUsages)
          BY <3>2, ElementOfSeq DEF IsSeq
    <3> QED BY <2>1, <3>1, <3>3 DEF ToSet
  <2>4. PICK i \in DOMAIN Table : v = Table[i][2]
        BY <2>3 DEF ToSet, TableUsages
  <2> QED BY <2>4, UsageOfRow, SelectorAssumption
<1>9. Plain(body) \in DOMAIN groups
      BY <1>6, <1>7, <1>8 DEF Named, Fault
<1> QED BY <1>5, <1>6, <1>7, <1>8, <1>9 DEF ExtentOfName

\* A name that the check lets through, and that spells no sentinel, is one item,
\* and that is a name of no key and of no builtin group.
LEMMA UsableIsPlain ==
  ASSUME NEW n \in Selectors, CheckGroupNameUsable(n), ~SpellsSentinel(n)
  PROVE  /\ n = Plain(n[1].body) /\ ParseItem(n[1].body).is = "name" /\ ParseItem(n[1].body).name = n[1].body
         /\ ~IsKey(n[1].body) /\ ~IsBuiltin(n[1].body)
<1>0. PICK universe, groups : universe = <<0, 1>> /\ groups = [x \in {n} |-> <<0>>]
      OBVIOUS
<1> DEFINE r == Resolve(n, universe, groups)
<1>1. r = Found(<<0>>)
      BY <1>0, SentinelsAre DEF CheckGroupNameUsable, GroupNameIsReachable
<1>2. IsText(n) /\ DOMAIN n = 1..Len(n) /\ Len(n) \in Nat
      BY SelectorIsText DEF IsText, IsSeq
<1>3. IsSeq(universe) /\ ToSet(universe) = {0, 1}
  <2>1. IsSeq(<<0, 1>>) /\ ToSet(<<0, 1>>) = {0, 1}
    <3>1. Len(<<0, 1>>) = 2 /\ DOMAIN <<0, 1>> = {1, 2} /\ <<0, 1>>[1] = 0 /\ <<0, 1>>[2] = 1
          OBVIOUS
    <3>2. <<0, 1>> = [i \in 1..2 |-> <<0, 1>>[i]] /\ 1..2 = {1, 2}
          OBVIOUS
    <3> QED BY <3>1, <3>2 DEF IsSeq, ToSet
  <2> QED BY <1>0, <2>1
<1>4. IsSeq(<<0>>) /\ ToSet(<<0>>) = {0}
      BY DEF IsSeq, ToSet
<1>5. IsBoard(universe) /\ IsGroups(groups) /\ DOMAIN groups = {n} /\ groups[n] = <<0>>
      BY <1>0, <1>3, <1>4 DEF IsBoard, IsGroups
<1>6. /\ r.err = "none"
      /\ \A i \in DOMAIN n : Resolve(<<n[i]>>, universe, groups).err = "none"
      /\ ToSet(r.keys) = SelectedKeys(n, universe, groups)
  <2>1. r.err = "none"
        BY <1>1 DEF Found
  <2> HIDE DEF r
  <2> QED BY <1>2, <1>5, <2>1, FailsForAnItem DEF r
<1>7. \A u \in {0, 1} : u = 0 <=> Owed(n, u, universe, groups) # {}
  <2>1. SelectedKeys(n, universe, groups) = {0}
        BY <1>1, <1>4, <1>6 DEF Found
  <2> QED BY <1>3, <2>1 DEF SelectedKeys
<1>8. ASSUME NEW i \in DOMAIN n
       PROVE  /\ ParseItem(n[i].body).is # "error" /\ n[i].body \in Seq(STRING) /\ n[i].neg \in BOOLEAN
              /\ Expand(n[i].neg, ParseItem(n[i].body), universe, groups).err = "none"
              /\ \A w \in DOMAIN HexWords : n[i].body = <<w>> => HexWords[w] \notin {0, 1}
  <2>1. n[i] \in [neg : BOOLEAN, body : Seq(STRING)]
        BY <1>2, ElementOfSeq DEF Selectors
  <2>2. PICK l : l = Resolve(<<n[i]>>, universe, groups)
        OBVIOUS
  <2>3. l.err = "none" /\ l = IF ParseItem(n[i].body).is = "error" THEN Fault(ParseItem(n[i].body).why)
                              ELSE Take(Found(<<>>), n[i], universe, groups)
        BY <1>6, <2>2, AloneIs
  <2>4. ParseItem(n[i].body).is # "error"
    <3>1. ParseItem(n[i].body).is = "error" => ParseItem(n[i].body).why # "none"
          BY ItemIs
    <3> QED BY <2>3, <3>1 DEF Fault
  <2>5. Expand(n[i].neg, ParseItem(n[i].body), universe, groups).err = "none"
        BY <2>3, <2>4 DEF Take, Found
  <2>6. \A w \in DOMAIN HexWords : n[i].body = <<w>> => HexWords[w] \notin {0, 1}
        BY SentinelsAre DEF SpellsSentinel
  <2> QED BY <2>1, <2>4, <2>5, <2>6
<1>9. PICK i \in DOMAIN n : /\ Mentions(n, i, 0, universe, groups)
                           /\ \A j \in DOMAIN n : j >= i /\ Mentions(n, j, 0, universe, groups) => ~n[j].neg
       BY <1>7 DEF Owed
<1>10. ASSUME NEW j \in DOMAIN n, NEW u \in {0, 1}, Mentions(n, j, u, universe, groups), ParseItem(n[j].body).is # "all"
       PROVE  /\ ParseItem(n[j].body).is = "name" /\ ParseItem(n[j].body).name = n[j].body
              /\ ~IsKey(n[j].body) /\ ~IsBuiltin(n[j].body) /\ Plain(n[j].body) = n /\ u = 0
  <2>1. PICK t, item : t = n[j] /\ item = ParseItem(t.body)
        OBVIOUS
  <2>2. u \in Extent(item, universe, groups)
        BY <1>10, <2>1 DEF Mentions
  <2>3. /\ t.neg \in BOOLEAN /\ t.body \in Seq(STRING) /\ item.is # "error" /\ item.is # "all"
        /\ Expand(t.neg, item, universe, groups).err = "none"
        /\ \A w \in DOMAIN HexWords : t.body = <<w>> => HexWords[w] # u
        BY <1>8, <1>10, <2>1
  <2>4. /\ item.is = "name" /\ item.name = t.body /\ ~IsKey(t.body) /\ ~IsBuiltin(t.body)
        /\ Plain(t.body) \in DOMAIN groups /\ u \in ToSet(groups[Plain(t.body)])
    <3>1. PICK neg, body : neg = t.neg /\ body = t.body
          OBVIOUS
    <3>2. neg \in BOOLEAN /\ body \in Seq(STRING) /\ item = ParseItem(body)
          BY <2>1, <2>3, <3>1
    <3>3. Expand(neg, item, universe, groups).err = "none" /\ \A w \in DOMAIN HexWords : body = <<w>> => HexWords[w] # u
          BY <2>3, <3>1
    <3>4. /\ item.is = "name" /\ item.name = body /\ ~IsKey(body) /\ ~IsBuiltin(body)
          /\ Plain(body) \in DOMAIN groups /\ u \in ToSet(groups[Plain(body)])
          BY <2>2, <2>3, <3>2, <3>3, SpeaksOfSentinel
    <3> QED BY <3>1, <3>4
  <2>5. Plain(t.body) = n /\ u = 0
        BY <1>4, <1>5, <2>4
  <2> QED BY <2>1, <2>4, <2>5
<1>11. ParseItem(n[i].body).is # "all"
  <2> SUFFICES ASSUME ParseItem(n[i].body).is = "all" PROVE FALSE
      OBVIOUS
  <2>1. \A j \in DOMAIN n : ParseItem(n[j].body).is = "all" => Mentions(n, j, 0, universe, groups) /\ Mentions(n, j, 1, universe, groups)
        BY <1>3 DEF Mentions, Extent
  <2>2. \A j \in DOMAIN n : Mentions(n, j, 1, universe, groups) => ParseItem(n[j].body).is = "all"
    <3> SUFFICES ASSUME NEW j \in DOMAIN n, Mentions(n, j, 1, universe, groups), ParseItem(n[j].body).is # "all" PROVE FALSE
        OBVIOUS
    <3> QED BY <1>10
  <2> DEFINE said  == {j \in DOMAIN n : Mentions(n, j, 1, universe, groups)}
             since == {k \in said : \A j \in said : j >= k => ~n[j].neg}
  <2>3. i \in since
        BY <1>9, <2>1, <2>2
  <2>4. since \subseteq Nat /\ Oldest(since) \in since /\ \A m \in since : Oldest(since) <= m
    <3>1. since \subseteq Nat
          BY <1>2
    <3> HIDE DEF since
    <3> QED BY <2>3, <3>1, LeastOfNats
  <2>5. Owed(n, 1, universe, groups) # {}
    <3>1. Owed(n, 1, universe, groups) = {k \in since : \A j \in since : k <= j}
          BY DEF Owed
    <3> HIDE DEF since
    <3> QED BY <2>4, <3>1
  <2> QED BY <1>7, <2>5
<1>12. /\ ParseItem(n[i].body).is = "name" /\ ParseItem(n[i].body).name = n[i].body
       /\ ~IsKey(n[i].body) /\ ~IsBuiltin(n[i].body) /\ Plain(n[i].body) = n
       BY <1>9, <1>10, <1>11
<1>13. n[1].body = n[i].body
  <2>1. PICK b : b = n[i].body
        OBVIOUS
  <2>2. n[1].body = b
        BY <1>12, <2>1, PlainIs
  <2> QED BY <2>1, <2>2
<1> QED BY <1>12, <1>13

\* Such a name, typed, is read as the group, if every key of it is there.
LEMMA NameReadsBack ==
  ASSUME NEW n, NEW body, n = Plain(body), ParseItem(body).is = "name", ParseItem(body).name = body,
         ~IsKey(body), ~IsBuiltin(body), NEW groups, n \in DOMAIN groups,
         NEW keys, keys = groups[n], IsSeq(keys), NEW universe, ToSet(keys) \subseteq ToSet(universe)
  PROVE  Resolve(n, universe, groups) = Found(Once(keys))
<1>1. PICK t : t = n[1]
      OBVIOUS
<1>2. n = <<t>> /\ t.neg = FALSE /\ t.body = body
      BY <1>1, PlainIs
<1>3. OnBoard(keys, universe) = keys
  <2>1. {i \in DOMAIN keys : keys[i] \in ToSet(universe)} = DOMAIN keys
        BY DEF ToSet
  <2> QED BY <2>1, AtAll DEF OnBoard
<1>4. Expand(FALSE, ParseItem(body), universe, groups) = Found(keys)
  <2>1. Expand(FALSE, ParseItem(body), universe, groups) = Named(FALSE, body, universe, groups)
        BY DEF Expand
  <2> QED BY <1>3, <2>1 DEF Named
<1>5. Include(<<>>, keys) = Once(keys)
  <2>1. ToSet(<<>>) = {}
        BY DEF ToSet
  <2>2. {i \in DOMAIN keys : /\ keys[i] \notin ToSet(<<>>)
                             /\ \A j \in DOMAIN keys : j < i => keys[j] # keys[i]}
          = {i \in DOMAIN keys : \A j \in DOMAIN keys : j < i => keys[j] # keys[i]}
        BY <2>1
  <2>3. Include(<<>>, keys) = <<>> \o Once(keys)
        BY <2>2 DEF Include, Once
  <2>4. IsSeq(Once(keys))
        BY AtIs DEF Once
  <2> QED BY <2>3, <2>4, NothingBefore
<1>6. Resolve(<<t>>, universe, groups) = Take(Found(<<>>), t, universe, groups)
      BY <1>2, AloneIs
<1>7. Take(Found(<<>>), t, universe, groups) = Found(Once(keys))
  <2>1. Expand(t.neg, ParseItem(t.body), universe, groups) = Found(keys)
        BY <1>2, <1>4
  <2>2. /\ Found(<<>>).err = "none" /\ Found(<<>>).keys = <<>>
        /\ Found(keys).err = "none" /\ Found(keys).keys = keys
        BY DEF Found
  <2> QED BY <1>2, <1>5, <2>1, <2>2 DEF Take
<1> QED BY <1>2, <1>6, <1>7

\* The name of a key or of a builtin group, when it is a group's too.
LEMMA TakenNameIsRefused ==
  ASSUME NEW n \in Selectors, Len(n) = 1, ~n[1].neg, IsKey(n[1].body) \/ IsBuiltin(n[1].body),
         NEW universe, NEW groups, n \in DOMAIN groups
  PROVE  Resolve(n, universe, groups) = Fault("AmbiguousWithGroup")
<1>1. PICK t : t = n[1]
      OBVIOUS
<1>2. IsSeq(n) /\ t \in [neg : BOOLEAN, body : Seq(STRING)] /\ n = <<t>>
  <2>1. IsSeq(n)
        BY SeqIsSeq DEF Selectors
  <2>2. t \in [neg : BOOLEAN, body : Seq(STRING)]
    <3>1. n \in Seq([neg : BOOLEAN, body : Seq(STRING)]) /\ 1 \in 1..Len(n)
          BY DEF Selectors
    <3> QED BY <1>1, <3>1, ElementOfSeq
  <2>3. n = <<t>>
        BY <1>1, <2>1 DEF IsSeq
  <2> QED BY <2>1, <2>2, <2>3
<1>3. PICK body : body = t.body
      OBVIOUS
<1>4. /\ body \in Seq(STRING) /\ (IsKey(body) \/ IsBuiltin(body)) /\ t.neg = FALSE
      /\ t = [neg |-> FALSE, body |-> body]
      BY <1>1, <1>2, <1>3
<1>5. n = Plain(body)
      BY <1>2, <1>4 DEF Plain
<1>6. ParseItem(body).is = "name" /\ ParseItem(body).name = body
  <2>1. Len(body) = 1 /\ body[1] \in KeyNames \cup DOMAIN Builtin
        BY <1>4, KeyIsRow DEF IsKey, IsBuiltin
  <2>2. PICK w \in KeyNames \cup DOMAIN Builtin : body = <<w>>
    <3>1. IsSeq(body)
          BY <1>4, SeqIsSeq
    <3>2. body = <<body[1]>>
          BY <2>1, <3>1 DEF IsSeq
    <3> QED BY <2>1, <3>2
  <2> QED BY <2>2, WordIsName
<1>7. Expand(FALSE, ParseItem(body), universe, groups) = Fault("AmbiguousWithGroup")
  <2>1. Expand(FALSE, ParseItem(body), universe, groups) = Named(FALSE, body, universe, groups)
        BY <1>6 DEF Expand
  <2> QED BY <1>4, <1>5, <2>1 DEF Named
<1>8. Resolve(<<t>>, universe, groups) = Take(Found(<<>>), t, universe, groups)
      BY <1>3, <1>6, AloneIs
<1>9. Take(Found(<<>>), t, universe, groups) = Fault("AmbiguousWithGroup")
  <2>1. Expand(t.neg, ParseItem(t.body), universe, groups) = Fault("AmbiguousWithGroup")
        BY <1>3, <1>4, <1>7
  <2> QED BY <2>1 DEF Take, Found, Fault
<1> QED BY <1>2, <1>8, <1>9

-----------------------------------------------------------------------------
(* Names in use were looked at.                                            *)

\* What g has under a name that no file had at first, or had something else
\* under, is there by the leave of the check.
Checked(g) ==
  \A n \in DOMAIN g : n \notin DOMAIN first \/ g[n] # first[n] => CheckGroupNameUsable(n)

\* A command past the check creates what it was asked about, and what it is about
\* to write is checked.
NamesChecked ==
  \A p \in Editors :
    /\ stage[p] \in {"resolve", "change"} => \A n \in Creates(cmd[p]) : CheckGroupNameUsable(n)
    /\ stage[p] = "change" => cmd[p].op # "group" \/ members[p] \in Seq(0..MaxUsage)
    /\ stage[p] = "publish" => Readable(held[p]) /\ Checked(held[p])

NInv == FInv /\ NamesChecked /\ Readable(Stored) /\ Checked(Stored)

LEMMA ChangeIsChecked ==
  ASSUME NEW c \in Commands, NEW keys, NEW g, Readable(g), Checked(g), Allowed(c, g),
         \A n \in Creates(c) : CheckGroupNameUsable(n),
         c.op # "group" \/ keys \in Seq(0..MaxUsage)
  PROVE  Readable(Change(c, keys, g)) /\ Checked(Change(c, keys, g))
<1>0. c.op \in {"group", "ungroup", "rename"} /\ c.name \in Selectors
      BY GroupsAssumption
<1>1. CASE c.op = "group"
  <2>1. CheckGroupNameUsable(c.name) /\ keys \in Seq(0..MaxUsage)
        BY <1>1 DEF Creates
  <2> QED BY <1>0, <1>1, <2>1 DEF Change, InsertGroup, Readable, Checked
<1>2. CASE c.op = "ungroup"
      BY <1>2 DEF Change, RemoveGroup, Restrict, Readable, Checked
<1>3. CASE c.op = "rename"
  <2>1. CheckGroupNameUsable(c.new) /\ c.new \in Selectors /\ c.name \in DOMAIN g
        BY <1>3, GroupsAssumption DEF Creates, Allowed
  <2> QED BY <1>3, <2>1 DEF Change, InsertGroup, RemoveGroup, Restrict, Readable, Checked
<1> QED BY <1>0, <1>1, <1>2, <1>3

LEMMA SeqOfItsOwn ==
  ASSUME NEW s, IsSeq(s), NEW S, ToSet(s) \subseteq S
  PROVE  s \in Seq(S)
<1>1. \A i \in 1..Len(s) : s[i] \in S
      BY DEF IsSeq, ToSet
<1> QED BY <1>1 DEF IsSeq

\* What a selector comes to is usages of the table.
LEMMA MembersAreUsages ==
  ASSUME NEW txt, IsText(txt), NEW g, IsGroups(g), Resolve(txt, TableUsages, g).err = "none"
  PROVE  Resolve(txt, TableUsages, g).keys \in Seq(0..MaxUsage)
<1>1. PICK r, keys : r = Resolve(txt, TableUsages, g) /\ keys = r.keys
      OBVIOUS
<1>2. IsSeq(keys) /\ ToSet(keys) = SelectedKeys(txt, TableUsages, g)
      BY <1>1, TableIsBoard, ResolveGivesSeq, FailsForAnItem
<1>3. SelectedKeys(txt, TableUsages, g) \subseteq ToSet(TableUsages)
      BY DEF SelectedKeys
<1>4. ToSet(TableUsages) \subseteq 0..MaxUsage
  <2>1. \A i \in DOMAIN Table : Table[i][2] \in 0..MaxUsage
        BY UsageOfRow, SelectorAssumption
  <2> QED BY <2>1 DEF ToSet, TableUsages
<1>5. ToSet(keys) \subseteq 0..MaxUsage
      BY <1>2, <1>3, <1>4
<1>6. keys \in Seq(0..MaxUsage)
      BY <1>2, <1>5, SeqOfItsOwn
<1> QED BY <1>1, <1>6

\* A step of p that does not touch the files.
LEMMA CheckedOffTheFiles ==
  ASSUME NInv, FInv', NEW p \in Editors, UNCHANGED <<json, toml, first>>,
         NEW s, NEW c, NEW keys, NEW g,
         stage' = [stage EXCEPT ![p] = s], cmd' = [cmd EXCEPT ![p] = c],
         members' = [members EXCEPT ![p] = keys], held' = [held EXCEPT ![p] = g],
         s \in {"resolve", "change"} => \A n \in Creates(c) : CheckGroupNameUsable(n),
         s = "change" => c.op # "group" \/ keys \in Seq(0..MaxUsage),
         s = "publish" => Readable(g) /\ Checked(g)
  PROVE  NInv'
<1>1. UNCHANGED Stored
      BY DEF Stored
<1>2. /\ DOMAIN stage' = Editors /\ stage'[p] = s /\ cmd'[p] = c /\ members'[p] = keys /\ held'[p] = g
      /\ \A q \in Editors \ {p} : /\ stage'[q] = stage[q] /\ cmd'[q] = cmd[q]
                                 /\ members'[q] = members[q] /\ held'[q] = held[q]
      BY DEF NInv, FInv, AtWork
<1>3. ASSUME NEW q \in Editors
      PROVE  /\ stage'[q] \in {"resolve", "change"} => \A n \in Creates(cmd[q])' : CheckGroupNameUsable(n)
             /\ stage'[q] = "change" => cmd'[q].op # "group" \/ members'[q] \in Seq(0..MaxUsage)
             /\ stage'[q] = "publish" => Readable(held'[q]) /\ Checked(held[q])'
  <2>1. CASE q = p
        BY <1>2, <2>1 DEF Creates, Checked
  <2>2. CASE q # p
        BY <1>2, <2>2 DEF NInv, NamesChecked, Creates, Checked
  <2> QED BY <2>1, <2>2
<1>4. NamesChecked'
      BY <1>3 DEF NamesChecked
<1>5. Readable(Stored)' /\ Checked(Stored)'
  <2>1. Readable(Stored) /\ Checked(Stored)
        BY DEF NInv
  <2> QED BY <1>1, <2>1 DEF Checked
<1> QED BY <1>4, <1>5 DEF NInv

LEMMA InitChecked == GroupsInit => NInv
<1> SUFFICES ASSUME GroupsInit PROVE NInv
    OBVIOUS
<1>1. Readable(Stored)
      BY GroupsAssumption DEF GroupsInit, Stored
<1>2. Checked(Stored) /\ NamesChecked
      BY DEF GroupsInit, Checked, NamesChecked
<1> QED BY <1>1, <1>2, InitIsGroups DEF NInv

LEMMA StepChecked == NInv /\ [GroupsNext]_groupsVars => NInv'
<1> SUFFICES ASSUME NInv, [GroupsNext]_groupsVars PROVE NInv'
    OBVIOUS
<1>f. FInv'
      BY StepIsGroups DEF NInv
<1> USE DEF GoTo
<1>0. ASSUME NEW p \in Editors
      PROVE  /\ cmd = [cmd EXCEPT ![p] = cmd[p]] /\ members = [members EXCEPT ![p] = members[p]]
             /\ held = [held EXCEPT ![p] = held[p]]
             /\ stage[p] # "idle" => cmd[p] \in Commands
             /\ stage[p] = "resolve" => cmd[p].op = "group"
             /\ stage[p] \in {"resolve", "change"} => \A n \in Creates(cmd[p]) : CheckGroupNameUsable(n)
             /\ stage[p] = "change" => cmd[p].op # "group" \/ members[p] \in Seq(0..MaxUsage)
             /\ stage[p] = "publish" => Readable(held[p]) /\ Checked(held[p])
      BY DEF NInv, FInv, AtWork, NamesChecked
<1>1. ASSUME NEW p \in Editors, NEW c \in Commands, Begin(p, c) PROVE NInv'
  <2>1. /\ members' = [members EXCEPT ![p] = members[p]] /\ held' = [held EXCEPT ![p] = held[p]]
        /\ stage' = [stage EXCEPT ![p] = "name"] /\ cmd' = [cmd EXCEPT ![p] = c]
        /\ UNCHANGED <<json, toml, first>>
        BY <1>0, <1>1 DEF Begin
  <2> QED BY <1>f, <2>1, CheckedOffTheFiles
<1>2. ASSUME NEW p \in Editors, NEW how, EndCommand(p, how), UNCHANGED <<json, toml, first>> PROVE NInv'
      BY <1>2, <1>f, CheckedOffTheFiles DEF EndCommand
<1>3. ASSUME NEW p \in Editors, CheckName(p) PROVE NInv'
  <2>1. CASE EndCommand(p, "refused")
        BY <1>2, <1>3, <2>1 DEF CheckName
  <2>2. CASE ~EndCommand(p, "refused")
    <3>1. PICK s, c, keys, g : /\ s = IF cmd[p].op = "group" THEN "resolve" ELSE "change"
                               /\ c = cmd[p] /\ keys = members[p] /\ g = held[p]
          OBVIOUS
    <3>2. /\ stage' = [stage EXCEPT ![p] = s] /\ UNCHANGED <<json, toml, first, cmd, members, held>>
          /\ \A n \in Creates(c) : CheckGroupNameUsable(n)
          BY <1>3, <2>2, <3>1 DEF CheckName
    <3>3. /\ cmd' = [cmd EXCEPT ![p] = c] /\ members' = [members EXCEPT ![p] = keys]
          /\ held' = [held EXCEPT ![p] = g]
          BY <1>0, <3>1, <3>2
    <3>4. s # "publish" /\ (s = "change" => c.op # "group")
          BY <3>1
    <3> QED BY <1>f, <3>2, <3>3, <3>4, CheckedOffTheFiles
  <2> QED BY <2>1, <2>2
<1>4. ASSUME NEW p \in Editors, ResolveMembers(p) PROVE NInv'
  <2>1. CASE EndCommand(p, "refused")
        BY <1>2, <1>4, <2>1 DEF ResolveMembers
  <2>2. CASE ~EndCommand(p, "refused")
    <3>1. PICK c, keys, g, gs : c = cmd[p] /\ keys = Selects(cmd[p], Stored).keys /\ g = held[p] /\ gs = Stored
          OBVIOUS
    <3>2. /\ Selects(c, gs).err = "none" /\ stage' = [stage EXCEPT ![p] = "change"]
          /\ UNCHANGED <<json, toml, first, cmd, held>> /\ members' = [members EXCEPT ![p] = keys]
          /\ stage[p] = "resolve" /\ keys = Selects(c, gs).keys
          BY <1>4, <2>2, <3>1 DEF ResolveMembers
    <3>3. c \in Commands /\ IsText(c.selector) /\ IsGroups(gs) /\ \A n \in Creates(c) : CheckGroupNameUsable(n)
          BY <1>0, <3>1, <3>2, CommandIs DEF NInv, FInv
    <3>4. keys \in Seq(0..MaxUsage)
          BY <3>2, <3>3, MembersAreUsages DEF Selects
    <3>5. cmd' = [cmd EXCEPT ![p] = c] /\ held' = [held EXCEPT ![p] = g]
          BY <1>0, <3>1, <3>2
    <3> QED BY <1>f, <3>2, <3>3, <3>4, <3>5, CheckedOffTheFiles
  <2> QED BY <2>1, <2>2
<1>5. ASSUME NEW p \in Editors, ReadAndChange(p) PROVE NInv'
  <2>1. CASE EndCommand(p, "refused")
        BY <1>2, <1>5, <2>1 DEF ReadAndChange
  <2>2. CASE ~EndCommand(p, "refused")
    <3>1. PICK c, keys, g, gs : /\ c = cmd[p] /\ keys = members[p] /\ gs = Stored
                                /\ g = Change(cmd[p], members[p], Stored)
          OBVIOUS
    <3>2. /\ Allowed(c, gs) /\ stage[p] = "change" /\ stage' = [stage EXCEPT ![p] = "publish"]
          /\ UNCHANGED <<json, toml, first, cmd, members>> /\ held' = [held EXCEPT ![p] = g]
          /\ g = Change(c, keys, gs)
          BY <1>5, <2>2, <3>1 DEF ReadAndChange
    <3>3. /\ c \in Commands /\ (\A n \in Creates(c) : CheckGroupNameUsable(n))
          /\ c.op # "group" \/ keys \in Seq(0..MaxUsage)
          BY <1>0, <3>1, <3>2
    <3>4. Readable(gs) /\ Checked(gs)
          BY <3>1 DEF NInv
    <3>5. Readable(g) /\ Checked(g)
          BY <3>2, <3>3, <3>4, ChangeIsChecked
    <3>6. cmd' = [cmd EXCEPT ![p] = c] /\ members' = [members EXCEPT ![p] = keys]
          BY <1>0, <3>1, <3>2
    <3> QED BY <1>f, <3>2, <3>5, <3>6, CheckedOffTheFiles
  <2> QED BY <2>1, <2>2
<1>6. ASSUME NEW p \in Editors, Publish(p) PROVE NInv'
  <2>1. Readable(Stored)' /\ Checked(Stored)'
    <3>1. Stored' = held[p] /\ first' = first /\ Readable(held[p]) /\ Checked(held[p])
          BY <1>0, <1>6 DEF Publish, Stored, File
    <3> QED BY <3>1 DEF Checked
  <2>2. NamesChecked'
    <3>1. /\ DOMAIN stage' = Editors /\ stage'[p] = "idle"
          /\ \A q \in Editors \ {p} : /\ stage'[q] = stage[q] /\ cmd'[q] = cmd[q]
                                     /\ members'[q] = members[q] /\ held'[q] = held[q]
          BY <1>6 DEF Publish, EndCommand, NInv, FInv, AtWork
    <3>2. first' = first
          BY <1>6 DEF Publish
    <3> QED BY <3>1, <3>2 DEF NInv, NamesChecked, Creates, Checked
  <2> QED BY <1>f, <2>1, <2>2 DEF NInv
<1>7. ASSUME NEW p \in Editors, Die(p) PROVE NInv'
      BY <1>2, <1>7 DEF Die
<1>8. CASE UNCHANGED groupsVars
  <2>1. UNCHANGED <<Stored, first, stage, cmd, members, held>>
        BY <1>8 DEF groupsVars, editVars, Stored
  <2>2. Readable(Stored)' /\ Checked(Stored)'
        BY <2>1 DEF NInv, Checked
  <2>3. NamesChecked'
        BY <2>1 DEF NInv, NamesChecked, Creates, Checked
  <2> QED BY <1>f, <2>2, <2>3 DEF NInv
<1> QED BY <1>1, <1>3, <1>4, <1>5, <1>6, <1>7, <1>8 DEF GroupsNext

\* The three things said of a group on file, and the one of labels.
LEMMA CheckedReadsBack == NInv => GroupsReadBack
<1> SUFFICES ASSUME NInv PROVE GroupsReadBack
    OBVIOUS
<1>1. ASSUME NEW n \in DOMAIN Stored
      PROVE  LET universe == TableUsages \o Stored[n]
                 typed    == Resolve(n, universe, Stored)
                 printed  == Resolve(ListLine(Stored[n]), universe, Stored)
             IN  /\ Made(n) /\ ~SpellsSentinel(n) => typed = Found(Once(Stored[n]))
                 /\ Len(n) = 1 /\ ~n[1].neg /\ (IsKey(n[1].body) \/ IsBuiltin(n[1].body))
                      => typed = Fault("AmbiguousWithGroup")
                 /\ printed \in {Found(Once(Stored[n])), Fault("AmbiguousWithGroup")}
  <2>1. PICK gs, keys, universe : gs = Stored /\ keys = Stored[n] /\ universe = TableUsages \o keys
        OBVIOUS
  <2>2. n \in Selectors /\ keys \in Seq(0..MaxUsage) /\ n \in DOMAIN gs /\ keys = gs[n]
        BY <2>1 DEF NInv, Readable
  <2>3. IsSeq(keys) /\ ToSet(keys) \subseteq ToSet(universe)
    <3>1. IsSeq(keys) /\ IsSeq(TableUsages)
          BY <2>2, SeqIsSeq, TableIsBoard DEF IsBoard
    <3> QED BY <2>1, <3>1, AfterIs
  <2>4. ASSUME Made(n), ~SpellsSentinel(n) PROVE Resolve(n, universe, gs) = Found(Once(keys))
    <3>1. CheckGroupNameUsable(n)
          BY <2>4 DEF Made, NInv, Checked
    <3>2. PICK body : body = n[1].body
          OBVIOUS
    <3>3. /\ n = Plain(body) /\ ParseItem(body).is = "name" /\ ParseItem(body).name = body
          /\ ~IsKey(body) /\ ~IsBuiltin(body)
          BY <2>2, <2>4, <3>1, <3>2, UsableIsPlain
    <3> QED BY <2>2, <2>3, <3>3, NameReadsBack
  <2>5. ASSUME Len(n) = 1, ~n[1].neg, IsKey(n[1].body) \/ IsBuiltin(n[1].body)
        PROVE  Resolve(n, universe, gs) = Fault("AmbiguousWithGroup")
        BY <2>2, <2>5, TakenNameIsRefused
  <2>6. Resolve(ListLine(keys), universe, gs) \in {Found(Once(keys)), Fault("AmbiguousWithGroup")}
        BY <2>2, <2>3, PrintedReadsBack
  <2> QED BY <2>1, <2>4, <2>5, <2>6
<1>2. ASSUME NEW universe \in Boards, NEW i \in DOMAIN universe
      PROVE  ResolveKeys(Label(universe[i]), universe, Stored)
               = IF Label(universe[i]) \in DOMAIN Stored /\ IsKey(Label(universe[i])[1].body)
                 THEN Fault("AmbiguousWithGroup") ELSE Found(<<universe[i]>>)
  <2>1. PICK u, gs : u = universe[i] /\ gs = Stored
        OBVIOUS
  <2>2. universe \in Seq(0..MaxUsage) /\ IsSeq(universe)
        BY GroupsAssumption, SeqIsSeq
  <2>3. u \in 0..MaxUsage /\ u \in ToSet(universe)
        BY <2>1, <2>2, ElementOfSeq DEF IsSeq, ToSet
  <2> QED BY <2>1, <2>3, LabelSelects
<1> QED BY <1>1, <1>2 DEF GroupsReadBack

\* However commands overlap and wherever they are killed: a group that one of
\* them made or renamed is what its name selects, and what the line printed for
\* it selects, for any table, builtin groups and commands (check_group_name_usable,
\* group_name_is_reachable, label).
THEOREM GroupsAlwaysReadBack == GroupsSpec => []GroupsReadBack
BY InitChecked, StepChecked, CheckedReadsBack, PTL DEF GroupsSpec
=============================================================================
