-------------------------------- MODULE Store --------------------------------
(***************************************************************************)
(* The backups directory: Store::save_backup, run by several `wh`          *)
(* processes at once, each of which may be killed between any two file     *)
(* operations.                                                             *)
(*                                                                         *)
(* A save writes its text to a temp file of its own, reads the clock,      *)
(* hard-links the temp file to the name the clock gives, trying the next   *)
(* name for as long as one is taken, and then lists the directory and      *)
(* removes the oldest names until KEEP_BACKUPS are left.  A name is its    *)
(* stamp: <secs>.<nanos> as one number.                                    *)
(***************************************************************************)
EXTENDS Naturals, Sequences, FiniteSetsExt, SequencesExt

CONSTANTS
  Procs,         \* the processes
  KEEP_BACKUPS,  \* how many backups rotation keeps
  Stamps,        \* the names there are; the first few are clock readings
  ClockReadings, \* what the clock may say
  SteadyClock,   \* whether the clock never goes back, and has moved on by a
                 \* name for each earlier save when a save is alone
  MaxSaves       \* bound: saves begun

ASSUME StoreAssumption ==
  /\ KEEP_BACKUPS \in Nat \ {0}
  /\ Stamps \subseteq Nat /\ ClockReadings \subseteq Stamps
  /\ SteadyClock \in BOOLEAN /\ MaxSaves \in Nat

VARIABLES
  backups,  \* the directory: the text under each published name
  temps,    \* temp files left behind, and the text each holds in full
  clock,    \* the latest reading of the clock
  pc,       \* where each process is in its save
  text,     \* the text it saves, one per save
  slot,     \* the name it will try next, then the name it got
  listing,  \* the names it listed and has not dealt with, oldest first
  alone,    \* no other process has been saving since it began
  outcome,  \* how its last save ended
  saves     \* saves begun

procVars == <<pc, text, slot, listing, alone, outcome>>
vars == <<backups, temps, clock, procVars, saves>>

Names == DOMAIN backups

Without(f, name) == [n \in DOMAIN f \ {name} |-> f[n]]
With(f, name, t) == [n \in DOMAIN f \cup {name} |-> IF n = name THEN t ELSE f[n]]

Oldest(s) == CHOOSE n \in s : \A m \in s : n <= m

-----------------------------------------------------------------------------
Init ==
  /\ backups = <<>> /\ temps = <<>> /\ clock = 0
  /\ pc = [p \in Procs |-> "idle"] /\ text = [p \in Procs |-> 0]
  /\ slot = [p \in Procs |-> 0] /\ listing = [p \in Procs |-> {}]
  /\ alone = [p \in Procs |-> TRUE] /\ outcome = [p \in Procs |-> "none"]
  /\ saves = 0

Goto(p, l) == pc' = [pc EXCEPT ![p] = l]

End(p, how) ==
  /\ Goto(p, "idle") /\ outcome' = [outcome EXCEPT ![p] = how]
  /\ text' = [text EXCEPT ![p] = 0] /\ slot' = [slot EXCEPT ![p] = 0]
  /\ listing' = [listing EXCEPT ![p] = {}]

Saving == {p \in Procs : pc[p] # "idle"}

\* create_new on a name made of the process id and a counter.
CreateTemp(p) ==
  /\ pc[p] = "idle" /\ saves < MaxSaves
  /\ saves' = saves + 1
  /\ text' = [text EXCEPT ![p] = saves + 1]
  /\ alone' = [q \in Procs |-> IF q = p THEN Saving = {} ELSE FALSE]
  /\ outcome' = [outcome EXCEPT ![p] = "none"]
  /\ temps' = With(temps, saves + 1, "part")
  /\ Goto(p, "write")
  /\ UNCHANGED <<backups, clock, slot, listing>>

\* Seeded fault: the temp file is linked without waiting for its text.
WriteTempLater(p) ==
  /\ pc[p] = "write"
  /\ Goto(p, "stamp")
  /\ UNCHANGED <<backups, temps, clock, text, slot, listing, alone, outcome, saves>>

WriteTemp(p) ==
  /\ pc[p] = "write"
  /\ \/ /\ temps' = With(temps, text[p], "whole")
        /\ Goto(p, "stamp") /\ UNCHANGED <<text, slot, listing, outcome>>
     \/ /\ temps' = Without(temps, text[p])
        /\ End(p, "error")
  /\ UNCHANGED <<backups, clock, alone, saves>>

\* The clock is read; before the epoch there is no stamp.
ReadClock(p) ==
  /\ pc[p] = "stamp"
  /\ \/ \E t \in ClockReadings :
          /\ SteadyClock => t >= clock + (IF alone[p] THEN saves - 1 ELSE 0)
          /\ clock' = t
          /\ slot' = [slot EXCEPT ![p] = t]
          /\ Goto(p, "link")
          /\ UNCHANGED <<temps, text, listing, outcome>>
     \/ /\ temps' = Without(temps, text[p])
        /\ End(p, "error")
        /\ UNCHANGED clock
  /\ UNCHANGED <<backups, alone, saves>>

Published(p) == [text |-> text[p], state |-> temps[text[p]]]

\* Seeded fault: publishing renames onto the name, taken or not.
LinkOver(p) ==
  /\ pc[p] = "link"
  /\ backups' = With(backups, slot[p], Published(p))
  /\ Goto(p, "unlink")
  /\ UNCHANGED <<temps, clock, text, slot, listing, alone, outcome, saves>>

Link(p) ==
  /\ pc[p] = "link"
  /\ \/ /\ slot[p] \notin Names
        /\ backups' = With(backups, slot[p], Published(p))
        /\ Goto(p, "unlink")
        /\ UNCHANGED slot
     \/ /\ slot[p] \in Names /\ slot[p] + 1 \in Stamps
        /\ slot' = [slot EXCEPT ![p] = @ + 1]
        /\ UNCHANGED <<backups, pc>>
  /\ UNCHANGED <<temps, clock, text, listing, alone, outcome, saves>>

LinkFails(p) ==
  /\ pc[p] = "link"
  /\ temps' = Without(temps, text[p])
  /\ End(p, "error")
  /\ UNCHANGED <<backups, clock, alone, saves>>

\* Best effort: the temp file may stay.
RemoveTemp(p) ==
  /\ pc[p] = "unlink"
  /\ temps' \in {Without(temps, text[p]), temps}
  /\ Goto(p, "list")
  /\ UNCHANGED <<backups, clock, text, slot, listing, alone, outcome, saves>>

List(p) ==
  /\ pc[p] = "list"
  /\ listing' = [listing EXCEPT ![p] = Names]
  /\ Goto(p, "stat")
  /\ UNCHANGED <<backups, temps, clock, text, slot, alone, outcome, saves>>

\* Each listed name is looked at; one that has gone meanwhile is an error.
Stat(p) ==
  /\ pc[p] = "stat"
  /\ \/ /\ listing[p] \subseteq Names
        /\ Goto(p, "rotate") /\ UNCHANGED <<text, slot, listing, outcome>>
     \/ /\ ~(listing[p] \subseteq Names)
        /\ End(p, "error")
  /\ UNCHANGED <<backups, temps, clock, alone, saves>>

\* Seeded fault: the listing is sorted newest first.
RotateNewest(p) ==
  LET newest == CHOOSE n \in listing[p] : \A m \in listing[p] : m <= n
  IN
  /\ pc[p] = "rotate" /\ Cardinality(listing[p]) > KEEP_BACKUPS
  /\ newest \in Names
  /\ backups' = Without(backups, newest)
  /\ listing' = [listing EXCEPT ![p] = @ \ {newest}]
  /\ UNCHANGED <<temps, clock, pc, text, slot, alone, outcome, saves>>

\* A name another process has removed already is an error, and ends the save
\* even though its backup is published.
Rotate(p) ==
  LET oldest == Oldest(listing[p])
  IN
  /\ pc[p] = "rotate" /\ Cardinality(listing[p]) > KEEP_BACKUPS
  /\ \/ /\ oldest \in Names
        /\ backups' = Without(backups, oldest)
        /\ listing' = [listing EXCEPT ![p] = @ \ {oldest}]
        /\ UNCHANGED <<pc, text, slot, outcome>>
     \/ /\ oldest \notin Names
        /\ End(p, "error")
        /\ UNCHANGED backups
  /\ UNCHANGED <<temps, clock, alone, saves>>

Finish(p) ==
  /\ pc[p] = "rotate" /\ Cardinality(listing[p]) <= KEEP_BACKUPS
  /\ End(p, "saved")
  /\ UNCHANGED <<backups, temps, clock, alone, saves>>

\* The process is killed: nothing it was doing is undone.
Crash(p) ==
  /\ pc[p] # "idle"
  /\ End(p, "killed")
  /\ UNCHANGED <<backups, temps, clock, alone, saves>>

Save(p) ==
  \/ CreateTemp(p) \/ WriteTemp(p) \/ ReadClock(p) \/ Link(p) \/ LinkFails(p)
  \/ RemoveTemp(p) \/ List(p) \/ Stat(p) \/ Rotate(p) \/ Finish(p)

Next == \E p \in Procs : Save(p) \/ Crash(p)

Spec == Init /\ [][Next]_vars

-----------------------------------------------------------------------------
(* Properties.                                                             *)

\* Whatever is listed as a backup is the whole text of one save, however many
\* processes save at once and wherever they are killed.
BackupsAreWhole ==
  \A n \in Names :
    /\ backups[n].state = "whole"
    /\ \A m \in Names : backups[m].text = backups[n].text => m = n

\* A published backup stays as it is, never replaced by another under its name,
\* until rotation, working from a listing that may be stale, removes it, and
\* then it has KEEP_BACKUPS newer ones beside it.
OnlyTheOldestGo ==
  [][\A n \in Names :
       IF n \in DOMAIN backups' THEN backups'[n] = backups[n]
       ELSE Cardinality({m \in Names : m > n}) >= KEEP_BACKUPS]_vars

\* When a command that had the directory to itself says "(backed up to ...)"
\* and goes on to write, that backup is there ("this auto-backup is the only
\* way back"), whatever names earlier saves that overlapped have taken ahead of
\* the clock.
SavedIsThere ==
  [][\A p \in Procs :
       outcome[p] = "none" /\ outcome'[p] = "saved" /\ alone[p] =>
         \E n \in DOMAIN backups' : backups'[n].text = text[p]]_vars
=============================================================================
