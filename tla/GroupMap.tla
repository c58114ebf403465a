------------------------------ MODULE GroupMap ------------------------------
(***************************************************************************)
(* What the group commands promise: named groups of keys, each command     *)
(* taking effect in full at one moment or not at all.                      *)
(***************************************************************************)
EXTENDS Naturals, FiniteSets

CONSTANTS
  Procs, Commands, UsableNames, None,
  Means(_, _),    \* the keys a selector means, given the groups
  Refuses(_, _)   \* whether it has no meaning

VARIABLES
  groups,   \* the keys of each group
  running,  \* the command each process runs
  outcome   \* how its last one ended

vars == <<groups, running, outcome>>

Taken == DOMAIN groups

\* What a command asks for, as a relation between the groups before and after.
Done(c) ==
  CASE c.op = "group" ->
         /\ c.name \in UsableNames /\ ~Refuses(c.selector, groups)
         /\ LET members == Means(c.selector, groups)
            IN  /\ members # {}
                /\ DOMAIN groups' = Taken \cup {c.name}
                /\ groups'[c.name] = members
                /\ \A g \in Taken \ {c.name} : groups'[g] = groups[g]
    [] c.op = "ungroup" ->
         /\ c.name \in Taken
         /\ DOMAIN groups' = Taken \ {c.name}
         /\ \A g \in DOMAIN groups' : groups'[g] = groups[g]
    [] c.op = "rename" ->
         /\ c.new \in UsableNames \ Taken /\ c.name \in Taken
         /\ DOMAIN groups' = (Taken \ {c.name}) \cup {c.new}
         /\ groups'[c.new] = groups[c.name]
         /\ \A g \in Taken \ {c.name} : groups'[g] = groups[g]

\* What it may be refused for.
Refusable(c) ==
  \/ c.op = "group" /\ \/ c.name \notin UsableNames
                       \/ Refuses(c.selector, groups)
                       \/ Means(c.selector, groups) = {}
  \/ c.op = "ungroup" /\ c.name \notin Taken
  \/ c.op = "rename" /\ (c.new \in Taken \/ c.new \notin UsableNames \/ c.name \notin Taken)

\* Whatever groups there are.
Init ==
  /\ running = [p \in Procs |-> None] /\ outcome = [p \in Procs |-> "none"]

Start(p, c) ==
  /\ running[p] = None
  /\ running' = [running EXCEPT ![p] = c] /\ outcome' = [outcome EXCEPT ![p] = "none"]
  /\ UNCHANGED groups

End(p, how) ==
  /\ running[p] # None
  /\ running' = [running EXCEPT ![p] = None] /\ outcome' = [outcome EXCEPT ![p] = how]

Next ==
  \E p \in Procs :
    \/ \E c \in Commands : Start(p, c)
    \/ End(p, "done") /\ Done(running[p])
    \/ End(p, "refused") /\ Refusable(running[p]) /\ UNCHANGED groups
    \/ End(p, "failed") /\ UNCHANGED groups

Spec == Init /\ [][Next]_vars
=============================================================================
