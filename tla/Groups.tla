------------------------------- MODULE Groups -------------------------------
(***************************************************************************)
(* `wh keys group`, `ungroup` and `rename`: each reads the group file,     *)
(* changes what it read, and renames a new file over the old one.  Nothing *)
(* holds two processes apart, and either may be killed anywhere.  A group  *)
(* is a sequence of usages under a name that a selector may be typed as.   *)
(*                                                                         *)
(* The groups are those of config.json or, as long as there is none, those *)
(* of the config.toml an earlier version wrote, which is never written.    *)
(***************************************************************************)
EXTENDS Selector

CONSTANTS
  Editors,      \* the processes
  Commands,     \* the command lines the operator may type
  PlainNames,   \* the names check_group_name_usable lets through, for GroupMap
  Texts,        \* selectors to try
  Boards,       \* sequences of usages to try them on
  InitialJson,  \* the files config.json may be at first
  InitialToml,  \* and those config.toml may be
  MaxCommands,  \* bound: commands run
  None

\* What may be typed as a selector.
Selectors == Seq([neg : BOOLEAN, body : Seq(STRING)])

\* What a file may have: names, and usages under them, any of them twice too.
Readable(groups) ==
  \A n \in DOMAIN groups : n \in Selectors /\ groups[n] \in Seq(0..MaxUsage)

ASSUME GroupsAssumption ==
  /\ MaxCommands \in Nat
  /\ \A c \in Commands :
       /\ c.op \in {"group", "ungroup", "rename"} /\ c # None
       /\ c.name \in Selectors
       /\ c.op = "rename" => c.new \in Selectors
       /\ c.op = "group" => c.selector \in Selectors
  /\ Texts \subseteq Selectors /\ Boards \subseteq Seq(0..MaxUsage)
  /\ \A f \in InitialJson \cup InitialToml : Readable(f.groups)

VARIABLES
  json,     \* config.json
  toml,     \* config.toml
  stage,    \* where each process is
  cmd,      \* the command it runs
  members,  \* the keys its selector named, in order
  held,     \* the groups it is about to write
  ended,    \* how its last command ended
  first,    \* the groups there were before any command
  named,    \* names a command was ever given
  overlap,  \* some command began while another was running
  started   \* commands begun

editVars == <<stage, cmd, members, held, ended>>
groupsVars == <<json, toml, editVars, first, named, overlap, started>>

\* A file there may be, and the groups in it.
NoFile == [there |-> FALSE, groups |-> <<>>]
File(g) == [there |-> TRUE, groups |-> g]

\* Store::groups: JSON wins when both exist.
Stored == IF json.there THEN json.groups ELSE toml.groups

-----------------------------------------------------------------------------
(* What a command makes of the groups it read.                             *)

NamesOf(c) == {c.name} \cup (IF c.op = "rename" THEN {c.new} ELSE {})

\* check_group_name_usable is asked of a name about to come into use.
Creates(c) == IF c.op = "rename" THEN {c.new} ELSE IF c.op = "group" THEN {c.name} ELSE {}

\* `wh keys group` needs no board: its selector is read against every key
\* there is a name for.
Selects(c, g) == Resolve(c.selector, TableUsages, g)

\* Seeded fault: a rename onto a name that is taken goes ahead.
AllowedTaken(c, g) ==
  /\ c.op \in {"ungroup", "rename"} => c.name \in DOMAIN g

Allowed(c, g) ==
  /\ c.op = "rename" => c.new \notin DOMAIN g
  /\ c.op \in {"ungroup", "rename"} => c.name \in DOMAIN g

InsertGroup(g, n, keys) == [x \in DOMAIN g \cup {n} |-> IF x = n THEN keys ELSE g[x]]
RemoveGroup(g, n) == Restrict(g, DOMAIN g \ {n})

Change(c, keys, g) ==
  CASE c.op = "group"   -> InsertGroup(g, c.name, keys)
    [] c.op = "ungroup" -> RemoveGroup(g, c.name)
    [] c.op = "rename"  -> InsertGroup(RemoveGroup(g, c.name), c.new, g[c.name])

-----------------------------------------------------------------------------
GroupsInit ==
  /\ json \in InitialJson /\ toml \in InitialToml
  /\ stage = [p \in Editors |-> "idle"] /\ cmd = [p \in Editors |-> None]
  /\ members = [p \in Editors |-> <<>>] /\ held = [p \in Editors |-> <<>>]
  /\ ended = [p \in Editors |-> "none"]
  /\ first = Stored /\ named = {} /\ overlap = FALSE /\ started = 0

GoTo(p, l) == stage' = [stage EXCEPT ![p] = l]

EndCommand(p, how) ==
  /\ GoTo(p, "idle") /\ ended' = [ended EXCEPT ![p] = how]
  /\ cmd' = [cmd EXCEPT ![p] = None] /\ members' = [members EXCEPT ![p] = <<>>]
  /\ held' = [held EXCEPT ![p] = <<>>]

Begin(p, c) ==
  /\ stage[p] = "idle" /\ started < MaxCommands
  /\ cmd' = [cmd EXCEPT ![p] = c] /\ ended' = [ended EXCEPT ![p] = "none"]
  /\ overlap' = (overlap \/ \E q \in Editors : stage[q] # "idle")
  /\ named' = named \cup NamesOf(c) /\ started' = started + 1
  /\ GoTo(p, "name")
  /\ UNCHANGED <<json, toml, first, members, held>>

CheckName(p) ==
  /\ stage[p] = "name"
  /\ \/ /\ \A n \in Creates(cmd[p]) : CheckGroupNameUsable(n)
        /\ GoTo(p, IF cmd[p].op = "group" THEN "resolve" ELSE "change")
        /\ UNCHANGED <<cmd, members, held, ended>>
     \/ /\ \E n \in Creates(cmd[p]) : ~CheckGroupNameUsable(n)
        /\ EndCommand(p, "refused")
  /\ UNCHANGED <<json, toml, first, named, overlap, started>>

\* `wh keys group` reads the groups once for its selector.
ResolveMembers(p) ==
  /\ stage[p] = "resolve"
  /\ LET r == Selects(cmd[p], Stored)
     IN  \/ /\ r.err = "none" /\ r.keys # <<>>
            /\ members' = [members EXCEPT ![p] = r.keys]
            /\ GoTo(p, "change")
            /\ UNCHANGED <<cmd, held, ended>>
         \/ /\ r.err # "none" \/ r.keys = <<>>
            /\ EndCommand(p, "refused")
  /\ UNCHANGED <<json, toml, first, named, overlap, started>>

\* set_group, remove_group and rename_group read them again.
ReadAndChange(p) ==
  /\ stage[p] = "change"
  /\ \/ /\ Allowed(cmd[p], Stored)
        /\ held' = [held EXCEPT ![p] = Change(cmd[p], members[p], Stored)]
        /\ GoTo(p, "publish")
        /\ UNCHANGED <<cmd, members, ended>>
     \/ /\ ~Allowed(cmd[p], Stored)
        /\ EndCommand(p, "refused")
  /\ UNCHANGED <<json, toml, first, named, overlap, started>>

\* Seeded fault: the file is written in place, and not all at once.
PublishInPlace(p) ==
  /\ stage[p] = "publish"
  /\ IF json.groups # <<>> THEN json' = File(<<>>) /\ UNCHANGED editVars
                           ELSE json' = File(held[p]) /\ EndCommand(p, "done")
  /\ UNCHANGED <<toml, first, named, overlap, started>>

\* A file of its own is written and renamed over config.json.
Publish(p) ==
  /\ stage[p] = "publish"
  /\ json' = File(held[p])
  /\ EndCommand(p, "done")
  /\ UNCHANGED <<toml, first, named, overlap, started>>

\* A file operation fails, or the process is killed: what is not renamed into
\* place never happened.
Die(p) ==
  /\ stage[p] # "idle"
  /\ EndCommand(p, "failed")
  /\ UNCHANGED <<json, toml, first, named, overlap, started>>

GroupsNext ==
  \E p \in Editors :
    \/ \E c \in Commands : Begin(p, c)
    \/ CheckName(p) \/ ResolveMembers(p) \/ ReadAndChange(p) \/ Publish(p) \/ Die(p)

GroupsSpec == GroupsInit /\ [][GroupsNext]_groupsVars

-----------------------------------------------------------------------------
(* Properties.                                                             *)

\* As long as they run one at a time, and killed anywhere, the commands
\* implement the map of groups: each takes effect in full or not at all, a group
\* gets the keys its selector means, config.toml's groups are carried over by
\* the first write, and a command is refused only for what rename_group, the
\* selector and the name check say.
Means(text, g) == SelectedKeys(text, TableUsages, [n \in DOMAIN g |-> SetToSeq(g[n])])
Refuses(text, g) ==
  \E i \in DOMAIN text :
    Resolve(<<text[i]>>, TableUsages, [n \in DOMAIN g |-> SetToSeq(g[n])]).err # "none"

Abstract == INSTANCE GroupMap
  WITH groups <- [n \in DOMAIN Stored |-> ToSet(Stored[n])], running <- cmd, outcome <- ended,
       Procs <- Editors, UsableNames <- PlainNames
GroupsAreAtomic == Abstract!Init /\ [][~overlap' => Abstract!Next]_(Abstract!vars)

\* Even when commands overlap, a group no command ever named is never lost or
\* changed: "a crash mid-write cannot truncate the config and drop every group
\* the user defined" (write_groups).
OthersSurvive ==
  \A n \in (DOMAIN first \cup DOMAIN Stored) \ named :
    n \in DOMAIN first \cap DOMAIN Stored /\ Stored[n] = first[n]

\* Whatever the groups on file, a selector means what it says, be it any of
\* Texts or one a command gives: on any board each key whose last mention is
\* not an exclusion is selected, once, in the order of the mentions; a key
\* named outright is never passed over in silence (Selector::parse, resolve).
SelectorsMeanWhatTheySay ==
  LET asked == IF started = 0 THEN Texts
               ELSE {cmd[p].selector : p \in {q \in Editors : stage[q] = "resolve"}}
  IN  \A text \in asked, universe \in Boards \cup {TableUsages} :
        MeansWhatItSays(text, universe, Stored)

\* Changed by some command, under this name.
Made(n) == n \notin DOMAIN first \/ Stored[n] # first[n]

\* Names that get past the check although the grammar never reads them as the
\* name of a group: group_name_is_reachable tries a name on the two usages it
\* takes for sentinels, and these write one of the two out, as in "0x00,0x00"
\* or "all,!0x01", so that the usage stored under them is found all the same.
SpellsSentinel(n) ==
  \E i \in DOMAIN n, w \in DOMAIN HexWords :
    n[i].body = <<w>> /\ HexWords[w] \in {SentinelA, SentinelB}

\* A group some command made or renamed is what its name selects, unless that
\* name spells a sentinel, and what the line printed for it selects.  A group
\* from elsewhere under the name of a key or of a builtin group is refused as a
\* selector, never taken for that key or group; and every key of a board is
\* selected by the label printed for it, unless a group has that name
\* (check_group_name_usable, group_name_is_reachable, AmbiguousWithGroup, label).
GroupsReadBack ==
  /\ \A n \in DOMAIN Stored :
       LET universe == TableUsages \o Stored[n]
           typed    == Resolve(n, universe, Stored)
           printed  == Resolve(ListLine(Stored[n]), universe, Stored)
       IN  /\ Made(n) /\ ~SpellsSentinel(n) => typed = Found(Once(Stored[n]))
           /\ Len(n) = 1 /\ ~n[1].neg /\ (IsKey(n[1].body) \/ IsBuiltin(n[1].body))
                => typed = Fault("AmbiguousWithGroup")
           /\ printed \in {Found(Once(Stored[n])), Fault("AmbiguousWithGroup")}
  /\ \A universe \in Boards : \A i \in DOMAIN universe :
       LET label == Label(universe[i])
       IN  ResolveKeys(label, universe, Stored)
             = IF label \in DOMAIN Stored /\ IsKey(label[1].body)
               THEN Fault("AmbiguousWithGroup") ELSE Found(<<universe[i]>>)
=============================================================================
