------------------------------ MODULE Selector ------------------------------
(***************************************************************************)
(* The key selectors of `--keys` and `wh keys group`, "all,!esc,f1-f4":    *)
(* how a text is parsed, how it is resolved against the keys of a board    *)
(* and the stored groups, and which names a group may be given.            *)
(*                                                                         *)
(* A text is the sequence of its items, an item its "!" and its body, a    *)
(* body its words: none when nothing is left of it, one, or the two on     *)
(* either side of its first "-".  Spaces around items, and case, are left  *)
(* out.  A group is stored under a text.                                   *)
(***************************************************************************)
EXTENDS Naturals, Sequences, SequencesExt

CONSTANTS
  Table,      \* TABLE: a sequence of <<name, usage>>
  Builtin,    \* the usages of each builtin group
  HexWords,   \* words that begin with 0x: a usage, or NoUsage
  NoUsage,
  MaxUsage    \* u8::MAX

KeyNames    == {Table[i][1] : i \in DOMAIN Table}
TableUsages == [i \in DOMAIN Table |-> Table[i][2]]

\* The table, one name to a usage, begins above 0x01; the 0x form writes every
\* usage; nothing else is written in that form or called "all"; and the builtin
\* groups are of keys in the table.
ASSUME SelectorAssumption ==
  /\ MaxUsage \in Nat \ {0} /\ NoUsage \notin 0..MaxUsage
  /\ Table \in Seq(STRING \X (2..MaxUsage))
  /\ \A i, j \in DOMAIN Table : Table[i][1] = Table[j][1] \/ Table[i][2] = Table[j][2] => i = j
  /\ \A u \in 0..MaxUsage : \E w \in DOMAIN HexWords : HexWords[w] = u
  /\ "all" \notin DOMAIN HexWords
  /\ (KeyNames \cup DOMAIN Builtin) \cap ({"all"} \cup DOMAIN HexWords) = {}
  /\ \A w \in DOMAIN Builtin : Builtin[w] \in Seq(ToSet(TableUsages))

Plain(body) == <<[neg |-> FALSE, body |-> body]>>

UsagesForName(w) == {Table[i][2] : i \in {j \in DOMAIN Table : Table[j][1] = w}}
UsageForName(w)  == CHOOSE u \in UsagesForName(w) : TRUE
IsKeyName(w)     == UsagesForName(w) # {}

IsKey(body)     == Len(body) = 1 /\ IsKeyName(body[1])
IsBuiltin(body) == Len(body) = 1 /\ body[1] \in DOMAIN Builtin

\* The outcome of reading a text or an item: an error, or keys in order.
Fault(why) == [err |-> why, keys |-> <<>>]
Found(keys) == [err |-> "none", keys |-> keys]

-----------------------------------------------------------------------------
(* Parts of a sequence.                                                    *)

\* The n-th of a set of positions, and what a sequence holds at them, in order.
Nth(P, n) == CHOOSE i \in P : Cardinality({j \in P : j < i}) = n - 1
At(s, P)  == [n \in 1..Cardinality(P) |-> s[Nth(P, n)]]

-----------------------------------------------------------------------------
(* Parsing.                                                                *)

\* The 0x form is looked for before a range, and a range only where at least
\* one side is a key: a name may have a hyphen.
ParseRange(lhs, rhs) ==
  IF IsKeyName(lhs) # IsKeyName(rhs) THEN [is |-> "error", why |-> "BadRange"]
  ELSE IF ~IsKeyName(lhs) THEN [is |-> "name", name |-> <<lhs, rhs>>]
  ELSE IF UsageForName(lhs) > UsageForName(rhs) THEN [is |-> "error", why |-> "Descending"]
  ELSE [is |-> "range", from |-> UsageForName(lhs), to |-> UsageForName(rhs)]

ParseItem(body) ==
  IF body = <<>> THEN [is |-> "error", why |-> "Empty"]
  ELSE IF body = <<"all">> THEN [is |-> "all"]
  ELSE IF body[1] \in DOMAIN HexWords THEN
         IF Len(body) = 1 /\ HexWords[body[1]] # NoUsage
         THEN [is |-> "usage", usage |-> HexWords[body[1]]]
         ELSE [is |-> "error", why |-> "BadHex"]
  ELSE IF Len(body) = 2 THEN ParseRange(body[1], body[2])
  ELSE [is |-> "name", name |-> body]

\* The items that cannot be parsed.
ParseErrors(text) == {i \in DOMAIN text : ParseItem(text[i].body).is = "error"}

-----------------------------------------------------------------------------
(* Resolving, item by item from the left.                                  *)

OnBoard(keys, universe) == At(keys, {i \in DOMAIN keys : keys[i] \in ToSet(universe)})

\* A key the operator names must be on the board, unless it is excluded.
OneKey(neg, u, universe) ==
  IF u \in ToSet(universe) THEN Found(<<u>>)
  ELSE IF neg THEN Found(<<>>)
  ELSE Fault("NotOnDevice")

Named(neg, name, universe, groups) ==
  IF (IsKey(name) \/ IsBuiltin(name)) /\ Plain(name) \in DOMAIN groups THEN Fault("AmbiguousWithGroup")
  ELSE IF IsKey(name) THEN OneKey(neg, UsageForName(name[1]), universe)
  ELSE IF IsBuiltin(name) THEN Found(OnBoard(Builtin[name[1]], universe))
  ELSE IF Plain(name) \in DOMAIN groups THEN Found(OnBoard(groups[Plain(name)], universe))
  ELSE Fault("Unknown")

Expand(neg, item, universe, groups) ==
  CASE item.is = "all"   -> Found(universe)
    [] item.is = "range" ->
         Found(OnBoard([i \in 1 .. item.to - item.from + 1 |-> item.from + i - 1], universe))
    [] item.is = "usage" -> OneKey(neg, item.usage, universe)
    [] item.is = "name"  -> Named(neg, item.name, universe, groups)

\* Seeded fault: a key that two items name is selected twice.
IncludeTwice(out, keys) == out \o keys

\* Each of keys that is not there yet, and of those that are equal the first.
Include(out, keys) ==
  out \o At(keys, {i \in DOMAIN keys : /\ keys[i] \notin ToSet(out)
                                       /\ \A j \in DOMAIN keys : j < i => keys[j] # keys[i]})

\* keys without what was there before.
Once(keys) == At(keys, {i \in DOMAIN keys : \A j \in DOMAIN keys : j < i => keys[j] # keys[i]})

Exclude(out, keys) == At(out, {i \in DOMAIN out : out[i] \notin ToSet(keys)})

\* What one item makes of what was selected so far.
Take(sofar, t, universe, groups) ==
  LET e == Expand(t.neg, ParseItem(t.body), universe, groups)
  IN  IF sofar.err # "none" THEN sofar
      ELSE IF e.err # "none" THEN e
      ELSE Found(IF t.neg THEN Exclude(sofar.keys, e.keys) ELSE Include(sofar.keys, e.keys))

Resolve(text, universe, groups) ==
  LET sofar[i \in 0..Len(text)] ==
        IF i = 0 THEN Found(<<>>) ELSE Take(sofar[i - 1], text[i], universe, groups)
  IN  IF ParseErrors(text) = {} THEN sofar[Len(text)]
      ELSE Fault(ParseItem(text[Nth(ParseErrors(text), 1)].body).why)

\* What `--keys` comes to on a board whose matrix holds `universe`.
ResolveKeys(text, universe, groups) ==
  LET r == Resolve(text, universe, groups)
  IN  IF r = Found(<<>>) THEN Fault("matches no keys") ELSE r

-----------------------------------------------------------------------------
(* Group names.                                                            *)

\* Two usages that no name stands for.
Absent    == 0..MaxUsage \ ToSet(TableUsages)
SentinelA == CHOOSE u \in Absent : \A v \in Absent : u <= v
SentinelB == CHOOSE u \in Absent \ {SentinelA} : \A v \in Absent \ {SentinelA} : u <= v

\* Would the name, typed as a selector, be read as this name and no other way?
GroupNameIsReachable(name) ==
  Resolve(name, <<SentinelA, SentinelB>>, [n \in {name} |-> <<SentinelA>>]) = Found(<<SentinelA>>)

LooksLikeHexForm(name) ==
  \E w \in DOMAIN HexWords : HexWords[w] # NoUsage /\ name = Plain(<<w>>)

\* Seeded fault: a name the grammar reads as something else will do.
UsableUnlessTaken(name) ==
  ~\E w \in KeyNames \cup DOMAIN Builtin : name = Plain(<<w>>)

CheckGroupNameUsable(name) ==
  /\ ~\E w \in KeyNames \cup DOMAIN Builtin : name = Plain(<<w>>)
  /\ ~LooksLikeHexForm(name)
  /\ GroupNameIsReachable(name)

\* How a key is printed: its name, or its usage in the 0x form.
Label(u) ==
  IF u \in ToSet(TableUsages)
  THEN Plain(<<CHOOSE w \in KeyNames : UsageForName(w) = u>>)
  ELSE Plain(<<CHOOSE w \in DOMAIN HexWords : HexWords[w] = u>>)

\* The members `wh keys list` prints for a group: an item for each.
ListLine(keys) == [i \in DOMAIN keys |-> Label(keys[i])[1]]

-----------------------------------------------------------------------------
(* What a selector says, without the order the code goes in.               *)

\* The keys one item talks of.
ExtentOfName(name, groups) ==
  IF IsKey(name) THEN {UsageForName(name[1])}
  ELSE IF IsBuiltin(name) THEN ToSet(Builtin[name[1]])
  ELSE ToSet(groups[Plain(name)])

Extent(item, universe, groups) ==
  CASE item.is = "all"   -> ToSet(universe)
    [] item.is = "range" -> {u \in ToSet(universe) : item.from <= u /\ u <= item.to}
    [] item.is = "usage" -> {item.usage}
    [] item.is = "name"  -> ExtentOfName(item.name, groups)

Mentions(text, i, u, universe, groups) == u \in Extent(ParseItem(text[i].body), universe, groups)

\* The item a key owes its place to: the first to include it since the last
\* to exclude it.
Owed(text, u, universe, groups) ==
  LET named == {i \in DOMAIN text : Mentions(text, i, u, universe, groups)}
      since == {i \in named : \A j \in named : j >= i => ~text[j].neg}
  IN  {i \in since : \A j \in since : i <= j}

SelectedKeys(text, universe, groups) ==
  {u \in ToSet(universe) : Owed(text, u, universe, groups) # {}}

\* A text fails for the first item that cannot be parsed, or else for the
\* first that fails by itself; otherwise it selects each key whose last
\* mention is not an exclusion, once, in the order of the items they owe
\* their places to, and within an item in its own.
MeansWhatItSays(text, universe, groups) ==
  LET r     == Resolve(text, universe, groups)
      alone == [i \in DOMAIN text |-> Resolve(<<text[i]>>, universe, groups)]
      at(u) == CHOOSE i \in Owed(text, u, universe, groups) : TRUE
      place(u) == CHOOSE n \in DOMAIN alone[at(u)].keys : alone[at(u)].keys[n] = u
      before(u, v) == \/ at(u) < at(v)
                      \/ at(u) = at(v) /\ place(u) < place(v)
      bad   == {i \in DOMAIN text : alone[i].err # "none"}
      blamed == IF ParseErrors(text) # {} THEN ParseErrors(text) ELSE bad
  IN  IF bad # {}
      THEN \E i \in blamed : r.err = alone[i].err /\ \A j \in blamed : i <= j
      ELSE /\ r.err = "none"
           /\ ToSet(r.keys) = SelectedKeys(text, universe, groups)
           /\ \A m, n \in DOMAIN r.keys : m < n => r.keys[m] # r.keys[n] /\ before(r.keys[m], r.keys[n])
           /\ \A i \in DOMAIN text :
                LET item == ParseItem(text[i].body)
                IN  item.is = "usage" \/ (item.is = "name" /\ IsKey(item.name))
                      => text[i].neg \/ Extent(item, universe, groups) \subseteq ToSet(universe)
=============================================================================
