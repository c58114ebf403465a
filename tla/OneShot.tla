------------------------------- MODULE OneShot -------------------------------
(***************************************************************************)
(* Commands run one after the other, each in a session of its own          *)
(* (with_session): it asks what its command needs, stops at the first      *)
(* error, prints one note for each kind of adjust-mode edge the session    *)
(* queued, and exits.  What an earlier command asked and did not wait for  *)
(* may still be with the board when the next one opens the device.         *)
(*                                                                         *)
(* Every command of this model reads the key matrix in three roundtrips,   *)
(* two rows each, and then one layout of every key those rows name         *)
(* (keyset::read_membership); some ask for the identity and the profile    *)
(* first (snapshot_from_device).                                           *)
(***************************************************************************)
EXTENDS Session, SequencesExt

CONSTANTS
  Prologues,   \* what commands ask before the matrix
  RowPairs,    \* the three matrix requests, in order
  KeysIn,      \* the per-key requests for the keys of a pair of rows
  MaxRuns      \* bound: commands run

\* The matrix requests have a command byte of their own, there is a key on
\* every pair of rows, and a key's value is one that a hand can change.
ASSUME OneShotAssumption ==
  /\ RowPairs \in Seq(Requests \ Echoed) \ {<<>>}
  /\ \A p \in Prologues : p \in Seq(Requests \ (Range(RowPairs) \cup Echoed))
  /\ \A r \in Range(RowPairs) :
       Cmd[r] # OrderCmd /\ \A q \in Requests : Cmd[q] = Cmd[r] => q \in Range(RowPairs)
  /\ KeysIn \in [Range(RowPairs) -> Seq(Echoed) \ {<<>>}]
  /\ Echoed \cap Fixed = {}
  /\ MaxRuns \in Nat /\ None \notin [req : Requests, from : Nat]

VARIABLES
  phase,    \* idle, or which part of the read is under way
  todo,     \* the requests that part has still to make
  askedAt,  \* the board's version when the last request was made
  got,      \* what was asked, when, and the reply taken for it, so far
  outcome,  \* how the last command ended
  notes,    \* the notes it printed
  clean,    \* no command so far began with the board owing answers
  few,      \* this one began with fewer matrix requests owed than it makes
  runs      \* commands begun

cmdVars == <<phase, todo, askedAt, got, outcome, notes, clean, few, runs>>
vars == <<sessionVars, cmdVars>>

Init ==
  /\ BoardInit /\ HostInit
  /\ phase = "idle" /\ todo = <<>> /\ askedAt = 0 /\ got = <<>>
  /\ outcome = "none" /\ notes = <<>>
  /\ clean = TRUE /\ few = TRUE /\ runs = 0

Owing ==
  /\ clean' = (clean /\ owed = <<>>)
  /\ few' = (Cardinality({i \in DOMAIN owed : owed[i] \in Range(RowPairs)}) < Len(RowPairs))

\* Seeded fault: the matrix of the last command is taken on trust.
BeginCached(prologue) ==
  /\ phase = "idle" /\ runs < MaxRuns
  /\ phase' = "keys" /\ todo' = FlattenSeq([i \in DOMAIN RowPairs |-> KeysIn[RowPairs[i]]])
  /\ got' = <<>> /\ outcome' = "none" /\ notes' = <<>> /\ runs' = runs + 1
  /\ Owing
  /\ wire' = <<>> /\ emitted' = <<>>
  /\ UNCHANGED <<version, adjusting, owed, hostVars, askedAt>>

\* Opening the device: what was sent before is not seen, what is still to be
\* sent will be.
Begin(prologue) ==
  /\ phase = "idle" /\ runs < MaxRuns
  /\ phase' = "matrix" /\ todo' = prologue \o RowPairs
  /\ got' = <<>> /\ outcome' = "none" /\ notes' = <<>> /\ runs' = runs + 1
  /\ Owing
  /\ wire' = <<>> /\ emitted' = <<>>
  /\ UNCHANGED <<version, adjusting, owed, hostVars, askedAt>>

Asking == call # None \/ result # None

AskNext ==
  /\ phase # "idle" /\ ~Asking
  /\ Ask(Head(todo))
  /\ askedAt' = version
  /\ UNCHANGED <<phase, todo, got, outcome, notes, clean, few, runs>>

-----------------------------------------------------------------------------
\* Seeded fault: entered first, left second.
NotesFixed(q) == Keeping(<<"entered", "left">>, Range(q))

\* One note per kind, in the order in which each kind last arrived.
Notes(q) ==
  LET last == {i \in DOMAIN q : q[i] \in Measured /\ \A j \in DOMAIN q : j > i => q[j] # q[i]}
      at   == Keeping([i \in 1..Len(q) |-> i], last)
  IN  [n \in 1..Len(at) |-> q[at[n]]]

Finish(how) ==
  /\ phase' = "idle" /\ todo' = <<>> /\ outcome' = how
  /\ notes' = Notes(queue) /\ queue' = <<>>

\* Keys join those already seen, each once.
Added(seen, keys) ==
  LET f[n \in 0..Len(keys)] ==
        IF n = 0 THEN seen
        ELSE IF keys[n] \in Range(f[n - 1]) THEN f[n - 1]
        ELSE Append(f[n - 1], keys[n])
  IN  f[Len(keys)]

\* The per-key requests that the rows among some replies ask for.
KeysOf(replies) ==
  LET f[n \in 0..Len(replies)] ==
        IF n = 0 THEN <<>>
        ELSE IF replies[n].reply.req \in Range(RowPairs) THEN Added(f[n - 1], KeysIn[replies[n].reply.req])
        ELSE f[n - 1]
  IN  f[Len(replies)]

Accepted == result # None /\ result.type = "ok" /\ Decodes(result.report, Head(todo))

TakeReply ==
  /\ phase # "idle" /\ Accepted
  /\ got' = Append(got, [asked |-> Head(todo), from |-> askedAt, reply |-> result.report])
  /\ result' = None
  /\ \/ /\ Len(todo) > 1
        /\ todo' = Tail(todo)
        /\ UNCHANGED <<phase, outcome, notes, queue>>
     \/ /\ Len(todo) = 1 /\ phase = "matrix"
        /\ phase' = "keys" /\ todo' = KeysOf(got')
        /\ UNCHANGED <<outcome, notes, queue>>
     \/ /\ Len(todo) = 1 /\ phase = "keys"
        /\ Finish("done")
  /\ UNCHANGED <<boardVars, call, askedAt, clean, few, runs>>

\* Seeded fault: a read that times out is left out instead of ending the command.
ReadFailsSkipping ==
  /\ phase # "idle" /\ result # None /\ ~Accepted
  /\ result' = None
  /\ \/ /\ result = Error("timeout") /\ Len(todo) > 1
        /\ todo' = Tail(todo)
        /\ UNCHANGED <<phase, outcome, notes, queue>>
     \/ /\ result # Error("timeout") \/ Len(todo) = 1
        /\ Finish("failed")
  /\ UNCHANGED <<boardVars, call, askedAt, got, clean, few, runs>>

ReadFails ==
  /\ phase # "idle" /\ result # None /\ ~Accepted
  /\ result' = None
  /\ Finish("failed")
  /\ UNCHANGED <<boardVars, call, askedAt, got, clean, few, runs>>

Board     == BoardNext /\ UNCHANGED <<hostVars, cmdVars>>
Roundtrip == RoundtripNext /\ UNCHANGED cmdVars

Next ==
  \/ Board \/ Roundtrip \/ AskNext \/ TakeReply \/ ReadFails
  \/ \E p \in Prologues : Begin(p)

Spec == Init /\ [][Next]_vars

-----------------------------------------------------------------------------
(* Properties.                                                             *)

KeysRead == {got[i].reply.req : i \in {j \in DOMAIN got : got[j].asked \in Echoed}}

\* A command that succeeds has read every key of the board: "whole-board by
\* construction: a caller cannot pass a partial view, which would let
\* next_index allocate an index a key outside that view already holds"
\* (keyset::read_membership).
WholeBoard ==
  outcome = "done" => KeysRead = UNION {Range(KeysIn[r]) : r \in Range(RowPairs)}

\* What a command takes for a key's value is that key's, as it was after the
\* command asked for it, even when the board still owed answers to earlier
\* commands: the matrix read in front of the keys takes every late answer off
\* the wire, unless as many matrix answers are late as the command asks for.
KeyValuesAreTrue ==
  \A i \in DOMAIN got : got[i].asked \in Echoed =>
    /\ got[i].reply.req = got[i].asked
    /\ few => got[i].reply.version >= got[i].from

\* The notes name each kind of edge the command heard once, and the last note
\* names what the board did last: it never leaves the operator with "entered"
\* for a board that has left, or the other way round.
NotesTellTheLast ==
  phase = "idle" /\ outcome # "none" =>
    LET sent  == EdgesIn(emitted)
        heard == SubSeq(sent, 1, Len(sent) - Len(OnWire))
    IN  /\ Range(notes) = Range(heard)
        /\ heard # <<>> => Last(notes) = Last(heard)

RR == INSTANCE RemoteRead WITH
        asking <- IF Asking THEN [req |-> Head(todo), from |-> askedAt] ELSE None,
        got    <- [i \in DOMAIN got |-> [req |-> got[i].reply.req, version |-> got[i].reply.version]]

\* As long as no command began with something still owed, the sessions
\* implement the reliable reader: every roundtrip returns an answer to its own
\* question, from after it was asked, or ends the command; and a command that
\* succeeds has seen every key.
ReadsAreReliable ==
  RR!Init /\ [][clean' => RR!Next]_(RR!vars) /\ [](clean => WholeBoard)
=============================================================================
