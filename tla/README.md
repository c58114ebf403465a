# Verification of `wh`, the keyboard command line and terminal interface

`wh` reads and writes the settings of one USB keyboard. The board has its own
*adjust mode*: its owner can change settings with the keys themselves while a
command is running, and the board announces entering and leaving that mode. All
of the program's difficulty comes from that second writer, from a pipe that can
be late or silent, from writes that take many reports, and from `wh` processes
that share a directory of backups and a file of groups.

This directory holds TLA+ models of those parts, the TLC configurations that
check small instances of them, and TLAPS proofs for every instance of all their safety
properties but one, the layout of a frame.

## The system

| Component | State | Operations | Meets |
|---|---|---|---|
| Keyset rules (`wh-device/keyset.rs`, `wh-cli/keyset.rs`) | none | membership, next index, plan, frames | write commands |
| Write commands (`wh-cli/run.rs`, `keyset.rs`) | selection, plan, backup path | read, plan, announce, confirm, back up, apply, verify, report | session, store, the board's hands |
| Session (`wh-device/session.rs`, `hid.rs`) | the pipe, the event queue | `roundtrip`, `roundtrip_many`, `poll_event` | everything that talks to the board |
| One-shot sessions (`run.rs` `with_session`) | one session, the notes | open, body, notes | session |
| Terminal interface (`wh-tui`) | model, locked, status, tabs, click rectangles, terminal modes | `tick`, keys, clicks, resizes, draw, enter and leave | one long session, the terminal |
| Key picker (`wh-cli/picker.rs`) | boxes, cursor, terminal modes | keys, draw, accept, cancel | write commands, the terminal |
| Key selectors (`wh-proto/select.rs`, `keys.rs`) | none | parse, resolve, label, name check | write commands, groups |
| Backup store (`wh-config/store.rs`) | `backups/*.json` | save, list, rotate, load | other `wh` processes |
| Groups (`store.rs`, `run.rs`) | `config.json`, `config.toml` | group, ungroup, rename | other `wh` processes |
| Bulk writes (`run.rs`, `ops.rs`): `set rt --set`, `set mm`, `restore`, `profile`, `backup` | the snapshot to restore | read, back up, write, verify | session, store |
| SOCD pairs (`socd.rs` of three crates) | plans | `list`, `pair`, `unpair` | session, store, `restore` |
| cli, codecs, formats, replay | - | pure functions and text | - |

The hard behaviours, with their lines, are the `hazards` of `PROJECT.json`. In
short: a late answer taken for the answer to something else; edges that arrive in
the middle of a roundtrip; values read, then edited by hand, then overwritten; a
roundtrip that fails between two frames of one write; keysets whose index gaps,
whole-board extent or global touch mode make two values look alike; two processes
saving or renaming at once, or killed on the way; a clock that goes back; a firmware
that acknowledges a frame and does something else; settings kept in two places (rows
and flags of a pair, profile and snapshot) that come apart when a command stops half way;
announcements worked out apart from the records they announce; a word that is a key, a
group and a range at once; keys and clicks that run ahead of the frame they are meant
for; a terminal that is entered in four steps, each of which may fail; a frame of any size.

What makes each component correct: the rules never hand out an index in use or
write the global touch nibble; a command changes a key whole or not at all, last
of all its membership, after consent and after a backup, and says "verified" only
of what was asked, and everything it announced comes true; a selector means on every
board what it says; the picker returns what it showed; a session gives a question its own answer or an error, and each
edge once, in order; the interface shows what a hand can change as of the last edge, or a note,
on a frame that is up to date and hides nothing, and gives the shell its terminal back; the
store keeps whole backups, the newest ones; the groups change one command at a
time; a restore changes its own profile only and can be undone; a pairing is shown,
made and ended as a whole, and no command ends another's.

## Modules

| Module | Models | Extends or composes |
|---|---|---|
| `Keyset` | the rules, as operators over boards and records | |
| `WriteCommand` | commands against a board that is edited by hand | `Keyset` |
| `Announce` | what a command says before it writes, against what it then did | `WriteCommand` |
| `WriteCommandProofs` | proofs, in four parts: the rules, what is planned and backed up, the order of a write and what it promises, what is announced | `Announce` |
| `Subsequence` | the elements of a sequence that are in a set, as a function a proof can unfold | |
| `Session` | the roundtrip, the queue and the board at the other end | `Subsequence` |
| `SessionProofs` | lemmas on sequences, the types of a session, and that it keeps edges in order | `Session` |
| `Tui` | the interface's loop over one session | `Session` |
| `TuiProofs` | proofs of its four invariants | `Tui`, `SessionProofs` |
| `OneShot` | commands in sessions of their own, one after the other | `Session` |
| `OneShotProofs` | proofs about them, the refinement of `RemoteRead` included | `OneShot`, `SessionProofs` |
| `RemoteRead` | abstract: a question is answered as of some moment since it was asked, or fails | refined by `OneShot` |
| `Store` | processes saving backups | |
| `StoreProofs` | proofs about the two things processes share: backups, their rotation and a save that is alone; the groups, the refinement of `GroupMap` included, and the selectors | `Store`, `Groups` |
| `Selector` | selectors, key names and group names, as operators | |
| `Groups` | processes changing the groups | `Selector` |
| `GroupMap` | abstract: a map of groups, changed atomically | refined by `Groups` |
| `BulkWrite` | the commands that write without `keyset::plan`, over several profiles | `Keyset` |
| `BulkWriteProofs` | proofs of its four safety properties | `BulkWrite` |
| `Socd` | pair commands and the restore, one after the other | |
| `SocdProofs` | proofs of its five safety properties | `Socd` |
| `Console` | the terminal: its modes, the panic hook, the events that wait | |
| `Picker` | the picker of `--pick` | `Console` |
| `Screen` | the layout of a frame, as operators over views | |
| `Interface` | keys, clicks, resizes and frames of `wh tui` | `Console`, `Screen` |
| `Terminal` | either program over one terminal | `Picker`, `Interface` |
| `TerminalProofs` | proofs that the terminal is given back, the frame is current and what is picked was shown | `Terminal` |
| `MC*` | finite instances of the above | |

Every module names the functions it stands for beside its actions; `PROJECT.json`
`map` gives their lines. Definitions under a comment "Seeded fault" are in no next-state relation: each is a plausible
bug, put in place of the real definition to see that a property notices.

### Keyset and WriteCommand

A board gives each key a `mode` (touch nibble and the rest of the word), an
actuation point, a press and a release sensitivity, and a membership index for
each of the two kinds of keyset. `Change`, `Target`, `RecordLayouts` and `Cuts` are
`plan` and `WritePlan::frames`: which layouts get a record, with what value, and
where a report may end.

A command goes through `membership`, `base`, `plan`, `confirm`, `backup`, `apply` and `verify`.
`Begin` takes a command line; `ReadMembership` resolves it (an unknown keyset, no keys,
no index left end it); `ReadBase` and `SettleChange` find the value for commands that
take the board's base; `PlanKey` reads one key; `Consent` is the typed "yes";
`BackupKey` reads one key of the snapshot, `SaveBackup` files it; `SendValues` sends one
report of whole keys, `SendMembership` one membership record; `VerifyKey` reads one
key back; `Report` ends it. `ReadFails`, and the failing half of a send, which may or
may not have landed, end the command as the code's `?` does. Between any two steps
`EnterAdjust`, `Edit` and `LeaveAdjust` are the owner's hands. A roundtrip that returns its reply has
queued every edge sent before (`Hear`); one that returns an error may have stopped with any of
them unread (`HearSome`), and then nobody reads them: `with_session` reports what is queued. So
a frame that lands and whose roundtrip fails can overwrite a hand edit without a note;
`LostEditIsNoted` is about the frames the board acknowledged, and holds however the command
ends after them. That a reply is the answer to its own request is taken from `OneShot` here.

What is one step and is more in the code: the six layout reads of a key, and the
sweep of all memberships (the board's adjust mode cannot change memberships).
Keys are natural numbers in matrix order, which is selection order. The touch
nibble is not edited by hand; one layout is edited at a time. `set rt --set`, `set mm`
and `restore` are shaped differently: `BulkWrite` has them.

### Announce

The lines that `announce_remove`, `announce_steal`, `announce_delete` and the `ap base` line print,
the whole-board prompts and the reasons of refusals are worked out before the first
frame, from the plan and from what was read, by code that is not the code that makes
the records. Each is an operator over the state of `WriteCommand` at that point: `DescribeMember`,
`AnnounceRemove`, `AnnounceSteal` are the claims of a line, without its words; `NamedAsEnding`,
`ModeClause`, `RtOnClause` those of a prompt. `AnnouncementsComeTrue` compares them with the board
after a verified write, `PromptsAreTrue` the prompt that was answered "yes". Both are about commands
during which nobody edits the board (`edits = {}`): an announcement is a forecast from what was
read, and a hand that comes after the read may make it false, which the code notes
(`LostEditIsNoted`) and does not prevent.

### Session, Tui, OneShot

The board owes answers to the requests it received, in order, and sends each late,
or loses it, or answers that a command failed. Reports travel in order. A roundtrip takes the first report
that fits its command byte, queues edges, fails on a failure report, skips the
rest, and gives up after `MAX_READS` reports or `TOTAL_TIMEOUT` quiet intervals.
Time is counted in those intervals only; a report may or may not use one up.
Command byte 0 is shared by every order and by edges, which is why a third edge
byte nobody measured must still count as an edge. Per-key reads check that the
echo names the key and layout asked; identity, profile and matrix reads check
nothing more. A reply carries the `version` the board held when it was sent. An edge is
stamped with it too, which no code sees: it lets a property say that an answer is not
from before the edge.

`Tui` asks a fixed script (identity, profile, one key's layouts) on opening and on
every "left" edge, polls between, and keeps `screen`, what the last draw showed,
apart from the state. What the operator does at the interface is in `Interface`. A re-read that
times out leaves its answers to come, and the session open, so late answers may be taken by a later
read that asks the same, or, in the rows of the matrix, which answers do not name, by a later pair of
rows: with five edges the shift of the finding `oneshot_late` reaches the screen, and no note says
so. `ModelIsCurrent` and `StaleIsNoted` therefore speak of values that a hand can change, and say of them
what is true all the same: a key never has another key's value, nothing on display is
from before the edge that the read answers, and without a note nothing is from before the last edit (`queuedAt`, `readFrom` and `modelFrom` remember which that is).

`OneShot` runs several commands. Opening the device drops reports that came
earlier; what the board still owes comes later, into the next command's session. A key's value is
never another key's. It is not from before the question either, because the matrix is read first
and takes late answers off the wire, as long as fewer matrix answers are late than the command
asks for (`few`): with three of them late, from three commands that timed out, and an old key value
behind them, a fifth command takes all three and then the old value. `KeyValuesAreTrue` has that condition.

### Store and Groups

One action is one file operation. A save creates its temp file, writes it, reads
the clock, links the next free name, unlinks the temp file, lists, looks at each listed
file, and removes the oldest. A process may be killed anywhere; the machine is not.
A name is its `(secs, nanos)` stamp as a number. `SteadyClock` says that the clock never
goes back and, when a save has the directory to itself, has moved on by a name, which is a
nanosecond, for every save before it. Less would not do: saves that overlap may read the same
clock and take the names after it, up to one each; a later save whose reading is among those
names and whose listing has `KEEP_BACKUPS` newer ones would remove its own backup.

A group command checks its name, resolves its selector, reads the file again,
changes what it read and renames a new file into place. `Selector` is the grammar over
words: an item is its "!" and the words on either side of its first "-". `Resolve` goes
through the items from the left; `MeansWhatItSays` states what a selector means without
going through it: a key is in if its last mention is not an exclusion, in the order of
the mentions. `CheckGroupNameUsable` is `check_group_name_usable` with the board it makes up
for the name. Case, spaces and hints are left out. A group on file called `all`, or like a
range, is shadowed by the grammar; the code's doc says so, and a group called like a key
or a builtin group is refused as ambiguous. A file may hold a usage twice, which the code
does not undo; what is read back of such a group holds it once (`Once`).

`group_name_is_reachable` tries a name on a board of two usages that no key is named for, 0x00 and
0x01 with the table there is, and its doc says that only a plain name resolves to the first of them
(run.rs:554-562). A name that writes one of the two out, such as `0x00,0x00` or `all,!0x01`, gets past it
too, though it does not read back as the group. `GroupsReadBack` leaves such names out
(`SpellsSentinel`); the proof shows that there are no others.

### Console, Picker, Screen, Interface, Terminal

`Console` has the modes the terminal is in, what a panic would undo, and the events not
read yet. `TryInit` may fail after any of its steps, and each program restores what was
reached. `Picker` draws, reads one event, applies it. `Interface` draws only when something
changed: `Poll`, `Drain` (every event there is), the tick, `Draw`; a "left" edge draws before its
re-read, and drops an error of that frame, as the code does. Clicks are looked up in the
rectangles of the frame last drawn (`drawn`). A resize takes effect at once and its event
waits behind the others; that the event is always sent is assumed, as is that undoing a
mode succeeds. The session behind the tick is `Tui`'s; here a tick finds nothing, an edge,
an unknown frame, an error, or a re-read that ends in any board or in a timeout.

`Screen` is `draw()`, `render_matrix`, `render_prompt` and `render_message_block` as rectangles in the
order they are drawn, later over earlier, with `Panics` where a write would fall outside the
buffer. Texts count by their lengths, or by the lengths of their words where they wrap.
A cell of the lattice is the set of directions its strokes take, so that `LatticeJoins` can
say that every line goes on in the next cell. The boards in the instance have rows of one
width, as real boards do; a row that ends short of its neighbour would leave corners
unmerged in the columns only one of them covers.

What the layout does and no property forbids: with 26 rows the footer is drawn over the
tab row; with more rows than that, but too few for the matrix, whole rows of keys are left out
without a refusal; a click on a sub-tab that waits behind a change of tab changes the
sub-tab out of sight; the picker's list scrolls, so on a short terminal a box may be
outside the window: what `PickedIsShown` calls shown is the list as drawn, scrolled or not.

### BulkWrite

Up to three of `set rt --set`, `set mm`, `restore FILE`, `restore --last`, `profile N` and `backup` run
one after the other on a board with two profiles. `ReadSetRt`, `ReadSetMm`, `ReadBackup` and
`ReadRestore` are what each command does before its backup (`RestoreAllowed` is
`check_restore_profile` and `check_restore_matrix`); `SelectProfile` is `set_profile` with its
readback; `SaveBackup` files the snapshot; `PlanRt` reads the modes; `SendFrame` sends one
report; `Verify` is the command's own readback (`RtConfirmed`, `RestoreConfirmed`). What is still
to send is a function from cells, a key and a layout, to values (`RtRecords`,
`RestoreRecords`); `Precedes` is the order they go in, and `Frame` the first report of it. The frames
of `write_key_records` cut in the middle of a key; those of `ops::restore_all` are of one
`Stage` each (`FirstStage`): travel, values, actuation point keysets, rapid trigger keysets. Keys go by
number; the order in which an operator typed them is left out. The snapshots that `ReadRestore` loads
parse and validate; one that does not, or that has a travel or a sensitivity outside 0 to 4 mm
(`mm`, `validate_restore_keys`), is refused before the session opens, reads and changes
nothing, and is not modelled.

A roundtrip may fail with its frame taken or not. The firmware may acknowledge a
frame and ignore it, or write it and strip an advanced function; it does so once in
a command at most (a bound), and it has no other fault. The owner's hands are left out: they are `WriteCommand`'s
subject, and whether the board can switch profile without the host is unmeasured.
The store keeps what it is given and its newest snapshot is the last one saved,
which `Store` shows under a steady clock. The travel a restore writes is never read
back, so `VerifiedIsTrue` claims it only of a firmware that did as told.

### Socd

A pairing is kept in the rows of both keys, each spelling it its own way round, and in
the advanced nibble of both modes. `Setting` is what the spellings have in common (the
equality of `Pairing`); `Coherent` is what `read_socd` insists on; `Accepted` is
`check_unpaired` and `resolve_unpair`; a row that does not parse is no row (`IsRow`), so a board has
rows that do (`Boards`). The frames and checks of a command are a plan worked out beforehand
(`UnpairPlan` goes through the pairs in order). A pair is one frame and two readbacks; an unpair is two
frames and two readbacks for each pair; a restore sets every mode and leaves the rows,
as snapshots do not hold them. Whether the board drops the row of a key whose flag is
cleared is left open. The mode a pair write leaves is not read back beyond its
advanced nibble; `VerifiedIsTrue` says so. One profile is enough here: `BulkWrite` has the
several, and the refusals that go with them.

## Runs

| Run | Shows | Bounds, and why they are enough |
|---|---|---|
| `commands` | what every command writes, in which order, what a verified write leaves, and that everything announced and consented to came true, with roundtrips failing anywhere | three keys over six key states (216 boards): every touch nibble the code tells apart, index gaps, the largest index in use, keysets of one, two and all keys; three keys are the fewest with a keyset that a selection only partly takes; reports of 8 records cut between two keys of four |
| `hands` | the same under hand edits: what is overwritten is in the backup, and noted if the board acknowledged the frame; that a command ends | two keys, one edit at any step, three commands; edges left unread by a failing roundtrip; a report that one key fills exactly |
| `tui` | edges once and in order; what is on display that a hand can change no older than the edge it was read for, current or noted; re-reads end, the banner comes down | 3 edges, 1 edit, 4 reads: an edge before, during and after a re-read, with its answers late; noise without end |
| `oneshot` | no key gets another key's value, nor an old one unless several answers are late; notes end with the board's last edge; with nothing owed, the sessions implement `RemoteRead` and a command that succeeds saw the whole board | two commands, the first one's answers late; one key in each pair of rows |
| `store` | whole backups, none replaced, only surplus ones removed | two processes, four saves, keeping two, five clock readings: colliding saves and more to rotate, one of them alone after names ahead of the clock |
| `groups` | overlapping commands: groups nobody named survive; every selector means what it says on every board, whatever is on file; a group made or renamed reads back, and so does what is printed of it; while they run one at a time, killed anywhere: `GroupMap` | two processes, three commands, JSON and TOML files present or not, with names on file that no command would make; 1812 selectors of up to three items on three boards before any command, and every selector a command gives, later; four keys, one on no board, one builtin group: every two-word item has a key on none, one or both sides, in order or not; on file a usage twice, a group called like a 0x form, and a rename to `0x00,0x00` |
| `bulk` | at most one key is left mixed, a restore shows no keyset before its values, writes the profile of its snapshot and nothing else, and `restore --last` undoes the last command, over any failures | three commands: one to do, one to fail in the restore, one to restore again; three keys and reports of 5 records, so that a report ends in the middle of a key; files with a foreign key, without a profile, without keysets |
| `socd` | no half pair is ever listed, verified pairs are live and no other ends, no false alarm while nothing fails, a restore heals a half unpair | four commands: pair, unpair half way, restore, list; four keys: two pairs and a key that claims a paired one; boards with left-over rows and a key in another advanced mode |
| `terminal` | what is picked was shown; the shell gets its terminal back from every end, a panic included; the frame keeps up with state and size; nothing in a frame hides anything else, a click inside a cap finds its key, the lattice joins | three inputs, two waiting at once: a key ahead of a frame, an event behind a resize; two edges of the board: locked and re-read; five sizes: below the height of the tab row, wide enough for the matrix to the column and one short of it, high enough for all of its rows or for two of them, narrower than the left pane; a board with an empty row and one out of order, a board without rows; `PAGE` is 2 with three keys, so that a page goes past the end |

`MAX_READS` and `TOTAL_TIMEOUT` are 2 or 3 and 1 or 2 in the instances instead of 256 and
1.5 s: what matters is that each can be reached first. `KEEP_BACKUPS` is 2 instead of 20,
`MaxIndex` 3 instead of 65535. Systems that have used up a bound stop, so
deadlock is not checked.

Three runs look for a violation and find it (`findings` in `PROJECT.json`):

- `oneshot_late`: with an answer to an earlier command's matrix request still to come,
  `read_matrix_rows` takes every reply one request late and never sees the last pair of
  rows, and the command succeeds on part of the board.
- `store_clock`: once the clock is behind the stored backups, `save_backup` removes
  the file it has just saved and returns its path.
- `screen_short`: on a terminal of 80 columns and 24 rows the first frame of `wh tui` writes its
  prompt below the buffer and panics, where a comment promises the matrix or the refusal.

**Fairness.** `hands` assumes that the program keeps taking steps except while it waits for
the operator to answer a prompt: it is one thread, and each of its receives has a
timeout. Nothing is assumed of the hands. `tui` assumes the same of the
interface and nothing of the board, which need never answer.

## Proofs

Every theorem is for all values of the constants that the named assumptions admit: any finite
set of keys, any boards and commands that are well formed, any report size, any number of processes,
edges, commands and failures. All safety properties of the runs are proved, `FrameIsWhole` apart. Few are inductive; each module states an invariant that is, gives its
parts names, shows with one lemma per action (and part, where an action disturbs several) that
every step keeps it, and derives the properties. The larger invariants were checked by TLC
on the runs' instances before they were proved.

### `WriteCommandProofs`

Part 1, the rules: whatever the board and the command, a planned mode record never
carries the global touch nibble (`RecordsNeverGlobal`); `next_index` returns an index no key
holds (`NextIndexIsFresh`); deciding by lengths whether a selection is one whole keyset
is right (`KeepMeansOneWholeKeyset`).

Part 2: `TypeOK`, `NeverWritesGlobalNibble`, `LostEditIsNoted` and `OverwrittenIsBackedUp`. The
invariant `IInv` adds:

- `CommandKnown`, `PlanRead`, `BackupRead`: what has been read by which stage;
- `DueIsPlanned`: a record waiting to be sent was planned, for a selected key;
- `DueIsBackedUp`: a value that is still to be overwritten is in the backup, or was
  edited since the backup read it. This is what makes `OverwrittenIsBackedUp` hold: a value
  leaves the set of due ones in the same step that overwrites it;
- `HandsNoted`: if a hand edit happened during a command, the "entered" edge is heard, or on the
  wire, or the board was in adjust mode when it began. A failing roundtrip moves edges from the
  wire to the queue or leaves them there; an acknowledged frame has all of them heard in the step that
  overwrites a value, which gives `LostEditIsNoted`.

Part 3: `KeysMoveWhole`, `MembershipComesLast`, `WritesAreConsented` and `VerifiedKeepsPromise`. `OInv`,
kept given `IInv`, says what the board holds meanwhile:

- `PlanFollows`: selection, index and change are what the command makes of the membership and
  the base values it read;
- `BeforeIsEntered`, `MembershipHeld`: membership is the same at the sweep, at every read of the
  plan and until the last value is out, because hands reach values only (`HandsOnValues`); that of
  keys outside the selection stays for good;
- `Landing`: until the last frame, either all records of a key wait and it holds what was read,
  or none do and it holds what was planned. A frame takes all of a key's records or none, so a
  step moves a key from one to the other as a whole;
- `ReadBack`: a key read back and found good is as planned, edits since then apart;
- `Consented`: what is written is not a dry run's and was said yes to if it had to be.

The promise then follows without the board: a planned key is the target of the change in every
layout (`WantedIsTarget`), the target is what was asked (`CheckedIsFulfilled`), and the index
written is fresh or the selection is a whole keyset already (`CheckedIsPromised`, from
`NextIndexIsFresh` and `KeepMeansOneWholeKeyset`).

Part 4: `AnnouncementsComeTrue` and `PromptsAreTrue`. The announcements are functions of the plan, so the
invariant `AInv` says, while nobody edits: the base values read so far are those of the keys
visited (`BaseRead`), the keys they were read from still show them unless they are selected
(`BaseHeld`), and what the backup read is on the board still, the selected keys again apart
(`BackupHeld`). A verified board is the planned one (part 3), and each sentence of an announcement
is compared with that.

### `StoreProofs`

For any number of processes and saves, any clock and any `KEEP_BACKUPS` above
zero, `BackupsAreWhole` and `OnlyTheOldestGo`. The first rests on
`IInv`: the texts at work are apart (`TextsApart`, the process id and counter in a temp name),
a temp file is whole from its write to its link (`TempsWhole`), and a text is published by its
own save only, which then goes on to unlink (`PublishedByOne`). The second needs `GoneIsOld`: a
process may rotate by a listing that others have since made stale, but whatever has gone from
it has `KEEP_BACKUPS` newer names in the directory. So when the oldest of a longer listing is
removed, either its newer names are all still there, or one of them is gone and there are
enough above that one.

`SavedIsThere`, if `SteadyClock`. `NamesNearClock` counts: a name is ahead of the clock by less than
the saves that have published, because a link takes a reading or the name after one that is taken.
So the reading of a save that is alone is above all names there are, and
`AloneIsNewest`: its name is the newest until it ends, and the oldest of several is not it.
The attempt to prove this showed that an earlier, weaker `SteadyClock` was not
enough, with one save more than the run has (see Store and Groups above).

The groups, for any number of processes, commands and files there were at first:

- `OthersSurvive`, from `ChangesKeep`: every name at work has been named, and what a process holds of
  the groups keeps all others, however old it is, because whatever changed them since was named too.
- `SelectorsMeanWhatTheySay`, for any table, board, groups and text (`SelectorMeans`). The loop over the items is
  unrolled into a function (`RunExists`) and the invariant of the loop is the meaning itself for the first
  k items (`Selected`): a key is in if it owes its place to one of them (`Owes`), and keys are in the order of what
  they owe it to and, within one item, of that item. That what is on file, and about to be, always is
  groups is `FInv`.
- `GroupsAreAtomic`, step by step: while nothing overlaps, what a process has resolved and changed is of the
  groups still on file (`Ready`), so its `Publish` is the abstract command, or `Die` none; a
  refusal is for a name, a selector or a missing or taken group that the map refuses
  (`RefusedForAReason`). The hypothesis `PlainAreUsable` says that the constant `PlainNames`, by which the map
  knows which names are allowed, is what the check allows of the names in `Commands`; it is so of
  the instance of the run.
- `GroupsReadBack`, from `NInv`: what is on file, or about to be, under a name that was not there at first is
  there by leave of the check (`Checked`). A name the check lets through is one plain name, of no
  key and no builtin group (`UsableIsPlain`: 0x00 alone was selected, and neither an item that
  selects 0x01 with it nor any key, range or builtin group can have done that), so it is read as the
  group (`NameReadsBack`). A printed line is labels, each of them one key (`OneByOne`).

### `SessionProofs`, `TuiProofs`, `OneShotProofs`

`SessionProofs` has what users of a session share: `Keeping` and concatenation of sequences, proved by
induction on their length, the types a session keeps, and that what
is in the queue and on the wire is what the board sent, in order, whatever a roundtrip does.

`TuiProofs`: `EdgesInOrder`, `ModelIsCurrent`, `StaleIsNoted` and `ScreenIsTrue`, from `TInv`. Reports travel in
order, so a reply behind an edge, on the wire or with the edge in the queue, is not older than
the edge (`WireRises`), and what a read takes is not older than the edge it answers
(`ReadIsCurrent`). The settings are as at the last "left" or the board is adjusting again (`LastLeft`), and a
read in progress, or a model without a note, is of that last "left" unless one is still to be handled
(`ReadOfLast`). An earlier form of the property, that the model is the answers to one read, is false
with five edges and was replaced by `ModelIsCurrent`, which TLC passes with six. `StaleIsNoted` leaves
the rows of the matrix out for the same reason.

`OneShotProofs`: `KeyValuesAreTrue`, `NotesTellTheLast` and `ReadsAreReliable`. No single matrix answer
can be told from a late one, so `OInv` counts: in front of a late answer to a per-key request there
are fewer matrix answers than the command will still take (`RowsInFront`), so it has been read
past before the keys are asked; from there on the one answer to come is the one to the
question asked (`KeysOnlyAsked`). If nothing was owed at the start that holds of every question
(`AllOnlyAsked`), and the rows read and to be read name all keys (`KeysToCome`). With that, each step of `OneShot`
maps to a step of `RemoteRead` or to none: a take to `Return`, a failure to `Fail`, an edit to `Edit`. The condition `few` in
`KeyValuesAreTrue` was found here: without it the count fails, and TLC has the behaviour.

### `SocdProofs`

`ListIsTrue`, `NoFalseAlarm`, `VerifiedIsTrue`, `RestoreHeals` and `OtherPairsLive`, from `SInv`. A plan is a sequence
of frames and checks; for each command the invariant says what the board holds for what is
behind and which check is ahead for what may have gone wrong (`PairOnItsWay`, `UnpairOnItsWay`,
`RestoreOnItsWay`): a firmware that ignores a frame leaves the board as it was and a check to come.
`CalmIsCoherent`: while nothing has failed and nothing was restored, the board is coherent
between commands. `AcceptedAtStart` keeps what the refusals let through, which is why no other pair
can be hit.

### `BulkWriteProofs`

`OneKeyIsSplit`, `VerifiedIsTrue`, `RestoreHitsItsProfile` and `RollBackWorks`, from `IInv`. What is still to send is
the plan's end in the order of sending (`InOrder`). As long as the firmware does as told the board
holds the old value exactly where a record is still to be sent (`Landing`), and after a command that was cut
off there is such an end (`HalfWay`): in that order a key's cells are neighbours among the
values, and all values come before any keyset, so at most one key is mixed. What is in no plan is
untouched, frames ignored or stripping included (`Untouched`), nothing but the
active profile changes (`OneProfile`), and the newest snapshot is what its profile held when the command
that saved it began, the other profiles being as they were (`Newest`), which is what a verified restore brings back.

### `TerminalProofs`

For every set of boards, sizes and inputs, `ShellRestored`, `FrameIsCurrent` and `PickedIsShown`. For the first,
`ModesAreHooked`: the modes that are set are among those the
panic hook undoes, and each stage has only those that the steps before it can have set. For
the second, `FrameFollows`: from the poll to the tick either a redraw is due or the frame shows
the application as it is, except for a size whose resize event still waits to be read. It rests
on `ConsoleAssumption`, that only the two programs are typed into. For the third, `PickFollows`: the
boxes are those of the frame from the frame to the key that answers it and, if that is Enter, to the
end; and `NthIs`: the n-th checked box is there for each n up to their number, is each of them in turn and
grows with n, so that what is returned is in the order of the board.

### What is only model-checked

- All liveness (`CommandEnds`, `RereadEnds`, `BannerComesDown`): the prover does not reach fairness.
- `FrameIsWhole`: arithmetic over rectangles that depend on the words of a message; and the runs
  that look for a violation, which are about one behaviour each.

Induction over data is within reach, though the library's induction theorems take an operator, which the
provers cannot instantiate: `SessionProofs`, `SocdProofs` and `StoreProofs` apply well-foundedness to the set of
numbers for which a fact holds. What the models compute along a sequence is a recursive function for that
reason, or picks by position (`Nth`, `At`), and no fold of the community modules, which are recursive
operators and opaque to the prover.

## Plan

Here: (1) `Keyset`, `WriteCommand` and their first proofs, (2) `Session`, `Tui`, `OneShot`, (3) `Store`,
`Groups`, `BulkWrite`, `Socd`, (4) `Announce`, `Selector`, `Console`, `Picker`, `Screen`, `Interface`,
(5) proofs of every safety property but `FrameIsWhole`. To come:

6. `FrameIsWhole` for every size, board and state of the interface.
7. An abstract command (every key changes atomically, or not) that `WriteCommand` implements.

## Not modelled

Byte layouts of reports and values; snapshot formats and their text; argument parsing and
help; the wording of messages, the values on caps and in settings rows, colours; the
replay transport, which only tests use; the vendor research, captures and scripts. A power
failure, after which a linked backup may lack its text, is outside `Store`.

## Running

    tlc -config WriteCommand.cfg MCWriteCommand
    tlapm WriteCommandProofs.tla        # and the other *Proofs modules

`WriteCommandProofs`, `OneShotProofs`, `SocdProofs`, `BulkWriteProofs` and `StoreProofs` take some minutes each.
