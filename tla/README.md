# Isthmus: a verification project

Isthmus (`cmd/isthmus`) lets a game that speaks the Archipelago (AP) protocol take
part in a MultiWorld (MW) session. It is an AP server for one local client and an
MW client of a remote server, with a SQLite savefile in between. What it must get
right is small and hard to test: items must be neither lost nor handed out
needlessly often, although messages are lost and repeated, connections end, and
the process is killed at any moment and run again.

This directory holds TLA+ models of that program, TLC configurations that check
them on small instances, and TLAPS proofs of their main properties.

## 1. Inventory

| part | source | state | operations | what makes it correct |
|---|---|---|---|---|
| play loop | `play.go` | `itemHandling`, watched keys, the message being handled | one handler per MW and AP message | no item lost, none repeated without cause, client list = log |
| savefile | `savefile.go` | nine tables; four change with items | one transaction per method | a kill between two transactions does no harm |
| setup, command line | `setup.go`, `main.go` | the stage of the dialogue, the file | `serve`, four waiting loops, `createSavefile` | ends in a complete savefile, placements sent once |
| AP server | `approto/server.go` | `numConnections`, `connections`, inbox and outbox per client | handler, writer, `Accept`, `Send`, `Close` | one client at a time; ready again after each |
| MW client | `mwproto/client.go` | three channels, count of unanswered pings | `recvMessages`, `sendMessages`, `ping`, `Close` | order kept, outages noticed, goroutines end |
| MW codec | `mwproto/read.go`, `write.go`, `schema.go` | the place in the stream | `Read`, `Write` | what is written is read, and bad frames are skipped whole |
| names | `mwproto/discriminators.go` | none | qualifiers and discriminators | names lead back to the numbers they came from |
| conversion | `convert.go` | none | AP placements to MW placements | unique names |
| data storage | `apdatastorage.go`, `play.go` 500-538 | table `ap_data_storage`, watched keys | `Set`, `Get`, `SetNotify` | a reply tells what is stored |
| pickle | `internal/pickle` | stack, memo | one per opcode | no mark in a value, values unshared |
| sqlite wrapper | `internal/sqlite/db.go` | list of prepared statements | `Prepare`, `Exec`, `Close` | each statement finalized once |
| sqlite | `sqlite3.c`, `sqlite3.h` | | vendored | assumed atomic transactions |

How they interact. `serve` sets up if there is no savefile and then plays.
`playMW` accepts an AP client, opens the savefile, dials the MW server and runs
one `select` over the two inboxes until either ends; then it accepts again. All
handlers run in that one goroutine, so they never interleave with each other. They
do interleave with the goroutines of the two connections, with the network, and
with the end of the process, which may come between any two transactions.

What is hard: kills between two commits of one handler; redelivery after a lost
confirmation; an index that must fit what this session has seen; blocking sends on
small channels whose reader has gone; a send on a channel that another goroutine
closes; a main loop that blocks in a send to a silent server. `PROJECT.json` lists these hazards line by line.

## 2. Modules

| module | models | composed of |
|---|---|---|
| `Savefile` | the tables that change during play, their methods, one commit each | |
| `Play` | the main loop, the sessions, the MW server and AP client around it | extends `Savefile` |
| `MCPlay` | small instances of `Play` | extends `Play` |
| `PlayProofs` | theorems about the invariants of `Play`; `Play` implements `ItemExchange`; surplus copies | extends `Play` |
| `APServer` | the AP server's goroutines with the main goroutine | |
| `APServerProofs` | theorems about `APServer` | extends `APServer` |
| `MWClient` | the goroutines of the MW connection | |
| `MWClientProofs` | theorems about `MWClient` | extends `MWClient` |
| `Setup` | command line, setup dialogue, creation of the savefile | |
| `SetupProofs` | theorems about `Setup` | extends `Setup` |
| `MCLinks` | small instances of `APServer`, `MWClient` and `Setup` | extends all three |
| `ItemExchange` | what the playing phase promises, abstractly | implemented by `Play` |
| `DataStorage` | the operations of `Set`, its table, watched keys | |
| `Statements` | prepared statements of the sqlite wrapper and who closes them | |
| `Pickle` | the machine that reads the `.archipelago` file | |
| `Codec` | the frames of the MW protocol | |
| `Placements` | conversion, names, the rows of a new savefile | |
| `Commands` | the packets of an AP client, up to the inbox | |
| `StatementsProofs`, `PickleProofs` | theorems about these two | each extends its module |
| `APClientProofs` | theorems about `Commands` and `DataStorage` | extends both |
| `MWProtoProofs` | theorems about `Placements` and `Codec` | extends both |
| `MCPlacements` | `Placements` with names that look like made ones | extends `Placements` |
| `MCParts` | small instances of the six modules from `DataStorage` to `Commands` | extends `MCPlacements` and the other five |

A definition that a comment calls a mutant is not part of a specification. It is a
plausible mistake in the definition it precedes, kept to show that the property it
is listed with in `PROJECT.json` depends on that code: TLC finds the property
violated when the mutant takes the definition's place.

### Savefile and Play

An item is named after the place it lies in (`OwnLoc`, `ForeignLoc`, `BareLoc`,
`EmptyLoc`, `Abroad`), because names are unique in the placements and so the row
keys are the places. The four tables are three sets and a sequence. The other
tables never change after setup and are the constants.

A handler is cut at every commit and nowhere else: `pc` says where it stands, `todo`
what its loop has left, `cur` what it is about to commit, `acc` the batch it has
collected. What it sends is attached to the commit before it. A kill (`Crash`) is
possible at every `pc`; it and every other end of the session drop the messages
in flight. Errors of SQLite other than a primary key conflict are left out; the
conflict is `CheckForeignFails` and `ReleaseFails`, and it ends the program as in the
code. `clearLocations` and `addReceivedItem` could conflict too; that they never do is
part of `KeysInv`, proved.

| code | actions |
|---|---|
| `playMW` and the frame of `playMWWithConn` | `Accept`, `DialFails`, `ConnectionLost`, `Crash`, `Restart` |
| `Connect` (and without `items_handling`) | `Connect`, `ConnectNil` |
| `LocationChecks` | `LocationChecks`, `CheckSkip`, `CheckOwn`, `CheckForeign`, `CheckForeignFails`, `ClearChecked` |
| `!collect`, `!release`, `Sync` | `Collect`, `Release`, `ReleaseFails`, `ReleaseClear`, `Sync` |
| `JoinConfirm`, `DataSendConfirm` | `HandleJoinConfirm`, `HandleDataSendConfirm` |
| `DataReceive` | `HandleDataReceive`, `HandleDuplicate`, `MarkReceived` |
| `DatasReceive` | `HandleDatasReceive`, `BatchSkip`, `BatchItem`, `BatchCommit` |
| other MW messages | `HandleChatter` |

The MW server (`Srv...`) is external: it takes items after a Join and confirms them,
and delivers what has been found for us until we confirm it. The AP client is one
operator, `ApplyReceived`: index 0 replaces its list, the next index extends it,
any other is refused. Messages are kept in sets, so they may overtake each other,
which covers more than TCP allows.

`handling` keeps the two bits of `items_handling` that the code looks at. Numbers,
names and display data of items are left out: the code copies them.

### ItemExchange

The specification of the playing phase without sessions, messages or handlers. Items
of other players are `promised`, `taken` by the server and `settled` (their place is
never offered again); our items enter the `log`, are `done` (never given again), and
the server has `forgotten` some of them. A kill may make our items `lost`. `Play`
implements it (`ImplementsItemExchange`):

| abstract | in `Play` |
|---|---|
| `promised`, `taken` | `unconfirmed \cup delivered`, `delivered` |
| `settled` | the cleared foreign locations |
| `log` | `sent`, the table `ap_sent_items` |
| `done` | received items that are not waiting in a batch (`acc`), and our cleared locations |
| `lost`, `forgotten`, `kills` | `torn`, `acked`, `crashes` |

A received item in `acc` is not done: `DatasReceive` writes its row first and logs it
later. This is where the abstract specification needs `lost`: a kill in between
makes the items of `acc` done and never given. A kill never touches another
player's item.

### APServer

One handler and one writer per connection, the two channels of capacity 1 between
them and the main goroutine, and the slot `numConnections`. The load and the
compare-and-swap are two steps. Deferred calls run in the code's order: the nil to
the inbox (`Bye`), then the slot (`Leave`), then the end of the request's context,
which is what the writer watches. Of the play loop only its sends remain: after
`RoomInfo`, a message is answered by up to `MaxAnswers` messages. Two variables are
history: `turns`, the connections in the order in which they got the slot, and
`served`, those that the main loop has accepted.

### MWClient

`recvMessages`, `sendMessages` and `ping` with their three channels, and the main loop.
`Send` is two steps: `UserSend` enters it and `UserSent` leaves it when outbox has
room; in between the main loop reads nothing, and does not learn that its inbox has
ended. `sendMessages` takes a message (`SendTake`) and then writes it (`SendWrite`). A
connection ends by `eof`, by `reset` (`Read` then fails for ever and is retried) or by
`silent` (nothing comes, and `Write` blocks). A send on the closed outbox is `PingPanic`,
which stops everything.

Two states are named because a property excepts them. `Jammed`: the server is silent,
`sendMessages` is in `Write`, outbox is full, and the main loop or `ping` is in a send to
it; from there the outage is never noticed. `RecvStuck`: `recvMessages` is in a send to
a `realInbox` that nobody reads any more, although the comment at `client.go:53` says that
it ends when the connection is closed from either side.

### Setup

`serve`, the four loops of `setupMW` as one table of what each expects,
`createSavefile`, and what the first session does before its main loop. The savefile
is whether it exists, how many tables of `Schema` it has, and how many of the tables
in `Filled` have their rows. `CreateFile` makes it exist, every `CreateTable` commits by
itself, `Insert` works inside one transaction, and `Commit` makes its rows visible all
at once; `InsertFails` and a kill leave the transaction, and the tables stay.

A session does not ask whether the savefile is complete. It prepares its statements,
which panics when one of their tables is missing (`PreparePanics`), and
`getConnectionParams` wants the row of `mw_global_data` (`NoParams`); every other table
may be empty as far as it is concerned. That this is enough is `PlaysOnComplete`.

### DataStorage

A `Set` runs in steps: `BeginSet` reads the table, `Operate` is one round of the loop of
`updateDataStorage`, and `EndSet` is what follows the loop. The handler is one piece of the
main loop, so nothing else happens while `chain` holds a `Set`, except that the session or
the process may end; the steps let a chain be as long as the client likes and give
the proofs a state to speak of. `Step` is what a round does, `Outcome` its switch,
`Marshal` is `json.Marshal` at the end, which refuses NaN. A JSON value is
a record of a kind and a content; numbers are integers, bits are taken in words of
four (`Bits`) instead of 64, and NaN is one value. A `Set` ends in one of four ways: `Store`,
`StoreFails` (the error of `setStoredData` is dropped, so the client is told a value
that is not there), `SetPanics` (a negative shift) and `SetFails`. `known` is what the
client has been told of the keys it watches.

On a key that is not stored a chain starts from `msg.Default` itself, and `remove`, `pop`,
`update` and `add` may change it in place, which a later `default` of the same chain
shows. The chain keeps what is in the default now and whether the current value
still shares its map or array (`DefaultAfter`, `SharedAfter`). The fields `sent`, `ops` and
`touched` of a chain are history; `touched` is set by `ChangesShared`, a `remove`, `pop` or
`update` that has changed a value with shared storage. `Covered` leaves out the
operations that convert a NaN to an int64.

`ChainInSequence` compares, in every state of a running chain, the next operation with the
same operation in a `Set` of its own on a key that holds what the chain has made: the
same value, or the same failure. It has three exceptions, and says for each what
happens instead:

* `GoesBack`: a `default` behind other operations on a key that is not stored throws
  their result away. The value is exactly the default as it was sent, unless the chain
  is `touched`; then it has the same kind and, for a list, the same length.
* Behind NaN, which a `Set` of its own would not have stored, everything fails but
  `replace`.
* `Misfit`: an `add` to neither a number nor a list keeps the chain's value, and by itself
  stores null.

A chain that fails stores nothing at all, whereas the same operations one by one would
have stored what came before the failure. The property compares single steps and does not
claim otherwise.

### Statements

`arrays` holds every array that `db.statements` has had; a pointer names an array and a
cell. `Prepare` doubles the array when it is full and copies it, so a pointer that was
returned before goes on pointing into an old one. `Close` through a pointer sets one
copy to nil, and `DB.Close` goes through the last array. What keeps this from finalizing a
statement twice is the order in which `savefile.go` works: a statement is closed
through its pointer before anything else is prepared.

An `Exec` may fail (a key, a full disk). `clearLocations`, `addUnconfirmedItems`,
`confirmItem` and everything in `createSavefile` then return without a `Reset`
(`ExecFails`, `CreateExecFails`), and `sqlite3_finalize` reports the error again: `must`
panics in the middle of `DB.Close` (`ClosePanics`). The statement that failed is finalized
by then, those behind it are not; `FinalizedOnce` says so exactly.

### Pickle

One action per group of opcodes, for any file: the next opcode is chosen freely. The
stack is a Go slice, so cells above `sp` keep old values until they are overwritten,
and `popUntilMark` returns such cells; `heap` holds what was built. `Extend` appends to a
list. `Enter` puts items into a dict or a set as Go does: a key that is there keeps its
place and gets the new value, an item that is there is dropped. Which numbers, strings
and so on are equal is left open (`MayEqual`, `MustEqual`), so every pattern of repeated keys
occurs. `KeyPanic` is the one way in which the machine ends the program: a map as the
key of a map, which `checkDictKey` does not see inside a tuple and `addItems` does not
look for.

### Codec

`Write`, and `Read` in the loop of `recvMessages`: a frame is the length, the type, two words
that are ignored, and the payload field by field. A cell is a byte or a
fixed-width integer, a byte of a varint holds one bit instead of seven
(`Base` 2), and words have eight values, so that sign and every number of length
bytes from one to three occur. The length of a string is put together in an int
(`AsInt`, with `IntSize` 64 instead of 2^64): bits that do not fit are lost, and the highest
one is the sign. A negative length passes the test against the payload, and the slice
panics (`TakeText`), which ends the process (`Crashed`).

Frames that no `Write` makes are written as well: an unknown type, a length out of
bounds, a payload cut short, and a string that consists of its length only, in up to
as many digits as a frame has room for (`WriteLengthOnly`). Two variables are history:
`frames`, the frames that were written with the place where each ends, and `meant`, what
the protocol means by each: the message with its values, nothing for a bad frame, or
`TooLong` for a length that an int cannot hold.

Two properties divide the work. `FramesInStep` is about the stream: every call of `Read`
takes one whole frame, and makes of it what it makes of that frame alone.
`ReadsWhatWasWritten` is about contents: what `Read` returns is what was meant. Its
exceptions are what the code does and the protocol does not: a `ReadyDeny` is refused
(the run `CodecReadyDeny` shows this as a disagreement), a
`ConfirmCharmNotchCostsReceived` loses its value, and a length no int can hold panics or
leaves a shorter string.

### Placements

A name is a sequence of the characters that the code looks for and of words
(`Token`); `Decimal` is how a number is written, `NoNumber` what `strconv` makes of anything
else. `origin` is history: which location of the spheres a placement comes from. The
way of a placement is modelled from `apToMWPlacements` through the server and
`createSavefile` to the look-up in the main loop.

The server is external, and free in three ways: how it deals the items of two players
out to their places, how many players its `Nicknames` name, and which prefix it writes
before locations. `mw-protocol.md:154` gives that prefix as `MW_(N)_`, and
`ParseQualifiedName` reads `MW(N)_` only, which line 151 has for items; the model's server
may write either. `createSavefile` inserts the players first (`InsertPlayers`), and a row is
refused when a name does not parse, its key is there already, or it is about a player
that `mw_players` does not have (foreign keys are on). `CreateFailsOnlyFor` says when that
can happen: a seed that lists a location twice, an answer that leaves out a player it
speaks of, or the documented prefix. The last one contradicts the document, which the
run `PlacementsPrefix` shows.

### Commands

What `handleConnection` does between `wsjson.Read` and the inbox. `Cmd` outlives a message:
a JSON value without `cmd`, or `null`, is taken for another one of the command that was
named last, in this packet or an earlier one.

## 3. Runs

| run | instance | shows |
|---|---|---|
| `PlayOut` | 2 foreign locations, 2 kills, 1 drop, nil Connect, chatter | `NoSentItemLost`, `ConstraintOnlyAfterCrash`, `ImplementsItemExchange` |
| `PlayIn` | 2 items abroad, 1 kill, 1 drop, 1 collect, batches | `ConfirmedItemLogged`, `SurplusBounded`, `SettledOnce` |
| `PlayLog` | a place of each kind that holds something of ours, a start item, clients that take all items or none, 1 kill, 1 collect | `TypeOK`, `RemoteClientInSync`, `ImplementsItemExchange` |
| `PlayLive` | 1 foreign, 1 empty, 1 abroad, 1 drop, fairness | `QueueDrains`, `FoundItemLogged`, `FoundItemConfirmed` |
| `Links` | three parts, see below, with fairness | `OneClient`, `ServedInTurn`, `ReadyUnlessStuck`; `InOrder`, `NothingCutOff`, `OutageNoticed`, `RecvTerminates`; `PlaysOnComplete`, `PlacementsOnRequest`, `SetupFinishes` |
| `Parts` | six parts, see below | `WatcherInSync`, `ChainInSequence`; `FinalizedOnce`, `NoUseAfterFinalize`; `MarksNeverEscape`, `ValuesOnlyGrow`; `FramesInStep`, `ReadsWhatWasWritten`; `NamesLeadBack`, `CreateFailsOnlyFor`; `CommandsAsNamed`, `NilMeansGone` |
| `PlayBatchKill` | 1 item abroad, 1 kill | violates `EveryConfirmedItemLogged` |
| `APServerHangUp` | 1 connection, 1 message, 2 answers | violates `ReadyAgain` |
| `MWClientPanic` | the main loop may leave | violates `NoPanic` |
| `SetupKill` | 1 kill | violates `RerunGoesOn` |
| `CodecReadyDeny` | 2 frames of 3 types | violates `ReadyDenyReported` |
| `PlacementsPrefix` | spheres of up to 2 locations | violates `DocumentedPrefixTaken` |

The violations are disagreements between the code and what its documents or comments
say; `PROJECT.json` quotes both sides under "findings". In short: a kill inside
`DatasReceive` loses items; a client that hangs up while it is answered can leave
the main loop waiting for ever; a session that ends may panic in `ping`; a kill in
`createSavefile` leaves a file that has to be deleted by hand; a denied player is never
told; and an answer with the prefix of the protocol document is refused. The passing
runs say how far each goes: `ConfirmedItemLogged`, `ReadyUnlessStuck`, `SetupFinishes`,
`ReadsWhatWasWritten` and `CreateFailsOnlyFor` hold with exactly these exceptions.

`FoundItemConfirmed` has an exception too, and a narrow one: a session that ended when the
item was marked as received and its confirmation had not arrived (`CutOff`). The code
takes the next delivery for a duplicate and does not confirm it. A connection lost
before the item was marked excuses nothing.

Bounds, and why they are enough.

* Two items of a kind make a batch or a release that is half done when the process
  is killed; more items repeat what each of the two does alone. Kinds do not
  interact but through the log and the client's list, so `PlayOut` and `PlayIn` take
  one kind each and `PlayLog` mixes the kinds that are logged.
* `MaxCrashes` 2 in `PlayOut`, so that a kill can follow the recovery from a kill.
* The handlers look at the two bits of `items_handling` one at a time, so `PlayLog` lets
  clients connect with both or with none; the theorems are about every mode.
* `MaxInbox` 1 limits what the server sends unasked before it is read. A redelivery
  can still be under way together with confirmations in both directions.
* `Links` and `Parts` are models of parts that share nothing: the part is chosen
  initially, the others stand still.
* `Links`: 2 connections with 2 messages each, 2 answers, 1 item from the MW and its
  loss; buffers of 1, a threshold of 2 pings, 3 messages, 2 sends of the main loop and
  every kind of outage; 2 kills, 2 losses, 2 late players, rows that are refused, denial.
  Two connections race for the slot; `OneClient` and `ServedInTurn` are proved for any number.
* Buffers of 1 in `MWClient` are full after one message, so every send can block: one
  message being written, one in outbox and one in the main loop's or `ping`'s hand is
  `Jammed`, and three messages of the server fill both inboxes. The code has 100 and 5;
  its play loop may send any number of items, so it can fill 100 as well.
* `Parts`: 1 key and 1 read-only key, 30 operations and 4 defaults in chains of up to 3;
  14 persistent statements and 4 more, over five moves of the slice; 7 opcodes with 4
  values on the stack and 2 objects; 2 frames; spheres of up to 3 locations, 3 items
  (one without a name) and one item of another player, with names that look like made
  ones, and answers that name none, one or both players; 3 JSON values in packets of
  up to 2.
* Seven opcodes let marks get into the memo and back under a value, let a push
  overwrite what was cut, and let a dict get an equal key a second time. Two frames are
  one that goes wrong and one after it. With `IntSize` 64 and up to 12 digits of one bit a
  length becomes negative, or loses all its bits, as one of ten bytes does in 64 bits.
  Three values are one that names a command, one that names another or none that can be
  used, and one that names none.
* Chains of 3 in `DataStorage`, with a fourth operation in what `ChainInSequence` compares: a
  value, something that changes it in place, and a default after that. `MaxNumber` and
  `MaxLen` bound what is stored. The proofs have no bound.

Symmetry (permutations of places) is used in `PlayOut` and `PlayIn`, which check safety
only. Deadlock is checked in the `Play` runs; the other systems come to a rest
(all connections used up, a session over, a game being played, a file decoded).

Fairness. A goroutine that can run does run (weak fairness of each). Go's `select`
picks at random among the ready cases, so a message that is waiting again and
again is handled (strong fairness, `Play`), and the ticker's case is taken although
messages keep coming (`MWClient`). A goroutine in a send waits until there is room, and
nothing is assumed to make any. In `PlayLive` the rest of the world works too: the
user restarts the program, the client connects, the server answers, and drops are
bounded; the server takes confirmations of either kind that have arrived.
In `Setup` the user runs the command again and somebody starts the game.
`APServer` asks nothing of the clients and of the MW connection.

## 4. Proofs

All proofs are for every choice of the constants that satisfies the assumptions of
the modules: `PlacesAssumption` and `BoundsAssumption` (the kinds of places are disjoint
and finite; bounds are natural numbers), `ConnAssumption`, and the ones of `Setup` and
`MWClient` (bounds and buffer sizes are natural numbers). `Statements` and `Pickle` need
none. `DataStorage` has `StorageAssumption` (bounds again) and `ClientsSendJson`: the defaults and
operands are what `json.Unmarshal` can make. `Placements` has `NamesAssumption` (names are
made of tokens, and two items of the data package have different names, as `ItemNameToID`
is a map by name) and `NumbersAssumption` (different numbers are written differently, and not
with an underscore or a parenthesis). `Codec` has `CodecAssumption`: the types are the ones of
`schema.go`, the limit is not below the header, and an int holds lengths within the limit. `Commands` needs `ParsedAreNames`: no command is called by one of the words that stand in the model for a cmd that is missing, not
readable or not known.

| theorem | states | along |
|---|---|---|
| `TypeCorrect` | `Spec => []TypeOK` (`Play`) | inductive as it stands, thanks to `ControlOK` |
| `SentItemsSafe` | `Spec => []NoSentItemLost` | `SendInv` |
| `KeysSafe` | `Spec => []ConstraintOnlyAfterCrash` | `KeysInv` |
| `ClientInSync` | `Spec => []RemoteClientInSync` | inductive relative to `TypeOK` |
| `ConfirmedItemsSafe` | `Spec => []ConfirmedItemLogged` | `ReceiveInv` |
| `SettledItemsStay` | `Spec => SettledOnce` | `TypeOK` and counting of copies |
| `PlayImplementsExchange` | `Spec => ImplementsItemExchange` | `ExchangeInv`, with `SendInv`, `KeysInv` and `ReceiveInv` |
| `SurplusPaidFor` | `Spec => []SurplusBounded` | `SurplusInv` |
| `OneClientAtATime` | `ServerSpec => []OneClient` | `SlotTypeOK` with `OneClient` |
| `ClientsInTurn` | `ServerSpec => []ServedInTurn` | `TurnInv`, with `OneClient` |
| `SessionsComplete` | `SetupSpec => []PlaysOnComplete` | `FileInv` |
| `PlacementsSentOnRequest` | `SetupSpec => []PlacementsOnRequest` | `SetupInv` |
| `MessagesInOrder` | `Spec => []InOrder` | `PipeInv` |
| `EndAfterMessages` | `Spec => []NothingCutOff` | `PipeInv` and `EndInv` |
| `StatementsFinalizedOnce`, `PointersStayUsable` | `StatementsSpec => []FinalizedOnce`, `[]NoUseAfterFinalize` | `StatementsInv` |
| `NoMarkEscapes`, `BuiltValuesGrow` | `PickleSpec => []MarksNeverEscape`, `ValuesOnlyGrow` | `PickleInv` |
| `CommandsReachMainLoop`, `NilEndsSession` | `CommandsSpec => []CommandsAsNamed`, `[]NilMeansGone` | `CommandsInv` |
| `WatchersInSync`, `ChainsInSequence` | `Spec => []WatcherInSync`, `[]ChainInSequence` (`DataStorage`) | `StorageInv` |
| `NamesLead`, `CreateFailsExplained` | `PlacementsSpec => []NamesLeadBack`, `[]CreateFailsOnlyFor` | `PlacementsInv` |
| `ReadsInStep` | `CodecSpec => []FramesInStep`, assuming `PayloadsAreCells` | `CodecInv` |

Why the strengthenings are needed.

* `NoSentItemLost` does not survive `ClearChecked` unless the location that is being
  cleared is queued already, nor `HandleDataSendConfirm` unless a confirmation in
  flight is about an item the server has: `SendInv` says both.
* `ConfirmedItemLogged` depends on the whole way of an item: received items are
  logged, torn or in the batch; the item in `MarkReceived` is logged; what a batch has
  visited is received; confirmations in flight are about logged items.
* `ConstraintOnlyAfterCrash` needs that, without a kill, the queue holds nothing but
  cleared locations and those about to be cleared.
* The refinement goes step by step: every action of `Play` is one action of
  `ItemExchange` or leaves the mapped state alone. `ExchangeInv` has what the guards of
  the abstract actions ask for: a `DataSend` in flight is about an item that is
  promised, the location that is being cleared is another player's or has its item
  in the log, and the batch at hand is received.
* `SurplusBounded` is not inductive, because an item is logged before the row that
  prevents the next copy is written, and in a batch the other way round.
  `SurplusInv` keeps the account: a copy is covered by that row (`AccountedFor`: written, or
  about to be) or by a kill or a `!collect`, and the copies a batch owes are counted
  in advance.
* `ServedInTurn` needs `TurnInv`: whoever got the slot was accepted, waits in the channel,
  or is the one handler that has still to put its connection there. That there is one
  such handler at most is `OneClient`, so the order of service rests on the
  compare-and-swap.
* `PlaysOnComplete` does not survive `Open`, which looks at the prepared tables and at one
  row. `FileInv` has what makes this enough: rows come all at once, and when the
  transaction begins all the tables are there.
* `PlacementsOnRequest` needs `SetupInv`: there is at most one request and one answer
  under way, and the process is past the loop that waits for the request
  (`Asked`) only if the server has asked.
* `PipeInv` says that what has been read, the inbox, the hand of `ping`, `realInbox`, the hand
  of `recvMessages` and the wire follow on from each other without a gap, with pings
  in between (`Carries`). `EndInv`: who is done has seen the end of the channel before
  it, unless `ping` has given up.
* `StatementsInv`: nothing is ever taken out of the slice, so statement number i is in
  cell i of every array. In the array in use its cell is nil exactly when it is
  finalized, which is why `DB.Close` finalizes the rest, once. This holds because a
  pointer that is closed is the last one returned (`StmtInv`); the held pointers, into
  old arrays, are never closed through. `FailedInv`: the statement whose `Exec` failed is not
  finalized before `DB.Close` comes to it.
* `PickleInv`: objects have their items to themselves and without marks, and a value on
  the stack, above it or in the memo says of what kind the object is that it refers
  to; without the last part a value could pass for a list and change a tuple. A dict has
  an even number of items, so that putting one in never takes a value for a key.
  That the topmost mark exists comes from the well-foundedness of the naturals.
* `CommandsInv`: `Cmd` is what the last value with a readable cmd has named.
* `StorageInv`: a running chain holds JSON or the one number that is not finite, and
  after an operation its two values are the same (`ChainInv`). As long as nothing was changed in
  place the default is what the client sent, and a list that shares its array begins
  with it; that is why an `add` that writes to the shared array never shows. A client
  that watches nothing knows nothing, or `SetNotify` would give it stale knowledge.
* `PlacementsInv`: the placements are the checks that have an item, in their order, with
  the names that were made for them (`OriginOK`), and while `createSavefile` runs every row comes
  from one answer of the server and every answer is a row or still to come
  (`CreateOK`). A failure would need two rows with one key; the lemmas about reading
  names back (`DiscriminatorReadBack`, `QualifiedReadBack`) turn equal keys into equal numbers,
  and equal numbers into a location that is listed twice.
* `CodecInv`: every frame has the length it says (`FramesOK`), `Read` is at the beginning of one
  or behind its length field (`Position`), the wire holds what is left of the frames from
  there on (`WireOK`), and every frame that was taken has made what it makes alone
  (`ReadOK`). Each kind of bad frame is shown to keep this, the panicking one included.
* `ReadsInStep` has a hypothesis, `PayloadsAreCells`: what `Write` makes of a message is a
  sequence of cells. That is a statement about folds and a recursive function, which would
  take induction over data; the run `Parts` evaluates it for its types and contents
  (`SamplesAreCells`). The theorem speaks of the stream (boundaries, order, rejected frames,
  any number of messages) and not of the contents.

`StorageInv`, `PlacementsInv`, `CodecInv` and the other strengthenings were checked by TLC on the
instances above before they were proved.

Only model-checked. `ReadsWhatWasWritten`: what `Read` makes of the fields that `Write` has
written takes induction over their number and over the digits of a length. All liveness
(`QueueDrains`, `FoundItemLogged`, `FoundItemConfirmed`, `ReadyUnlessStuck`, `OutageNoticed`,
`RecvTerminates`, `SetupFinishes`): the prover does not do fairness. Every other property of a
passing run has a theorem.

## 5. Not modelled

* `sqlite3.c` and `sqlite3.h` are the vendored SQLite: 236 000 lines that are not this
  program's logic. SQLite is assumed to commit atomically and to fail in no other
  way than the ones named above. They are nearly all the lines of C in the
  repository, so any count of modelled lines that includes them is close to nothing;
  the program itself is Go.
* `pickle/bind.go` copies a decoded value into a Go struct by reflection. It keeps no
  state and has nothing to interleave with.
* JSON and WebSocket framing, what a session builds for display (`Players`, games, data
  packages, `LocationScouts`, synthetic ids; `play.go` 61-148) and logging carry no state that a property here depends on.
* Fractions in data storage, and the conversion of NaN to an integer.

## 6. Plan

1. Done: all components but the ones above, `ItemExchange` and the refinement,
   checked by TLC; a proof of every safety property that a passing run checks, but for
   `ReadsWhatWasWritten`.
2. Left: `ReadsWhatWasWritten` for all contents, once a prover can use induction over
   sequences; the liveness properties for any instance; fractions in data storage.
