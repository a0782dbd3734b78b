# isdtctl in TLA+

isdtctl talks to ISDT battery chargers over Bluetooth Low Energy. It is a
library (`crates/api`), a command line program (`crates/cli`) and a desktop
window (`crates/gui`). This directory holds TLA+ models of it, the TLC
configurations that check them on small instances, and proofs that TLAPS checks
for all instances.

## 1. The system

| component | where | state it keeps | operations |
|---|---|---|---|
| Framing | `api/src/frame.rs` | none | `encode_to`, `push_stuffed`, `chunk` |
| Decoder | `api/src/frame.rs` | state, run of sync bytes, countdown, checksum, buffer | `push_byte`, `push`, `push_notification`, `reset` |
| Request table and layouts | `api/src/request.rs` | none | `command_word`, `reply_word`, `is_retryable`, `data` |
| Response parser | `api/src/response.rs` | a cursor over one reply | `parse`, `Reader`, `command_word`, `channel` |
| Value tables | `api/src/types.rs` | none | codes, voltages of each chemistry, accepted ranges |
| Client | `api/src/client.rs` | the link, a timeout, the frames set aside | `call`, `next_frame`, `take_pending`, typed queries and commands, `flash_firmware` |
| Link | `api/src/link.rs` | (a trait) | `send`, `recv`, `drain` |
| BleLink | `api/src/ble.rs` | frame channel, pump task, `last_write` lock, MTU | `connect`, `send_frame`, `recv`, `disconnect`, drop; `scan`, `find` |
| Token store | `api/src/tokens.rs` | a map of identifiers, and a file | `load`, `get`, `set`, `save` |
| Backend supervisor | `gui/src/backend.rs` | scan results, live chargers, the token store | `Scan`, `Bind`, `Connect`, `Disconnect`, `Task` |
| Device task | `gui/src/backend.rs` | a client, a reading, a queue of commands | connect, poll, apply, reconnect |
| Window | `gui/src/main.rs` | the devices shown, the selection | `apply` of each update, buttons |
| Command line | `cli/src/main.rs` | a client, the loaded store | one command, `watch`, `shell` |

How they interact. A program owns a `Client`; the client owns a `BleLink`. A
call writes a request through `send_frame` and then waits on the link's channel,
which the pump, a task of its own, fills with what the decoder makes of the
charger's notifications. In the desktop program the window and the backend
thread exchange messages over two unbounded channels; the backend's supervisor
spawns one task per charger and passes it commands over a third; a task that is
dropped is aborted at its next await. The command line program and the desktop
program share the token file and nothing else.

What is hard about it. The protocol has no sequence numbers: an answer is
recognised by one byte, so retries, late answers and unprompted frames can be
confused. The bridge in the charger drops frames sent too close together. A
write to a dead link never completes. Every await of the library may be
cancelled. The radio loses notifications and the decoder must find the next
frame again. `PROJECT.json` lists each hazard at its line with the properties
that watch it.

What makes each component correct:

* Framing and decoder: a frame survives encode, cut, decode; after any damage
  the decoder finds the next frames; its counters never leave their range.
* Client: the right number of copies on the air; every call ends; a timeout only
  after all attempts; frames that are not the answer reach the reader once and
  in order; an answer belongs to the call that accepts it, unless it was left
  by one that was resent, failed or dropped.
* BleLink: frames of concurrent senders whole and apart; a gap between writes;
  every write bounded.
* Requests and replies: what one layout writes the other reads back; a reply is
  understood exactly when it is whole; no task goes beyond its chemistry.
* Firmware: what is reported as written is in the charger.
* Token store: an identifier that is stored was accepted, or taken for accepted
  because of a late answer; one a charger accepted is lost only by a mishap that
  can be named.
* Device task: queries nobody answers do not stop the cycle, a reading is of
  this connection, and one query without an answer leaves the rest usable.
* Backend and window: what the window shows follows what is live; a closed
  charger stays closed; a command reaches the charger it was given for, once.

## 2. The modules

| module | models | checked by | proved in |
|---|---|---|---|
| `Request` | the table of requests: words, reply words, retryability | through `Client`, `Wire` | `WireProofs` |
| `Values` | codes, voltages and ranges of `types.rs` | through `Wire` | `WireProofs` |
| `Layout` | the bytes of every request, the fields of every reply | through `Wire` | `WireProofs` |
| `Wire` | what the programs ask and what they make of the replies | `MCWire`, `wire.cfg`, `wire_cutoff.cfg` | `WireProofs` |
| `Client` | `call`, `call_once`, `next_frame`, `take_pending`, the pump and the channel, the air, the charger | `MCClient`, `client.cfg` | `ClientProofs` |
| `Exchange` | the abstract client: what a call and the feed promise | as a property of `client` | `ClientProofs` |
| `Flash` | `flash_firmware` against a charger with a memory | `MCFlash`, `flash.cfg` | `FlashProofs` |
| `Frame` | `frame.rs`, as operators on bytes | through the next two | |
| `Decoder` | the decoder fed any bytes | `MCDecoder`, `decoder.cfg` | `FrameProofs` |
| `Notifications` | replies cut into notifications over a bad radio | `MCNotifications`, `notifications.cfg` | `FrameProofs` |
| `BleWrite` | `send_frame` under its lock, for several senders | `MCBleWrite`, `blewrite.cfg` | `BleWriteProofs` |
| `Tokens` | the token file: `load`, `get`, `set`, `save` | through `Binding` | `BindingProofs` |
| `Binding` | binds of both programs, the identifiers chargers hold, the file | `MCBinding`, `binding.cfg`, `tokens_lost.cfg` | `BindingProofs` |
| `Polling` | one device task, request by request, over successive links | `MCPolling`, `poll.cfg`, `poll_quiet.cfg` | `PollingProofs` |
| `Backend` | the charger thread of the desktop program, under any window | through `Desktop` | `DesktopProofs` |
| `Desktop` | the window, composed with `Backend` | `MCDesktop`, `desktop.cfg` | `DesktopProofs` |

### Client

One action per stretch of code between two awaits. `Call` enters `Client::call`;
`Send`, `SendFails` and `SendTooLong` are the outcomes of `link.send`;
`DeadlinePassed` is the test at the top of the loop in `call_once`; `RecvStarts`
and `RecvClosed` the test in `BleLink::recv`; `RecvFrame` and `RecvNothing` the
end of the wait. `attempt` counts as the `for` of `call` does. The pump
(`Notify`, `PumpEnds`) runs between any two of these; it first drops its sender
(`ended`) and only then counts as finished, because `recv` reads `is_finished()`
and the wait sees the channel close, and the two can disagree. The deadline is
one flag, `expired`, that `Expire` raises at any moment of a wait; `timeout`
polls the channel before the clock, so a queued frame wins over a passed
deadline in `RecvFrame`, while at the top of the loop the deadline wins. The
deadline is set once for each attempt; `late` counts the frames taken after it.
A caller may drop a call at either of its awaits, as `watch` does at ctrl-c, in
a shell that goes on with the same client: `Drop` ends it in the write or,
`StopWaiting`, in the wait. `SendAlone` is `Client::send` of the command line's
`raw`, which waits for no answer of its own.

Frames carry two numbers that real frames have not: the call they answer and
the order the charger sent them in. No guard of an action reads them.

The charger and the radio are external. A charger answers a request at most
once, under a word that request draws, may refuse where the protocol has a state
byte, may swallow the request, and may speak unprompted. A `Raw` request may
hold the bytes of any other and so draw any answer. The radio loses
requests and notifications but does not reorder or duplicate them, as GATT
guarantees.

### Exchange, and the refinement

`Exchange` has no attempts, clock, pump or queues: an open call ends once with a
failure or with a frame the charger really sent under the right word, every
other frame is lost, set aside or surfaced, and the feed surfaces in the order
of sending. A call that is dropped, and a request sent alone, are failures to
it: ends with no frame. `Client` implements it under the mapping at the end of
`Client.tla`: the channel and the radio together are its `air`, `pending` its
`aside`, and the phases of a call its `open`.

### Frame, Decoder, Notifications

Bytes are `0 .. 255`, checksums wrap at 256, and a packet's length byte is the
length modulo 256, as `as u8` is. `Decoder` lets any byte follow any other;
`Notifications` sends whole replies and lets the radio lose a notification, cut
one short, or slip in a stray one.

### BleWrite

Each sender goes through `lock`, `pace`, `write`. The lock is a queue, as
tokio's mutex is fair. `since` is the time since `last_write` as the code knows
it; `quiet` the time since the radio really took a packet. A write may complete,
fail, hang until `WRITE_TIMEOUT`, or be dropped by its caller, and in the last
three cases the radio may have taken the packet all the same.

### Values, Layout, Wire

A packet is a sequence of fields, each a name and a size; `Arguments` lists
those of a request as `data` pushes them, `FixedLayout` and `LiveLayout` those
of a reply as `parse_body` reads them, and `Fields` adds the words whose layout
depends on the body: the chart, the battery that counts its own cells, and the
electrical reply with its two widths. `Take` is `Reader::take`, `TakeAll` the
chain of `?`; the fields of newer firmware are read after the others and may be
missing. Numbers are little-endian at their width.

`Wire` sends these requests with the arguments the programs let a user give:
`Start` is `start` of the command line with its checks and `--force`,
`WindowStart` and `Apply` what the window's controls hold and what the device
task sends: the controls follow the last running task the charger reported, so
that they may hold any chemistry, current and number of cells, and nothing
checks them. `OneKey`, `BattgoWrite` and `Ask` are the other commands.
`Expected` and `Verdict` are the typed methods, bind and the firmware steps
among them: the variant each wants, and what it makes of a refusal
(`Acknowledged`, with the place of its state byte, `StateAt`). The charger is
external. It stores the bytes of a setter and reports them at the other places
PROTOCOL.md gives, so what is written in one layout is read in another; of a
stop it keeps no more than that nothing runs (`Stored`), since it ignores the
other fields. A reply may be cut at any telling length, or be longer than this
library knows. What a program shows (`ShownWork`, `ShownProfile`) is compared
with what it was told.

### Flash

One step per request of `flash_firmware`, none of which is resent. `index` is
what `progress` is told. An attempt that times out or whose write fails leaves
its request and the answer to it on the connection, and the user of the shell
may start another at once; acknowledgements carry an address that the client
does not compare. `Reconnect` is a crash, a kill or a new run of the program.
The charger's memory is external: a refusal changes nothing, a write over what
is not erased is garbled, and an erase that does not fit the memory is refused,
so that no write is tried at an address that has wrapped. Addresses count blocks
and wrap, as an unchecked `u32` does in a release build; a debug build stops
there. The checksum is a sum, so it cannot tell two orders of the same blocks
apart, which is why an instance has both.

### Tokens and Binding

The window loads the file once and keeps what it binds in its own copy; the
command line loads it at every start, and a shell keeps that copy as it was,
writing a clone of it with one more identifier. `Truncate` and `Write` are the
two halves of `std::fs::write`, and a program may be killed, or fail, between
them. A charger accepts the identifier it holds, and any other only in binding
mode. Its answers wait in `answers`, on their way or in the channel, until a
bind takes the first of them (`TakeAnswer`), whichever request it is about: the
request may have been resent, or the bind given up, before it came. A shell
keeps its client, and so what is queued there, and a new client may take over a
connection with answers still on their way (`NewClient`). `SetAside` is any
other command of a shell that meets such an answer. A run of the command line
loads the file (`RunCommand`) and only then scans, finds and connects
(`Connect`), so that another program may bind and save in between. `excused`
collects the chargers that suffered a mishap, each named at the action that is
one, and `mistaken` the identifiers whose bind took another's answer. No bind is
assumed to end: the connection around it has no deadline. `KeepAlive` and
`TypesOnce` are the end of a shell: the query that keeps the link alive fails,
the charger is released, and the process still waits for the line being typed,
on a thread that cannot be aborted.

### Polling

What `Backend` takes for one step each (a connection, a pass) in full:
`run_device` with its bind and its query for the name, and `poll` with its cycle
of five, command first, the reading built by `absorb` and sent when the last
query of a pass is answered. `Client::call` is there with its attempts, its
queue and its timeouts. Dropping a link does not disconnect the peripheral, and
the next link takes it as it is: `LinkConnects` keeps what is on the air, marked
as of the link before. The poll interval and the delay before reconnecting are
no states of their own, since nothing is decided by them.

### Backend and Desktop

The charger thread runs one task at a time and switches only at awaits, so an
action of `Backend` is what a task does between two of them. `commands` is the
channel from the window, `updates` the one back. The supervisor awaits twice
inside its loop, in a scan and in a bind; `busy` holds which, and while it is
not `Idle` no command is taken. `tasks` holds every task ever spawned, so that
one the supervisor loses track of would still be there to misbehave; `live` maps
a charger to the number of its task. A task is `new` until it first runs,
`connecting` through `connect_bound` and `hardware_info`, `polling`, `applying`
one command, or `waiting` for its next try; an abort moves it to `aborted` from
wherever it awaits. Its queue lives as long as the task, across connections.
Commands carry the number they were given in, which no action reads.

`BackendSpec` closes the module with a window that gives any command at any
moment. `Desktop` has the real one: each `Apply*` is a branch of
`ChargerWindow::apply`, each `Click*` a handler, with the guards of what is
drawn and none for what is drawn as disabled, since such a handler runs all the
same. `Desktop` implements `BackendSpec` (checked by `desktop`, and proved);
what is proved of `Backend` therefore holds of the program. One branch the
window never reaches, since identifiers are only ever added: `Connect` for a
charger that was scanned and has none. Only the proofs visit it.

## 3. The runs

| run | checks | bounds, and why they are enough |
|---|---|---|
| `client` | `TypeOK`, `ResendBound`, `TimeoutMeansAllTried`, `DeadlineStands`, `FeedInOrder`, `StaleOnlyAfterTrouble`, `CallEnds`, `ImplementsExchange` | a setter, a block write and a raw request, unprompted work states, 1 extra attempt (one attempt less or more than allowed is visible from one on), 2 calls: one to leave an answer and one to take it; 3 frames: one set aside, one in the channel and one on the air at once |
| `decoder` | `DecoderInv`, `DecodesExactly` | all streams of 8 bytes over 6 that matter (the sync byte, the address, a length, and bytes whose data or checksum must be stuffed): a whole two-byte frame in the wake of a damaged one |
| `notifications` | `Reassembled`, `Resynchronises` | a reply of one notification and one of two, cut inside a stuffed pair; 4 replies, 4 faults |
| `wire` | `TypeOK`, `ParsesExactly`, `AnswersTheQuestion`, `TaskIsSafe`, `ReadBack` | every kind but `Raw` and `Identify`, 2 calls: one to set and one to read back; currents inside and outside the range and wider than 16 bits, all chemistries; 29 reply lengths, on both sides of every length at which some layout ends or changes |
| `wire_cutoff` | `CutoffAsTold` is violated | finding 1 |
| `flash` | `TypeOK`, `TellsTheTruth`, `VerifiedMeansSummed`, `AttemptEnds` | images of one block and of two in both orders, a memory of 2 blocks, addresses where the image fits, runs out of memory and wraps, 4 attempts: three that are given up and one that is verified |
| `binding` | `TypeOK`, `StoredUnlessStale`, `KnownUnlessMishap` | a window and a command line, 2 chargers, 2 identifiers, 2 starts, 2 binds after those a command line makes at its start, 3 interventions at a charger, 2 answers of it on their way: one bind that is resent or given up, and one that meets its answer |
| `tokens_lost` | `SavedIsKept` is violated | finding 2; nothing is killed and no file fails |
| `blewrite` | `FramesNotInterleaved`, `WholeOrPrefix`, `GapKept`, `SendEnds` | 2 senders, 3 sends of one and two packets |
| `desktop` | `TypeOK`, `WindowCatchesUp`, `OneTaskPerCharger`, `NoCommandOutlivesDisconnect`, `CommandsInOrderOnce`, `BackendSpec`, `DisconnectCloses` | 2 chargers, one known and one to bind, 4 commands with 1 connection, or 3 with 2 connections or a reading (`Bounded`): scan, connect, task command, disconnect; or connect, a lost link and another |
| `poll` | `TypeOK`, `NothingFromBefore`, `EveryQueryComesRound`, `RestUsable` | a charger that does not know the temperature query, one field followed, 1 extra attempt, 2 packets on the air, 1 task command |
| `poll_quiet` | `RestUsable` is violated | finding 3: the same with the last query unknown |

`CHECK_DEADLOCK FALSE` stands where the model stops once the program has made
its last call, attempt or start, the radio carried its last reply, or the user
pressed the last button and the last connection was tried: the real program,
asked for nothing, waits there too. The decoder never stops, and its run checks
deadlock. `Bounded` of `desktop` cuts behaviours only at steps of the user, the
charger and the radio, of which no fairness is assumed; the steps that are
fair do not count towards it.

What some of the properties say, and their limits:

* `CallEnds` is checked with three frames, too few to flood a call; that no
  number of frames keeps a call beyond its deadline is `DeadlineStands`, which
  is proved: at most one frame is taken after it.
* `TaskIsSafe` promises the range of current and cells for the command line
  without `--force` only. The window starts what its controls hold, and those
  follow whatever the charger last reported.
* `ReadBack` of a stop says that nothing runs, and nothing of the fields a stop
  carries as placeholders.
* `StoredUnlessStale` says that the only way to store a refused identifier is
  to take the answer to another bind for its own. That way exists (see what was
  seen in the code, below): without `mistaken` the property is violated.
* `EveryQueryComesRound` is about a link that works and a task left alone; that
  a link which is gone is noticed is not claimed.

* `TellsTheTruth` holds for connections on which no attempt was given up.
  `VerifiedMeansSummed` holds for up to three that were, and says less: that the
  charger found the checksum of this image where it belongs. It holds because of
  the sequence of words: to be out of step at the last of four steps, a client
  must have had a late acknowledgement of each. That the blocks are those of the
  image does not follow, since an erase that was refused may be taken for done.
* `WholeOrPrefix` is about what the radio took, which may be more than what it
  confirmed: a write that timed out may have gone out all the same.
* `KnownUnlessMishap` says that the file knows every identifier a charger holds,
  but for the mishaps listed; the next clean save of its line ends a charger's
  mishap. `SavedIsKept` does not excuse the one of them that the code brings
  about by itself, saving an older copy.
* `NothingFromBefore` is for one link before this one on the same connection.
  With two of them, each may leave an answer that the next takes for its own,
  and one more packet on the air than in this instance is enough for a reading
  of the connection before to be shown; the radio would have to hold an answer
  for several timeouts.
* `RestUsable` is conditional on every query the charger knows being answered
  again and again.

Fairness. `client` assumes that the runtime polls a task that can move and that
the clock advances (`WF` of the client's steps and of `Expire`), and nothing
about the charger, the radio or the pump; `flash` and `poll` assume the same of
their client, with the deadline in `TimesOut`, and `poll` that an attempt to
connect ends, though what it claims is conditional on a task that polls.
`binding` is about safety and assumes no fairness. `blewrite` assumes that every
sender that can move does and that time passes (`Tick`); no write is assumed to
complete. `desktop` assumes that the window applies updates and that the
supervisor takes commands when it waits for nothing (`WF` of `Apply` and of the
supervisor's steps that end nothing but themselves), because both are loops over
a channel that nothing else holds up. It assumes nothing of scans, binds,
connections, chargers or the user; `DisconnectCloses` itself is conditional on
the supervisor coming back from a scan or a bind again and again.

## 4. Findings

1. **A high input cutoff is sent as a low one.** `main.rs:531` of the command
   line casts `volt * 1000` to 16 bits. 66 to 70 V are accepted
   (`types.rs:584-585`) and printed as set, and 464 to 4464 mV are sent.
2. **A saved identifier can be erased by the other program.** `Store::save`
   writes a whole copy without reading the file again. A window that was open
   while the command line bound one charger erases it by binding another,
   although `tokens.rs:3-7` promises that the file is what prevents such a loss.
   A shell that binds, while its copy is old, does the same.
3. **A charger without a second channel never shows a reading.** `poll` sends a
   reading when the last query of its cycle is answered. That is the second
   channel's resistance, which `backend.rs:433-434` says is left out and the
   filter keeps.

Seen in the code, not among the runs:

* `link.rs:89-90` documents `drain` as "Called before a request so a stale reply
  cannot be mistaken for a fresh one", but `Client` never calls it: when both
  copies of a resent request are answered, the second answer waits for the next
  call of the same kind. `StaleOnlyAfterTrouble` is what remains true: such an
  answer was left by a call that was resent, failed, dropped or a `Raw` one, or
  the charger speaks the word unprompted.
* One consequence is that a refused identifier can be saved. `Client::bind` takes
  the first answer to a bind there is. If a bind was resent, or given up before
  its answer came, the next bind takes what the charger said of the earlier
  identifier, and the one it presented is saved although the charger refuses it,
  against `main.rs:615-616` of the command line ("Nothing is stored unless the
  charger actually accepted it, so a refusal cannot leave a token behind that does
  not work").
* `reboot` takes a timeout for success because the link drops (`client.rs:513`),
  but if the pump finishes before the client starts to wait, `recv` reports
  `Closed`, which `reboot` hands on as a failure.
* `chunk` does not cut a frame at all once the MTU is 21 or more, against
  `frame.rs:78-79`; a firmware block with sync bytes then exceeds the MTU, and
  past 255 bytes its length byte wraps.
* A bind that fails leaves a notice, the notice opens a tab, and the tab says
  `Connecting`, which `backend.rs:89-90` documents as "Working on it.", for
  ever. A bind that succeeds opens its tab the same way, before the first
  status, so the discovery panel stays in front, against
  `gui/src/main.rs:183-184`.
* A chip is "Disabled while a task runs" (`gui/src/main.rs:893-894`), but only
  its colours are; its handler is attached in any case and changes the settings
  shown.
* `request.rs:39-40` says a name of more than 16 bytes is rejected; `data` cuts
  it. Only the command line rejects it.
* After its keep-alive failed, the shell's process waits until a line is
  entered.
* The second channel's resistance overwrites the first's in every reading.

## 5. The proofs

All proofs hold for every value of the constants that satisfies the named
assumptions of the modules, which TLC evaluates on every run: `KindsAssumption`,
`RetriesAssumption`, `BoundsAssumption`, `WordsAssumption`, `BodiesAssumption`
(`Client`); `AlphabetAssumption`, `MaxBytesAssumption` (`Decoder`);
`RepliesAssumption`, `RadioAssumption` (`Notifications`); `StoredAssumption`,
`LimitsAssumption` (`Backend`); `SettingsAssumption` (`Desktop`);
`MemoryAssumption`, `InputsAssumption`, `BoundsAssumption` (`Flash`);
`ConstantsAssumption` (`Polling`); `KindsAssumption`, `InputsAssumption`,
`BoundsAssumption` (`Wire`); `ProgramsAssumption`, `ChargersAssumption`,
`BoundsAssumption` (`Binding`); `GapAssumption`, `SizesAssumption` (`BleWrite`).
They say that the request kinds issued are kinds of the table, words are bytes,
replies have a length a frame can express and, where the channel is wide enough
not to be cut, an encoding a notification's length byte can count, chargers with
an identifier are chargers, the settings a task may have are settings, a program
is a window or a shell and not both, chargers are finitely many, what a user
types is a natural number, a number of cells fits the `u8`, a voltage the `u16`
and a current the `u32` it is parsed as, images are sequences of numbers, the
memory is no larger than its address space, and counts are natural numbers. A
bound such as `MaxCalls` is any natural number, so what is proved does not
depend on it.

**The client** (`ClientProofs`)

* `FramesRenewNoDeadline` (`DeadlineStands`), with `LateFollowsDeadline`: the
  wait begins before the deadline, and a frame taken after it leads to the top
  of the loop, where the attempt ends.
* `TypeCorrect`, `NothingIsResentTooOften`, `TimeoutsAreExhausted`.
  `ResendBound` and `TimeoutMeansAllTried` are not inductive: that a call about
  to time out has made as many copies as its attempt counter says is invisible
  to them. `RetryInv` adds `CopiesFollowAttempts`, which ties the two through
  the phases of a call, and `TypeOK`, which bounds the counter by
  `Attempts(kind)`. Every ending of a call goes through one lemma,
  `EndingKeepsRetryInv`, and every step that adds nothing to the log through
  another, `SameLogKeepsRetryInv`.
* `FeedIsInOrder`. `FeedInOrder` speaks of the concatenation of three queues.
  `FeedParts` takes it apart: each queue is rising, each precedes the next, all
  are above the last frame surfaced and below the number minted; every action
  then moves one frame from the head of one queue to the end of the next.
  `JoinRising` and `JoinBounds` put the parts together again.
* `ClientImplementsExchange`: `Client` implements `Exchange`. What the
  refinement needs beyond `FeedInv` is `Traced`: each copy on its way to the
  charger belongs to a call made so far and has its kind, and each frame was
  sent unprompted with a word the charger speaks unprompted, or for a call whose
  kind draws its word. Calls get their kind once and keep it (`StepKeepsCalls`),
  so steps preserve it. Then each action of `Client` is mapped to an action of
  `Exchange` or a stutter.
* `AnswersBelong` (`StaleOnlyAfterTrouble`). `Settled` says that a call that
  wrote its request once has at most one thing on its way in either direction,
  and that nothing of it is left once it has its answer. Accepting a frame of an
  earlier call is then impossible unless that call was resent, failed, was
  dropped by its caller, or was a `Raw` one.

**Writing firmware** (`FlashProofs`)

* `TypeCorrect`, and `ReportIsTrue` (`TellsTheTruth`). `Agree`, which holds as
  long as no attempt was given up, says that at most one request or answer is on
  its way, that it is of the step under way, and that a good answer to an erase
  or a write means that the memory shows it (`InStep`); and how far the image is
  in memory (`Progress`).
* `VerifiedIsSummed` (`VerifiedMeansSummed`): with up to three attempts given
  up, "ok" still means that the charger found the checksum of this image. The
  way is the sequence of steps that the answers and requests still around will
  acknowledge. `Left` cuts it in two: what earlier attempts left, and what the
  one under way sent (`Mine`). The attempt is `Behind`, brought to its step by
  leftovers, and then it and what is left can climb the four steps no further
  than the number of attempts given up; or it has `Caught` up, and nothing is
  left from which a climb could start. Each attempt given up adds at most one
  step to the climb (`EndIsLow`), because within one attempt every
  acknowledgement is of the step it asked for; four steps take four attempts.
  TLC checked `Left` as an invariant of `flash` before it was proved.

**Polling** (`PollingProofs`)

* `TypeCorrect`.
* `FiledIsOfThisLink` (`NothingFromBefore`). `OfThisLink` describes the way, the
  frames and the answers to come in their order of arrival. On the first link of
  a connection (`Fresh`) nothing else is on it. On the second (`Second`) what
  the last link left comes before what this one asked for, and answers to a bind
  and to a query of the cycle are not both left; so the answer to the name is
  taken only when nothing is left that a poll could file.

**Binding and the token file** (`BindingProofs`)

* `TypeCorrect`; `StoredWasAccepted` (`StoredUnlessStale`), which follows an
  identifier from the charger's answer through the task to the copies and the
  file: every answer on its way that says "bound" is about an identifier the
  charger accepted, so a bind that takes its own answer saves an accepted one.
* `KnownIsOnDisk` (`KnownUnlessMishap`). The property speaks of the file between
  saves; `BindInv` speaks of the moments in between: lines due are on disk when
  no save is under way (`OnDisk`), a copy as recent as the last save has them
  (`Recent`), two saves that overlap are a mishap (`Alone`), and what is saved
  is what a bind was told (`Told`). `Counted` bounds the versions of the copies.
  Removing and adding a line leaves the others findable, which is proved for
  files of any length and any order of lines.

**The send side of the link** (`BleWriteProofs`)

* `FramesStayTogether`, `SentIsAFront` (`WholeOrPrefix`), `RadioRests`
  (`GapKept`). `SendInv` says who has the lock (`InLine`), that nothing of a
  frame is on the air before its sender has it and nothing of another while it
  does (`OnItsOwn`), and that what is left to send is the rest of the frame's
  packets (`ToSend`). A future dropped at any await leaves the line at once, so
  a front of its packets stays. `GapKept` needs `Known`: as long as every write
  was confirmed, the radio has rested at least as long as the link believes.

**Framing** (`FrameProofs`)

* `DecoderIsSound`: `DecoderInv` for streams of any length over all bytes.
* `DecoderDecodesExactly` (`DecodesExactly`). What matters of a stream is what
  follows its last opening sync byte. `Parts` cuts a stream there: what ends in
  an odd run of sync bytes, the stuffing of the bytes `e`, and possibly half of
  a pair. `Follows` ties the decoder to that cut: its `sync_run` is the run of
  sync bytes at the end of the stream (`Run`), its state, countdown, checksum
  and buffer are those `e` calls for (`Awaits`), what it yielded is what `e`
  spells (`Yield`), and a decoder that does not hunt, or has just yielded, has
  such a cut behind it. `Parts` of a longer stream come from those of the
  shorter (`PartsGrow`, `PartsOfMore`), so one byte preserves `Follows`
  (`PushByteFollows`). `FieldsAre` and `YieldsItsFrame` say that an `e` that
  yields spells length, data and checksum of one frame and no other; `EndsInIs`
  that an encoding at the end of a stream is such a cut.
* `RepliesAreReassembled` (`Reassembled`), `HostResynchronises`
  (`Resynchronises`). `Steady` says that the decoder follows some stream, that
  the queue is what is left of the encoding of the current reply after some
  bytes of it (`Packed`), and that the decoder stands where those bytes took it
  from the moment the reply was sent (`OnItsWay`). A stream that ends in a whole
  encoding ends in no odd run of sync bytes (`EndsEven`), since a checksum that
  is a sync byte is doubled; so after one undisturbed reply the opening sync
  byte of the next counts as one, whatever the air did before, and the next is
  decoded (`LastPartYields`, from `PushCut`: pushing two slices is pushing their
  concatenation; `FrameYields`; `OnlyTheLast`). `ChunksArePacked` is the
  arithmetic of `chunk`.

**The charger thread** (`DesktopProofs`, first half)

* `TasksAreFollowed`, `DisconnectEndsWork`, `WorkIsInOrder`, for any window,
  hence any number of chargers and tasks. `OneTaskPerCharger` is needed for the
  other two: only because the one task of a charger is aborted at a disconnect
  does no older queue survive it. `OrderInv` adds what the queues hold: commands
  wait in rising order (`CommandsRise`), those passed to a task come before all
  not passed on and after all that were begun or were a disconnect
  (`WorkInOrder`), and a charger's task is its own (`LiveFollows`). The types
  (`BackendTypeCorrect`) come first, one lemma for each kind of step.

**The window** (`DesktopProofs`)

* `TypeCorrect`, and `DesktopImplementsBackend`: every step of the window either
  gives a command or takes an update as `Backend` allows any window to, or
  leaves the charger thread alone.
* `WindowIsRight` (`WindowCatchesUp`). The property speaks only of moments with
  nothing on its way about a charger; `InTune` speaks of all moments: what there
  is to say of a charger (`Due`: closed if nobody follows it, else what its task
  says in its present state) is what the last status on its way says, or, with
  none on its way, what its tab shows (`Told`). Every step of a task that
  changes what is due sends that status behind all others (`RunDeviceTells`);
  every update applied either was the last about its charger, and then the tab
  shows it, or leaves what was due due (`UpdateApplied`). A task just begun has
  nothing due of its own, so what its predecessor said stands until it connects.
  `Followed` ties the supervisor's table to the tasks.

**Requests and replies** (`WireProofs`)

* `TasksAreSafe` (`TaskIsSafe`). The property speaks of the bytes in the
  charger; `SafeInv` says the same of the bytes on their way to it, except that
  a stop is no started task. That a started task is safe (`StartIsSafe`) needs
  the place and the width of every argument in the packet (`TaskPacket`, from
  `FlatHolds`: byte `i` of a packet is the byte of the field that covers it),
  numbers that survive their encoding (`RoundTripTwo`, `RoundTripFour`), and the
  tables of `types.rs` (`VoltTable`, `BatteryCode`). It holds for any current
  and cells the window may hold, since only the command line without `--force`
  promises a range.
* `WireIsTyped` (`TypeOK`): each kind's packet has its documented length and
  fits a frame, for all arguments the programs accept (`TypeInv`).
* `RepliesParseExactly` (`ParsesExactly`). A chain of reads succeeds exactly
  when the body has the sum of their widths and stops where that sum says
  (`TakeAllReads`); the widths of each word's fields add up to `Shortest`
  (`ReplyFields`). A reply whose layout depends on its body needs more: the two
  forms of the electrical reply on either side of 35 bytes, the battery's count
  of cells, which is one of the bytes read.
* `RepliesAnswerTheQuestion` (`AnswersTheQuestion`). `Said` describes what the
  charger answers to the call under way, cut or continued at any length: the
  word, the channel in its place, the acknowledgement that is zero unless it
  refuses. `VerdictIs` takes it through the parser and the typed method.
  `AnswerInv` ties the request, the answer on its way and the call that ended
  last (`Concluded`).
* `SettingsReadBack` (`ReadBack`). `MirrorInv` says that the settings in the
  charger's memory, and the one on its way to it, are what the program meant
  (`Meant`: the bytes carry these numbers; of a stop, only that it is one), and
  that a whole reply on its way that gives settings back repeats the memory
  where the other layout has it (`Mirrors`). The first half follows a setting
  into its packet (`TaskCarried` and its likes, from `FlatHolds`), the second
  the bytes spliced into a work state or cut from a longer reply
  (`WorkStateMirrors`, `OfLengthCuts`). Reading is `TakeAllReads` again: a field
  shows the bytes at its place (`ShownValue`), numbers survive (`RoundTripTwo`,
  `RoundTripFour`), and so do codes (`BatteryCode`).

**Induction over data.** The library states induction with an operator
parameter, which the installed provers cannot instantiate. Where a proof needs
it, it is done with a set: `LEMMA Induction` of `FlashProofs`, `BindingProofs`,
`DesktopProofs` and `WireProofs` says that a set of numbers that holds 0 and
every successor holds them all, and the property is turned into such a set. It
carries the sum of a checksum, the search of a line in a token file, and the
removal of a closed charger's tabs. `FrameProofs` needs more: `ByteSum`, `Stuff`
and `Push` recurse over a sequence. `Computes(f, n, base, step, s)` says that
`f` is the function with that recursion; `Computable` and `ComputesOne` prove,
from the well-foundedness of the numbers and by sets, that there is one and only
one. Each of the three then gets its value on the empty sequence, its step and
its type as a lemma (`SumAppend`, `StuffAppend`, `PushAppend`), and properties
of all streams go by `ByteInduction`. This is why `ByteSum` and `Push` are
recursive functions.

**Only model-checked**

* The liveness properties (`CallEnds`, `AttemptEnds`, `SendEnds`,
  `EveryQueryComesRound`, `RestUsable`, `DisconnectCloses`): fairness and
  ENABLED are out of the prover's reach.

## 6. What is not modelled

Left out for good, because no state of anybody else depends on it: argument
parsing, printing, drawing and the theme; labels and derived units in `types.rs`
and `response.rs` (constant functions with unit tests); scanning and the parsing
of advertised names, whose results the models take as any; which characteristics
a link subscribes to and writes, which the charger fixes; the loops of `watch`
and `raw` of the command line, whose steps (a call that may be dropped, a
request sent alone, the feed) are actions of `Client`; a device task that
reconnects while the supervisor binds the same charger, which `Backend` has and
`Binding` takes for one host at a time; `reboot`, which takes a timeout for
success; the matching of identifiers by a fragment in `Store::get`; the example
programs.
