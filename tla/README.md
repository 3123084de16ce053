# Flipper agent indicator: formal models

TLA+ models of the programs of this repository, the TLC runs that check them on
small instances, and proofs that TLAPS checks for every value of the constants.
The system shows the state of AI coding agents on a Flipper Zero: hooks of the
agents call a command-line tool, a daemon forwards the notifications over
Bluetooth LE, an application on the Flipper displays them, and its OK button
sends an acknowledgement back that clears the decoration of a tmux pane.

    hooks -> CLI -> unix socket -> daemon -> BLE -> receiver -> application
                       tmux <- bridge <- daemon <- BLE <- ACK (OK button)

## Inventory

| Component | State it keeps | Operations | What is hard | What makes it correct |
|---|---|---|---|---|
| BLE client, `ble.py` | where its coroutine waits, `_pending_frame`, `_had_success`, `failures_since_success`, `backoff` | connect, scan, subscribe, pump frames, retry, hard exit | a call fails at any await, a write arrives but its response does not, frames queued during a reconnect | the newest frame is never dropped; writes never go back in time; retries are bounded; a cold start retries for ever |
| Daemon, `daemon.py`, `bridge.py` | three asyncio queues, the tasks | accept, forward, handle incoming bytes, call the tmux bridge, stop | four tasks on shared queues, signals, exit status 1 and restart by launchd | what reaches the Flipper is a latest-wins register; every ACK is handled once, in order |
| Frame codec, `protocol.py`, `protocol.c` | none | encode, decode, in two languages | truncation, lengths at the limit, partial input | a stream can be decoded; both decoders agree |
| Label, `cli.py`, `socket_server.py`, `protocol.py`, `render.c` | none | put in a line, parse, cut, decode, wrap | free text in a line of words, clients killed at any byte, blanks at the edges of a line, multi-byte characters | every label arrives with its agent and state; nothing but spaces is lost between lines; words stay whole |
| Receiver, `ble_serial.c` | `rx_buf`, `rx_len`, who owns the serial callback | collect bytes, parse, take the callback back | pieces of writes, torn writes, the system's own RPC service | one whole write gives one frame; the buffer never jams |
| Application, `flipper_agent_indicator.c`, `effects.c` | two message queues, the current notification, LED, redraw flag | handle frame, handle key, draw, dismiss, exit | three threads, full queues, effects that block the loop | screen and LED follow the current notification; an ACK per dismissal; newer wins |
| Socket server, `socket_server.py` | the socket file, open connections | start, accept, time out, stop | two daemons on one path, sockets left by a crash, slow clients | a daemon that is alone starts and can be reached; a connection waits only for a daemon that will read it; a slow client delays only itself |
| CLI, `cli.py` | none | notify, status, serve, pair | silent failure | a notification is sent to the daemon that listens, or nowhere |
| Configuration, `config.py` | the TOML file | load, save_mac | a hand-written TOML writer that quotes no key, a file truncated and then written | saving the address keeps the rest; the daemon still starts |
| Pattern table, `patterns.py` | a table built at start | override, get | overrides of the wrong type; its entries are only logged | a bad override is skipped or ends the start |
| Hooks, `hooks/` | `lastState` and `idleAt` of the OpenCode plugin | one call of the CLI per event | events that overlap, failed calls | the last state sent is the agent's |
| Scripts, artwork, `render.c` drawing | none | install, draw | none | - |

Interaction: the CLI writes a line to the socket; the socket server puts a
`Notify` on `notify_queue`; `_forward_notifies` encodes it and replaces whatever
is in `outgoing_bytes` (a queue of one); the BLE client writes it. On the
Flipper a callback of the BLE thread cuts the bytes into frames and puts them
on `frame_queue`; the application thread takes one frame and one key event in
turn; the GUI thread draws. An ACK goes back as a BLE notification, through
`incoming_bytes`, to `_handle_incoming` and `TmuxBridge.clear`.
Each command of the CLI loads the configuration when it starts, and `pair`
rewrites it. Daemons meet only at the socket path, which each of them unlinks,
binds and chmods when it starts and unlinks when it stops.

## Modules

| Module | Models | EXTENDS |
|---|---|---|
| `LatestWins` | the promise: a register whose reader only ever sees newer values | |
| `FlipperClient` | `ble.py`: one action per stretch of code between two awaits | |
| `Daemon` | `daemon.py`, `bridge.py`, `SocketServer._handle`, signals, exit, relaunch; the daemon's properties | `FlipperClient` |
| `MCRelaunch` | `Daemon` with a count of failed sessions since the last delivery | `Daemon` |
| `DaemonProofs` | theorems about `Daemon` | `Daemon` |
| `Protocol` | both codecs as operators on byte sequences | |
| `CommandLine` | the line `notify` writes, and `readline` and `parse_line` that read it | `Protocol` |
| `Label` | a label typed character by character, its way to the lines on the screen | `CommandLine` |
| `MCCodec` | a label that grows, or arbitrary bytes arriving at both decoders | `Label` |
| `Recursion` | facts about recursive functions and induction, for the proofs over data | |
| `ProtocolProofs` | lemmas about both codecs | `Protocol`, `Recursion` |
| `CodecProofs` | theorems about `MCCodec` and what it extends: codec, line, label | `MCCodec`, `ProtocolProofs` |
| `BleSerial`, `MCBleSerial` | `ble_serial.c` on the stream of the host's writes | `Protocol` |
| `BleSerialProofs` | theorems about `BleSerial` | `BleSerial`, `ProtocolProofs` |
| `FapApp`, `MCFapApp` | the application with its three threads | |
| `FapAppProofs` | theorems about `FapApp` | `FapApp` |
| `SocketServer` | the socket file under the starts, stops and crashes of several daemons, and the connections to it | |
| `SocketProofs` | theorems about `SocketServer` | `SocketServer` |
| `ConfigStore` | the configuration file: `load`, `PatternTable`, `pair`, `save_mac`, an editor | |
| `Host`, `MCHost` | the two composed: what starts or connects reads the configuration first | `ConfigStore`, `SocketServer` |
| `HostProofs` | theorems about `Host`: its socket, and its configuration | `Host`, `SocketProofs`, `Recursion` |
| `OpencodePlugin` | `opencode-flipper-indicator.js` with overlapping events | |

Each module that has properties keeps them at its end. Operators marked
"(Mutant: ...)" are not part of a specification: each is a plausible bug in the
operator that follows it, and shows that a property would notice it.

### The daemon

asyncio runs a coroutine without interruption between two suspensions, so one
action is what one task does between two awaits, and `phase` names the await
the BLE coroutine is in. `Pump` is one turn of `_pump_outgoing` up to its next
suspension: it waits, or starts the write of `NextFrame`, or meets a dead link
and retains the frame. `get()` on a nonempty queue and `put()` on one that was
just drained do not suspend, so `_forward_notifies` runs through a whole burst
in one step (`Forward`): only the last frame is left. A frame is the number of
its notification; agent, state and text do not matter to the control flow.
`received` (what the Flipper got last) and `lost` (what had been accepted when
a process last ended) exist in the model only, to say what was promised.
A write reaches the Flipper (`Deliver`) in a step of its own before the
response comes (`WriteOk`); a write may fail after it was delivered
(`WriteFails`), which is how a response is lost and a frame repeated.
`Stop` is a signal, up to the end of `run`; `Launch` is launchd or the user.
`failures` counts exactly as `run_forever` does: from the first connection of
the process on, and it is never reset.

### The codec and the label

`Protocol` writes out both implementations with their error paths;
`PyDecodable` and `CDecodable` are the absence of `ValueError` and of `-1`.
Text is a sequence of characters for Python, each the sequence of its UTF-8
bytes, and a sequence of bytes for C. `CommandLine` does the same for the line
between the CLI and the daemon. A line is a sequence of symbols, each the bytes
of a character or of a word `parse_line` knows (`agent=claude`, `text=`), so that a
label can contain such words without being long. `Received` is `readline`, then
`Decoded`, which makes U+FFFD of a character that is cut, then `parse_line` with
`Strip`, which takes off all that `str.isspace` accepts (`Blanks`). It is applied to
whole lines (`LabelArrives`) and to every beginning of one, which is what
`readline` returns when the client is killed: `Begun` cuts at any byte, inside a
word or a character as well (`PartialLineHarmless`). `fai_wrap` gives the first and
last byte of each line on the screen.

### The receiver

The host writes one frame at a time (`Write`); the link delivers it in pieces
of any size (`Arrive`), and may drop at any byte (`LinkDrop`); `Connect` makes
BtSrv and `fai_bt_status_cb` race for the callback, and `GuardTick` is the
200 ms timer. `got` holds the frames parsed since the current write began and
`torn` says that it began behind a rest of an earlier one or lost a piece;
both exist in the model only.

### The application

`pc` is the place of the application thread in its loop. The stretches in
between hold the UI mutex or touch nothing shared. `effects_apply` may block on
the notification service, and a dismissal is visible before its ACK is sent, so
these have a place of their own (`effects`, `ack`). `screen` is what the GUI
thread drew last; a key event remembers what the user saw (`seen`).

### The socket, the configuration and the host

A daemon process goes through `SocketServer.start` in the steps in which another
process can see or change the path: it looks whether something is there
(`Serve`), unlinks it (`Unlink`), asyncio removes a socket that is in the way
(`ClearPath`), binds and listens (`Bind`), then `chmod` follows (`Chmod`). Each of
the calls that can meet a path that changed meanwhile has its failing case in
`StartFails`. `Stop` is the signal that closes the server: the listening socket is
gone, and with it the connections in its backlog, but those that asyncio has
accepted (`Accept`) stay open, and `_handle` goes on for them while the daemon is
closing. From Python 3.13 on asyncio then removes the file when it is its own,
before it leaves it, so both outcomes are in the model. `UnlinkAtStop` is
`SocketServer.stop`, which runs when the Bluetooth session has ended; whether
`wait_closed` has waited for the connections before depends on the version of
Python, so the model lets the process end with and without them. `Crash` is
`os._exit` or a kill, which leaves the file. `file` says whose socket the path names;
a client connects to that daemon and keeps its connection whatever happens to
the file. A connection is open, has sent its line, has been closed without one,
or was cut by the daemon, and has been accepted or not.
`overlap` exists in the model only: it is set when a daemon starts while another
one is up, and reset when one starts alone.

`ConfigStore` keeps a document as the entries of the parsed dictionary, depth first:
settings and tables, also empty ones, each with the table it is in, its key and
the type of its value; values are not looked into. `Types` tells apart what the
code treats differently, such as a string of digits, which `int` accepts
character by character, or one with control characters. `Lines` are the lines
`save_mac` writes, and in which order: first the settings of the top level, then
the tables with a header each. `Read` is what tomllib makes of them. A value is
read back as its `WrittenType`, and one with control characters makes the file
invalid. Keys are written without quotes, so a key is read as the path `Reads` says:
itself when it is bare, two keys when it has a dot, none at all when it has a
space. A setting belongs to the last header above it (`Header`), so one that the
dictionary has below a sub-table moves into it. `InOrder` is the dictionary of
lines with bare keys, `Merged` that of lines with dotted ones, and `Duplicates` and
`Conflict` are the errors tomllib raises on each. `write_text` truncates before it
writes, so `Pair` and `PairWrites` are two steps, with `PairDies` between them.
`PatternsLoad` is the absence of an exception in `PatternTable`; `AgentNames` and
`StateNames` are keys in any spelling that `_parse_agent` and `_parse_state` accept.

`Host` lets a daemon start only when the configuration is `Startable`, and a
client connect only when it is `Loadable`; everything else leaves the other
component alone.

### The OpenCode plugin

`lastState` is set and the `notify` process started in one step (`SetState`); the
processes run side by side (`calls`) and each of them reaches the daemon
(`Accepted`) or not (`Missed`), in any order. `recent` is "idle fired less than two
seconds ago".

## Runs

| Run | Checks | Shows |
|---|---|---|
| `daemon` | `TypeOK`, `LatestHeld`, `IInv`, `RetryBounds`, `ClearsFollowAcks`, `WriteStartsWithNewest`, `ImplementsLatestWins`, `EventuallyDelivered`, `EventuallyCleared`, `ColdStartKeepsRetrying` | both paths through the daemon: order, the refinement, and that nothing gets stuck |
| `daemon_relaunch` | `ExitsOnlyAfterConsecutiveFailures` | **violated** |
| `daemon_link_loss` | `LinkLossNoticed` | **violated** |
| `codec` | `LabelArrives`, `PartialLineHarmless`, `NothingLostBetweenLines`, `WordsKeptWhole`, `StreamDecodable`, `DecodersAgree` | all labels up to five symbols, from the command line to the screen, and their lines cut at every byte; both decoders on all byte sequences up to ten bytes |
| `codec_chars` | `CharactersKeptWhole` | **violated** |
| `receiver` | `TypeOK`, `RoomLeft`, `StreamIntact` | parsing of a stream in pieces, with torn writes |
| `app` | `TypeOK`, `AppInv`, `ScreenFresh`, `DarkWhenIdle`, `AckedOnce`, `DisplayLatestWins`, `EventuallyShown` | all interleavings of the three threads |
| `app_unseen` | `DismissesWhatWasSeen` | **violated** |
| `host` | `SocketTypeOK`, `AloneReachable`, `ConnectedToLiving`, `PairTwice`, `StartsAlone`, `PairKeepsSettings`, `LineTaken` | two daemons and two clients on one path, while the configuration is edited and rewritten; pairing on documents with all types of values, settings below sub-tables and keys that need quotes |
| `socket_restart` | `ServingMeansUp` | **violated** |
| `config_pair` | `PairNeverBreaksDaemon` | **violated** |
| `opencode` | `DoneNotOverridden` | **violated** |

### Bounds

* `MaxNotify`, `MaxRx` of 2: a notification and the one that supersedes it, and
  two incoming frames, enough to reorder, drop or confuse; a third notification
  repeats these cases, and the theorems hold for all numbers.
* `BACKOFF_MAX` of 2 puts the cap right after a doubling (`daemon_relaunch` uses
  its own values); `FAILURES_BEFORE_RESTART` of 3 allows failures that are not the
  last.
* `MaxText` of 6 for the codec stands for 64. Five symbols of six kinds (a letter,
  a space, a line break, a letter of two bytes, the no-break space, a word
  `parse_line` knows) and two lines of three bytes exceed the frame and the screen,
  with a cut inside a character and words in the label. For the decoders the
  first byte is one of the tags or none, and the next three come from a set with
  agents and states in use, some beyond, and the text lengths 0, 1, 3, the limit, one more and 255; ten bytes hold the longest frame.
  The bytes of the text are all the same here, since both decoders only copy them.
* `MaxText` of 1 for the receiver gives a buffer of 10 bytes, two frames of the
  largest size as in the code; the frames chosen have agents, states and text
  whose bytes are tags, so that a rest can look like a frame.
* `FAI_QUEUE_LEN` of 2 stands for 8: a queue holds frames out of one another's
  sight, and is full. Two agents, one whose "done" leaves the LED lit and one
  whose does not; all four states; frames other than NOTIFY, which only a torn
  write can produce, included.
* Two daemons and two clients: one to hold the path and one to take it, one that
  is slow and one that waits. A third daemon would act on the path as one of the
  two does in another life. While processes run, the configuration is one the
  daemon starts with or one that pairing breaks, or missing or cut off (`HostConfigs`);
  the other documents come and go while nothing has been started (`MCSpec`), since
  the socket sees of a document only whether a start or a `notify` gets past it. They
  have every type of value, settings
  that stand below a sub-table with and without a namesake in it, empty tables, and
  keys with a dot and with a space at the top and inside, for settings and tables;
  every index `pair` may be given, in and out of range, is tried. An assumption of
  `MCHost` checks the reader of the model against itself: what it makes of the
  lines is a document again, and without dotted keys its two descriptions of tomllib
  agree.
* `MaxCalls` of 3 for the plugin: running, done and one more.

The runs that end without deadlock checking are those whose inputs end by
their bound (`codec`) or whose program may end (`app`).

### Fairness

* `Daemon!Fairness`: the loop runs a task that is ready; a call of bleak ends,
  because it has a timeout or because the link drops. Nobody need restart a
  process, send a notification, press a key or drop a link. `Reachable` is the
  environment's part: if a session can be opened again and again, one is.
* `FapApp!FairSpec`: the scheduler runs the application and the GUI thread and
  the notification service takes its messages. Keys and frames are not fair.
* `Host!Fairness`: a daemon that has begun to start or to stop goes on, and the
  loop accepts a connection and runs the task it makes for it. Clients, signals,
  the one-second limit and the user are not fair: `LineTaken` does not rely on a
  slow client ever sending, or on its being cut off.

### What the violations show

* `ExitsOnlyAfterConsecutiveFailures` (`ble.py:84`): `_session` never returns, so
  the lines that reset `backoff` and `failures_since_success` never run. Any
  three session ends after the first connection, days apart, end the process.
* `LinkLossNoticed` (`ble.py:139`): the link is looked at only when there is a
  frame to send. Until then the daemon sits on a dead link and no ACK arrives.
* `DismissesWhatWasSeen` (`flipper_agent_indicator.c:99`): the loop handles a
  frame before a key and the screen is drawn by another thread, so OK, pressed on
  the idle screen for instance, may dismiss a notification nobody has seen.
* `CharactersKeptWhole` (`protocol.py:61`): the cut at 64 bytes splits a character
  when it falls inside one. The test named
  `test_notify_unicode_truncation_does_not_corrupt_utf8` (`test_protocol.py:44`) takes
  a text with a boundary at byte 64, and `PLAN.md:80` speaks of 64 characters.
  `LabelArrives` shows that the frame around the text stays whole.
* `ServingMeansUp` (`socket_server.py:96`): `stop` unlinks whatever the path
  names. A daemon started while an older one is still closing its Bluetooth
  session loses its socket to it, serves on unreachably, and every hook is silent
  about it. `AloneReachable` and `StartsAlone` show that it takes two daemons, and
  no crash.
* `PairNeverBreaksDaemon` (`config.py:110`): lists come back as strings. After
  `pair` on the configuration of `README.md:119-134`, `led_rgb` is a string and
  `PatternTable` raises. `PairKeepsSettings` shows for which files that cannot be.
* `DoneNotOverridden` (`opencode-flipper-indicator.js:13`): the two-second guard
  is looked at when the busy event comes; a `notify` that is already under way may
  still overtake the one for "done".

One more statement of the repository does not hold, and needs no run to see: a full
`frame_queue` keeps the old frames and drops the newest (`ble_serial.c:75`, `FrameArrives`
in `FapApp`), so that after a burst an older one stays on the screen, against "By
design: single-event overwrite (latest wins)" (`README.md:163`) and "latest wins, no
queue" (`PLAN.md:133`). `DisplayLatestWins` shows only that the display never goes
back, and `EventuallyShown` speaks only of what found room.

Two things the models contain and no statement excludes: a write that begins behind
the rest of a torn one is not read well, and some rests put all later writes out of
step, since only `ble_serial_init`, `ble_serial_deinit` and a full buffer reset
`rx_len` (`ble_serial.c:101-122`); and what arrives while BtSrv has the callback is
lost (`ble_serial.c:32-43`). `StreamIntact` speaks of writes into an empty buffer
that lose no piece, and `RoomLeft` shows that the buffer at least never jams.

## Proofs

`DaemonProofs` proves for all values of the constants, from
`ClientAssumption` (delays and limits are positive naturals in order) and
`DaemonAssumption`:

| Theorem | States |
|---|---|
| `TypeCorrect` | `Spec => []TypeOK` |
| `Inductive` | `Spec => []IInv` |
| `NewestFrameHeld` | `Spec => []LatestHeld` |
| `NewestFirst` | `Spec => WriteStartsWithNewest` |
| `RetriesBounded` | `Spec => []RetryBounds` |
| `Implements` | `Spec => ImplementsLatestWins` |
| `ClearsInOrder` | `Spec => []ClearsFollowAcks` |

`LatestHeld` is not inductive: a frame that fails to be written is the newest
only because, when it left the queue, nothing newer existed, and anything newer
that has come since is in the queue again. `IInv` adds that. `QueueShape` ties
the end of the notify queue to the number last accepted, so that `Forwarded`
(the newest frame made) is a number; `WriteShape` says that a frame is in hand
exactly while it is written and never retained at the same time;
`PipelineOrder` orders what was lost, what was received, what is in hand or
retained (`Held`), what is queued, and `Forwarded`. `IInv` is preserved action
by action; a lemma covers the steps that move no frame (`FrozenStep`) and one
each the steps that do (`PumpStep`, `ForwardStep`, `WriteFailsStep`,
`DeliverStep`, `LaunchStep`). `NewestFirst` and `Implements` follow from `IInv`
by looking at the few actions that start a write or change `received`, `lost`
and `accepted`. `RetryBounds` is inductive together with `TypeOK`.

`ClearsFollowAcks` says where the ACKs are that the bridge has not been called
for: at increasing positions of the queue of incoming bytes. `Standing` names
these positions, and the proof moves them with the queue: an arrival adds the
last one or none (`FollowsArrival`), and when the first item is handled, it is
either at the first position, and its ACK is cleared, or an item nobody stands
for is dropped, and all positions go down by one (`FollowsHandling`).

`FapAppProofs`, from `FapAssumption` (the queues have slots, "off" is no agent):

| Theorem | States |
|---|---|
| `AppTypeCorrect` | `Spec => []TypeOK` |
| `ScreenStaysFresh` | `Spec => []ScreenFresh` |
| `StaysDark` | `Spec => []DarkWhenIdle` |
| `AppInductive` | `Spec => []AppInv` |
| `AckedAtMostOnce` | `Spec => []AckedOnce` |
| `DisplayImplements` | `Spec => DisplayLatestWins` |

`ScreenFresh` is inductive as it stands: each handler that changes `ui` leaves
`pc` in a place the invariant does not speak of until it has asked for a redraw.
`DarkWhenIdle` needs that `effects_apply` runs for a notification only. `AckedOnce`
is a matter of order: `AppInv` says that numbers increase along the queue, that
all of the queue is newer than what was handled last (`QueueInOrder`), that this
is what is current unless it was dismissed (`CurrentIsNewest`), and that dismissals
increase as well and are older than what is current (`AcksInOrder`). One lemma
each follows a frame in (`ArrivalOrder`), out of the queue (`TakeOrder`) and into
the dismissals (`DismissOrder`); the refinement of `LatestWins` then needs only
`QueueInOrder`.

`SocketProofs` and `HostProofs`, from `SocketAssumption` (a daemon is not called
"none" or "stale"), for any number of daemons and clients:

| Theorem | States |
|---|---|
| `SocketInductive` | `SocketSpec => []SocketInv` |
| `ReachableAlone` | `SocketSpec => []AloneReachable` |
| `ConnectionsLive` | `SocketSpec => []ConnectedToLiving` |
| `StartsWhenAlone` | `SocketSpec => StartsAlone` |
| `HostIsServer` | `Spec => SocketSpec` |
| `HostTypes` | `Spec => []SocketTypeOK` |
| `HostServes` | `Spec => [](AloneReachable /\ ConnectedToLiving) /\ StartsAlone` |

`AloneReachable` speaks of the end of a start only. `Alone` adds what a daemon that
is alone finds at each step before it: something to unlink after it has seen
something, a free path when it binds, its own socket from then on; and that it
is the only one up, so that nobody else can change this. `FileNamesListener` (the
path names only daemons that listen) is why a new connection goes to one that
listens; `ConnectedToLiving` then says that it waits in the backlog only while that
one still does, and is with the process that accepted it afterwards: `Stop` ends the
former, the end of the process the latter. `StartsAlone` follows, because each
failing case of `StartFails` contradicts `Alone`. `HostIsServer` carries all of it
over to the composition, for every set of documents and devices.

`HostProofs` goes on to the configuration, from `ConfigAssumption` (`flipper_mac` is
a bare key; a document a user writes that parses is a dictionary, so it has one
value for a name, and its address is no table; devices have addresses):

| Theorem | States |
|---|---|
| `PairingTwice` | `Spec => []PairTwice` |
| `PairingKeeps` | `Spec => PairKeepsSettings` |

Both speak of documents with bare keys, for the others are moved or broken by
the first pairing; `PairTwice` makes no demand on the values. `LinesPlaced`
describes what is written by the place each line comes from: the places of the
top level in their order, then those of the tables in theirs. For `PairTwice`,
what was read has the top level first, so it is written in the order it has
(`LinesAgain`), and it is read as it is (`InOrderAgain`): its types because
`WrittenType` is idempotent (`TypeAgain`), its tables because the headers are where
they were (`HeadersKept`). For `PairKeepsSettings`, a plain document stays plain
with the address in it (`PlainWithMac`), and in its lines each setting is still
below the header of its table (`SettledLines`), so that reading changes nothing
but the order (`PlainSaved`). What happens to dotted keys is model-checked only.

`Recursion` is about recursive definitions. The library's theorems about
recursion and induction take an operator, which the provers cannot instantiate,
so they are proved again in terms of sets and functions. A set of naturals has a
least member (`NatMin`, from the library's well-founded order); a property that
holds of an argument whenever it holds of all of smaller measure holds of all of
them (`MeasureInduction`); and when each value of a recursive definition depends
only on values at arguments of smaller measure, the function it defines exists
(`RecursionExists`), so that the `CHOOSE` a recursive function abbreviates
satisfies its equation. The proofs below, and those about `Those`, rest on it. So
what these recursive functions compute is proved for data of every size.

`BleSerialProofs`, from `ProtocolAssumption` (`MaxText \in 0..255`: the length is a
byte) and `BleSerialAssumption` (the host sends frames of `protocol.py`), for
every length of text, all frames, and pieces of any size:

| Theorem | States |
|---|---|
| `ParserEnds` | the loop of `fai_ble_try_parse` ends and satisfies its equation |
| `ReceiverTypeCorrect` | `Spec => []TypeOK` |
| `RoomAlwaysLeft` | `Spec => []RoomLeft` |
| `WritesArriveWhole` | `Spec => []StreamIntact` |

The measure of the parser is what is left in the buffer: a decoded frame takes a
byte at least. It ends with less than a full buffer on every sequence of bytes
(`Parsed`), by induction on the same measure, and that gives `RoomLeft`. For
`StreamIntact`, `ProtocolProofs` shows that of the bytes of a frame no shorter
beginning can be decoded (`NotifyWhole`, `ShortWhole`) and that the whole of them
gives the frame as the firmware holds it (`HostFrame`): the pieces that came so
far, before what is still in the air, are such a beginning (`PieceArrives`).

`CodecProofs` proves the properties of the `codec` run without its bounds, from
`LabelAssumption` (a symbol has all the bytes its first one announces, or is a word;
a line and the screen have room) and `MCCodecAssumption` (what arrives are bytes):

| Theorem | States |
|---|---|
| `FramesInStream` | `Spec => []StreamDecodable` |
| `DecodersAlike` | `Spec => []DecodersAgree` |
| `CutLineHarmless` | `Spec => []PartialLineHarmless` |
| `EveryLabelArrives` | `Spec => []LabelArrives` |
| `OnlySpacesLeftOut` | `Spec => []NothingLostBetweenLines` |
| `WordsBrokenAtLast` | `Spec => []WordsKeptWhole` |

The state is the label or the buffer, and all that the invariant needs of it is
its type; the rest is about the operators. For the decoders the cases are those
of the tag (`ByTag`, `PyByTag`). For the line, decoding does not touch line breaks,
so it makes no difference that `readline` comes first (`ReadDecoded`), and `LineRead` finds
what it returns: the symbols up to the first line break (`FirstLine`). `StripEnd`
takes the blanks off its end; `ParsedCut` shows that what is then left of the words of
`notify` either lacks one of the two that must be there, and is an error, or
names agent, state and all of the label that is left, even if that has words of
the same kinds in it, since "text=" comes before them. A killed client cuts the line
after a symbol (`CutAfterSymbol`), inside a word of the line, whose beginning is no
word (`CutWord`, `CutInWord`), or inside a character of the label, which is then
U+FFFD (`CutInLabel`). A whole line gives the one part of the label that `OneLine`
describes (`OneFirstPart`, `OneLineIs`). For the screen, `Kept` and `Unbroken` are the two
properties of lines that begin at some byte, and `WrapKeeps` proves them by
induction on the number of lines left: `FullLine` is the step.

Only model-checked are the liveness properties (`EventuallyDelivered`,
`EventuallyCleared`, `ColdStartKeepsRetrying`, `EventuallyShown`, `LineTaken`), since TLAPS
knows neither fairness nor `ENABLED`, and of course what is violated. All
invariants and step properties of the passing runs are theorems.

## Not modelled

* What `PatternTable.get` returns: it is only logged, the firmware chooses its own
  effects. Which overrides make its constructor raise is in `ConfigStore`.
* Logging, drawing, the backlight and vibration, which leave no state; the order
  in which `pair` lists devices and the wording of what the CLI prints.
* The artwork generator and the installation scripts, which run once and keep no
  state, except launchd's restart policy (`Daemon!Launch`).
* The hooks of Claude Code and Codex, which map an event to one call of the CLI.
  Two of them run for one `UserPromptSubmit`, off and running, perhaps side by side:
  two calls in flight, as in `OpencodePlugin`.
* A socket path that differs between configurations, or with `XDG_RUNTIME_DIR`:
  such daemons do not meet.
* The 64 KiB limit of `readline`, far above what a hook sends; a `--text` that is no
  UTF-8, which raises in `encode` before anything is sent.
* Keys of the configuration with "=", "#", brackets or line breaks, which `save_mac`
  may write as another line, and an address that is a table.
* The scripts `TmuxBridge.clear` starts run when the operating system likes; an
  ACK that `ble_serial_send` loses is lost without a trace in either program.

## Plan

Done, by importance: `LatestWins`, `FlipperClient`, `Daemon` with its proofs,
`Protocol`, `CommandLine`, `Label` and `BleSerial` with their proofs, `FapApp` with
its proofs, `SocketServer` with its proofs, `ConfigStore` and `Host` with their
proofs, `OpencodePlugin`. What could follow:

1. `AgentSystem`: hooks, daemon, link, application, ACK and tmux composed over
   abstractions of the modules here (`LatestWins` for each hop): an ACK lost
   silently, a notification redelivered after it was dismissed, an ACK that
   clears what a newer hook has set.
2. The plugin composed with `SocketServer`, so that a call is missed for a reason.
3. That `fai_wrap` fills each line as far as it can: its lines are only shown to
   fit and to lose nothing.
