# easy-debugger: specifications, model checks and proofs

easy-debugger is a desktop and mobile tool for talking to TCP, WebSocket and UDP
peers. A Rust program (Tauri) keeps the configurations and runs the sessions; a
Vue interface in a webview calls it and shows what its events say. This
directory holds TLA+ modules of the parts where order matters, the TLC
configurations that check them, and TLAPS proofs. Paths below are relative to
`src/src-tauri/src/` unless they start with `src/`.

## 1. The system

| Component | State | Operations | Modelled in |
|---|---|---|---|
| Session trait, `Ctx` (`session/mod.rs`, `events.rs`) | cancellation token; what the events have told the interface | start, stop, online, offline | `SessionLifecycle` (the promise) |
| TCP client, WebSocket client (`session/tcp_client.rs`, `ws_client.rs`) | `State.online`, `State.reconnecting`, the attempt counter, the connection | start, connect, serve, reconnect loop, stop | `ClientSession`, `ClientRestart` |
| Outbound queue, auto-reply, timed send of a client (`session/mod.rs` 113-170, `run_connection`) | one unbounded queue per session, one task per delayed answer, one timer per connection | send, inbound, tick, write, flush | `ClientTraffic` |
| TCP server, WebSocket server (`session/tcp_server.rs`, `ws_server.rs`) | `ServerState` (online, peers by address, order), one handler and one queue per connection | start, accept, handshake, serve, route, kick, stop | `ServerSession`, `ServerTraffic` |
| Manager and commands (`session/mod.rs` 208-254, `commands.rs`) | map uid -> session | start, stop, stop_all, delete, save | `SessionManager` |
| Stream framing (`framing.rs`, the timer in `run_connection`) | the bytes held back, the timer | feed, flush | `Framer` |
| UDP session (`session/udp.rs`) | online, peers seen | start, receive, stop (sending is not modelled) | `Udp` |
| Configuration store (`config.rs` 280-408) | three lists in memory, three JSON files | save, delete, reorder, open | `Store`, with the manager |
| Payloads and encodings (`codec.rs`) | a sequence counter | parse_hex, encode, decode, unescape, checksum, build_payload (templates are not modelled) | `Codec` |
| Auto-reply rules, the check of a configuration (`evaluate_auto_reply`, `validate` in `commands.rs`) | none | validate, evaluate | `AutoReply`; with `Codec` and `Framer` in `Exchange` |
| Interface stores (`src/src/stores/sessions.ts`, `src/src/App.vue`) | `Runtime` per uid, what is selected | handle(event), sync, select, selectPeer, the page's start | `Webview`; what the life-cycle events do also in `ClientSession` and `ServerSession` |
| DNS, interfaces, port checks (`dns.rs`, `net.rs`) | none | queries | not modelled |
| Views, layouts, settings, snippets, translations, build | form fields | rendering | not modelled |

How they interact. The webview calls commands, which run concurrently; a command
finds a session through the manager's map (one mutex) and calls it directly.
`start` awaits the first connect or the bind and then leaves a background task
behind. A session's task and `stop()` share one mutex-guarded state and a
cancellation token. Everything the interface knows arrives as events, emitted by
tasks and by `stop()` through one ordered channel, and handled one at a time.
There is one queue from a client session's writers to the connection that is open.

What is hard about it:

* `stop()` at any moment of a task: between a connect and its Online, between a
  drop and its Offline, in a reconnect sleep, during a write that blocks.
* Events emitted inside a critical section or after it: what the interface ends
  up showing depends on which.
* Commands that await in the middle: the map may change before they go on.
* One session replacing another under the same uid while the first winds down.
* Peers known by address only, while connections come and go.
* A queue, timers and delayed answers that outlive the connection they were made
  for.
* An interface that learns of the same session on two ways, events and answers
  to `sync()`, with no order between them.
* A list that is changed in memory first and then in a file, and a write may fail.
* Streams cut anywhere, framing settings at their edges, and a timer that every
  turn of a loop starts anew.
* One message seen by five pieces of code that have to agree: what encodes it, what
  ends and sums it, what cuts it out of the stream, what shows it, what a rule
  compares it with.

What makes each component correct:

* a client session: the interface agrees with the session, a stop is final and
  ends the task, a lost connection is retried, giving up leaves the interface
  idle;
* two sessions of one uid: never both online, and neither spoils what the
  interface shows of the other;
* the traffic of a client: in order, once, with a bounded loss, and no task left
  behind;
* a server: the limit holds, every connection that is served can be found under
  its address, the interface shows the peers listed, handshakes, kicks and stops
  come to an end;
* the traffic of a server: each connection gets what was meant for it, in order
  and for as long as it lasts, and a message to one or to all reaches whom it is for;
* a message: what is typed is what is shown and what rules decide on, a checksum
  verifies, and a configuration that was accepted works;
* the manager: what runs is in the map, one session per configuration, none for
  a deleted one;
* the store: what a call has answered survives a failing write or a crash, for as
  long as the file can be read;
* the interface: when everything is handled it shows what the session told, and
  what is in view is read;
* the framer: nothing lost, and frames that do not depend on how the stream was
  cut, or in timeout mode on anything but silence.

`PROJECT.json` lists the hazards line by line with the properties that watch
them.

## 2. The modules

**SessionLifecycle** is the abstract promise every transport makes, over three
values: whether the session says it is usable, whether the interface shows it
online, whether it has been stopped. It opens only while not stopped, is
announced only while open, may close and reopen, and once stopped ends closed and
concealed (`StopTakesEffect`). `ClientSession`, `ServerSession` and `Udp` implement it.

**ClientSession** is `TcpClient` and `WsClient`; the life cycles of the two files
are the same text up to the stream type. `pc` is where the background task is, one
value per stretch between two awaits or critical sections, so every action is what
the code does without giving another thread a chance to be seen. `Publish` is the
critical section of `serve` that looks at the token, sets the flag and emits Online;
`Cleanup` is the one that clears it and emits Offline; `Announce` is the emission of
Reconnecting, which is in none. `stop()` is two actions, as in the code: the token
first, then the critical section. `uiOnline` and `uiRound` are the `Runtime` fields
after `handle()` has seen every event emitted so far. A connection is open, in a
blocking write, or over; bytes are left to other modules.

**ClientRestart** composes two instances of `ClientSession` that share the
interface's entry, as `Manager::start` makes them: the second is created when
`stop()` of the first has returned (or the first failed to start), while the
first one's task may still be anywhere.

**ClientTraffic** is what a client writes: `send()` (the look at `online` and the
queueing are two steps), answers of rules after their delay, one timed-send task
per connection, and the connection that drains the queue. `accepted` and
`written` are history variables, from which order, duplication and loss are
read. Which rule matches is an input.

**ServerSession** is `TcpServer` and `WsServer`: the accept task with its two
critical sections (counting, adding), a handler per connection, `stop()` in its
three steps, `kick()`. Connections are told apart from addresses, because the
code keeps peers by address: `listed` maps an address to the connection behind
it. With `Handshake` a connection passes through the WebSocket handshake first.
`reused` is a history variable: the addresses from which a client came back
while the handler of its previous, reset connection was not over.

**ServerTraffic** extends `ServerSession` with what the server sends. `send()` is
one step under the lock (`Route`): to the peer listed under an address or to all,
with the result the caller gets; the answer to a message goes after its delay into
the queue of the connection the message came by (`origin`, a history variable),
never through the list. A handler takes an item, writes it, and is polled for
nothing else meanwhile; when it ends its queue goes with it (`Gone`). Accepting is
one action here (`Arrive`), since nothing can be queued for a connection before it
is listed, and `Leave` stands for all that ends a loop.

**SessionManager** is the map, and each command that touches it as a sequence of
critical sections with the awaits in between. `contended` is a history variable:
the configurations for which a start has overlapped another command. The sidebar
and the mobile layout start and stop without waiting for the previous call
(`src/src/components/ConfigSidebar.vue:82`), so overlapping is something users do.

Its `Restart` is the end of the program at any point and a new one
that opens the store. **MCSessionManager** declares configurations and calls
interchangeable.

**Store** is the list of configurations as a set, in memory and in the file
(`disk` is what `load_json` would read). Each call changes the memory, then writes;
the write may fail and the call answers so. `promised` is a history variable:
what has become of what the last call about a configuration answered. The temporary
file is never read, so a crash in the middle of a write leaves the old file
(`AfterCrash`). A start that cannot read or parse the file takes it for empty
(`LoadJsonFails`); the file itself stays until the next change is written.
`SessionManager` extends this module: its saves and deletes are the store's.

**Udp** is the receiving half of a UDP session, with the events it emits in a
queue. **Webview** is the interface at the other end of that queue: it handles
events later, calls `sync()` on selection and at the page's start, is answered at
any time, and may be reloaded. `fresh` and `misled` are history variables that
tell when an answer was stale: `session_status` is answered outside the order of
the events, and a session is told online before it is in the map. The session is a
UDP one because its peers only grow; the rest of `Webview` does not depend on it.

**Framer** is `feed` in its five modes, one action per turn of its loop, `flush`,
the end of a connection, and timeout mode's timer in the loop that owns it: `Tick`
is a millisecond, and every turn of the loop (bytes, a message that goes out) begins
the sleep again, as `select!` does with a future made anew. The length of a frame is
a `usize` and wraps (`UsizeValues`). `ByteBase` is the number of values of a byte, 256
in the program and 4 in the run, so that four-digit lengths that wrap stay small.
**MCFramer** lists the settings TLC uses.

**Codec** is `codec.rs` as operators. A text is a sequence of code points, a result
that may be an error a set of at most one. The registers of the CRCs are sets of
bits, and the two passes over base64 digits are arithmetic. What the crates do
(encoding_rs with its byte order marks, base64, crc) is modelled as far as this
code can see it and marked external. **AutoReply** is `validate` and
`evaluate_auto_reply` on top of it; what a regular expression means is a parameter
(`ValidRegex`, `IsMatch`), which the run gives literals with the anchors ^ and $ as a
value and the proofs leave open. **Exchange** is the journey of messages: `Send` is
`send_message`, `Deliver` gives the receiver's framer any piece of what is on its way
(`INSTANCE Framer` with real bytes), `Cut` is a turn of the framer, `Handle` is what
`inbound` does with a frame: it is shown and the rules plan an answer. The receiver's
configuration is one that passed `Validate`. **MCExchange** lists the
requests and configurations, and assumes of the operators what the tests of
`codec.rs` and the published check values say (`CodecVectors`), which TLC
evaluates.

Small variants of actions, in a section of their own in each module ("what small
mistakes would do"), stand for plausible bugs; replacing an action by its variant
makes the property that watches it fail. They are in no next-state relation.

## 3. What is checked

Every run is module + configuration file; `tlc -config X.cfg M` repeats it.

| Run | Question | Bounds |
|---|---|---|
| `ClientSession_retry` | agreement, finality of stop, giving up, limits, retrying, termination, the life cycle implemented | `ReconnectMax` 2, `AttemptCap` 4 |
| `ClientRestart_replace` | two sessions of one uid, one replacing the other, with a retry limit | limit 1, attempts up to 2 |
| `ClientTraffic_queue` | order, loss, disconnect rules, timers, stop | 2 connections, 3 messages |
| `ServerSession_peers` | list, limit, interface, handshakes, kicks, stop, the life cycle implemented | 2 connections, 2 addresses, limit 1 |
| `ServerTraffic_queues` | who gets what, in which order, whom `send()` meets, queues that drain | 2 connections, 2 addresses, 1 message, 1 answer |
| `SessionManager_commands` | the map under overlapping commands, failing writes, restarts of the program and a file that cannot be read; the store's promises | 2 configurations, 2 commands in flight, 3 sessions, with symmetry (only invariants are checked) |
| `Webview_sync` | what the interface ends up showing, the UDP life cycle implemented | 2 addresses, 2 datagrams, 1 call of sync() in flight, 1 reload |
| `Framer_modes` | all modes, all cuts, the timer, the width of usize | streams of 6 bytes over {0, 3} of four values, `UsizeBytes` 4, 2 messages out |
| `Exchange_messages` | what is shown, heard by rules and verified of what is sent; accepted configurations | 2 messages of 21 requests, 13 configurations of which 6 are accepted, every cut |

and three runs in which TLC finds what the code does against what its comments or
tests say (section 6).

Why the bounds are enough. A client's attempt counter is compared with the limit
only: 2 rounds show the first, the last and the one that is too many, and 4 leaves
room above the limit; the proofs remove the bound. Two sessions are all that can
share an entry, since a third starts only after the second is stopped, which puts
it in the place of the first. Two connections show a queue that crosses one
reconnect, and three messages one written, one lost and one waiting. Two
connections and a limit of one make the limit, the rejected peer, the reused
address and the freed slot happen. Two commands are the smallest overlap and
three sessions are a restart beside another configuration. One sync() is enough to
be overtaken by an event, two datagrams to come from a known and from a new
peer; two calls in flight have been checked too (1.6 million states, 4 minutes) and
show nothing else. Six bytes hold three
frames of two bytes, or a two-byte header, its payload and the start of the next;
bytes 0 and 3 of four values make lengths that are empty, too short for their
header, exact, not yet complete, and, in four digits, so near the end of a 32-bit
usize that adding the header wraps. One message and one answer over two
connections that may share an address show a queue that outlives its peer and an
answer that meets another one; order is between the two (three items have been
checked with one connection). Two messages show a line after a line in one piece,
and each alone in two.

Deadlock is checked in every run but `ServerTraffic_queues`, which ends when its
clients, messages and answers are used up: elsewhere a system that may stop says where (`Terminated`).

Fairness, where liveness is checked, and why the code gives it:

* a task that is ready is polled (the Tokio runtime), so a task's steps are
  weakly fair; timers elapse and connects have a timeout;
* `select!` polls its branches in random order, so a branch that is ready again
  and again is taken: strong fairness on seeing the token, which other branches
  may beat any finite number of times;
* a write ends. This holds while the peer reads or the connection breaks; a peer
  that does neither blocks the select arm, and with it cancellation, for as long
  as it likes. It is an assumption about peers and the liveness results rest on
  it;
* `feed` runs to its end, and a timer that is due fires once nothing else keeps the
  loop busy: messages that go out for ever may put it off for ever, so the run
  bounds them (`MaxOut`);
* the webview handles its events, loads a page and answers calls; the timing is
  left open;
* `stop()`, once called, runs to its end. Nobody is assumed to call it, and no
  connection is assumed to succeed or to drop.

## 4. What is proved

Eight modules hold theorems, and every proof is checked by TLAPS for all values of
the constants that the named assumptions allow. The runs above check the same
formulas on small instances.

| Module | About | Theorems that state a property of a run |
|---|---|---|
| `Client_proofs` | `ClientSession`, `ClientRestart` | `TypeCorrect`, `UiAgreement`, `StopIsFinal`, `RetryLimit`, `Refinement`, `Replaced`; two action properties: `NeverOnlineAfterCancel`, `RoundsCount` |
| `ClientTraffic_proofs` | `ClientTraffic` | `QueueKeepsOrder`, `LossIsBounded` |
| `Server_proofs` | `ServerSession`, `ServerTraffic` | `LimitHolds`, `ListIsTrue`, `UiIsTrue`, `Refinement`, `QueuesKeepOrder`, `SendIsMet` (an action property) |
| `SessionManager_proofs` | `SessionManager`, `Store` | `TypeCorrect`, `MapSoundness`, `NoneOutOfReach`, `OneAtATime`, `DeletedRunsNothing`, `Durable` |
| `Webview_proofs` | `Webview`, `Udp` | `SettlesOnTruth`, `ReadsWhatIsSeen`, `Refinement` |
| `Framer_proofs` | `Framer` | `KeepsEveryByte`, `SplitsByRule`, `CutsInSilence` (an action property) |
| `Exchange_proofs` | `Codec`, `AutoReply`, `Exchange` | `EachIsShownAsSent`, `EachLineIsHeard`, `EveryChecksumVerifies`, `ConfigWorks` |
| `SequenceLemmas` | sequences, `FlattenSeq`, `FoldLeft` | none: what the others need |

Each has `TypeCorrect` for its type invariant and `Inductive` for the invariant that
carries the rest; where a module is about two components the second has names of its
own (`TrafficInductive`), and in `Exchange_proofs` they are `ExchangeTyped` and
`ExchangeInductive`. Every safety property the passing runs check, invariant or action
property, is stated by one of these theorems.

The assumptions are those the modules name: bounds and counters are numbers; `None`
is none of the values it stands beside; the limit of rounds is below the bound on
attempts (`ClientAssumption`); the commands of the manager are finitely many, so that
those under way can be counted (`ManagerAssumption`); messages are not answers
(`TrafficAssumption`); the settings of a framer have the types of the form's fields,
whatever their values, and a `usize` has four bytes or eight
(`FramerAssumption`); requests and configurations have the types of their structs
(`ExchangeAssumption`): an enum is one of its variants, an encoding one of the five
that are modelled, and a `String` is a sequence of code points without halves of
surrogate pairs (`IsText`), which Rust guarantees and serde checks when a command is
called or the store is read. Nothing else is assumed: connections, addresses,
configurations, calls in flight, bytes, texts and messages are any sets or values of
their type, of any length, and the limits and bounds any numbers.

But for `AcknowledgedSurvives` no property is inductive as it stands. What each
invariant adds, and why:

* **ClientSession**. `StoppedStaysOffline` says nothing of the moment before `stop()`
  returns, and `RetriesEnd` speaks of the rounds shown and of a task that is over.
  `IInv` ties the task's place to the flags: a connection is served only by a session
  that is online or has been taken over by `stop()`; outside that stretch the flag is
  down; the token is cancelled exactly when `stop` has left its first state; and until
  then the round under way is the round shown, or the next one in the stretch before
  it is announced.
* **ClientRestart**. When the second session exists the first has been stopped or has
  failed, for good (`Handover`), and then it cannot publish: so what the interface
  shows is the second one's doing, but for the last Offline of a first session that
  is giving up (`ShowsOne`).
* **ClientTraffic**. Order rests on the queue being sorted and newer than all that was
  written (`Ordered`). The loss is counted as it happens: a write moves the head of the
  queue to the wire or loses it, and a connection that loses one is over with it
  (`OpenIsCounted`).
* **ServerSession**. The limit is looked at in one critical section and used in
  another: it holds because the accept task holds one connection at a time
  (`HoldsCurrent`), and only removals may come between (`RoomForAdmitted`). The list
  agrees with the connections because an address that was not reused stands for one
  connection (`OneConnection`), a connection is listed from being told until its
  handler has marked it (`LivesListed`, `ListedLives`).
* **ServerTraffic**. What was written, is being written and waits is, in this order,
  all that the channel took (`LineIsWhole`), for as long as the handler lasts; after
  that what was written stays a prefix (`WrittenFirst`). An answer that waits for its
  delay carries its connection with it (`DueIsAnswer`, `AnswersStay`). `SendMeetsPeers`
  needs the table over here as well: a connection that is served from an address that
  was not reused is the one listed there and is up (`ServedListed`), whatever is up and
  listed is served or leaving (`ListedServe`), and an address has one connection that
  is not over (`OneConnection`).
* **SessionManager**. What a command has in its hands at each of its steps (`Steps`)
  and what the map may hold (`HeldIsOwned`, `NewIsPrivate`, `MapIsSound`) are true
  of all configurations. Where no start has overlapped another command
  (`Uncontended`) a start is alone (`Alone`), what it found in the map is still
  there (`StartKnowsMap`), every session that runs is in the map or in the hands of
  the command that is about to put it there or to stop it (`Reachable`), and a
  configuration that is gone has left the map (`GoneIsUnmapped`).
  `AcknowledgedSurvives` needs the types only: each change of the store keeps it
  (`ChangeAcknowledged`). `Bounded` shows that the bound on sessions never cuts a
  start short.
* **Webview**. `SettledAgrees` speaks of a moment when nothing is under way; the
  invariant says of every moment what is. Whatever shows a session online is backed by
  the session or by an Offline on its way (`ShownOnline`, `FreshOnline`); whatever is
  not shown of a session that runs, Online and each peer, is on its way as an event or
  in an answer that is fresh (`ShownComplete`, `FreshComplete`); Online is the first
  event and comes before the peers (`News`, `NoneBeforeOnline`); and a page that loads
  is blank and has asked nothing (`LoadingIsBlank`).
* **Framer**. `SplitByRule` is proved in a form that states the rules of any setting
  and any bytes (`Rules`, equivalent by `RulesSplit`), so that what a turn of the
  loop cuts off and what it leaves can be compared; `NothingLost` needs that a mode
  which cuts nothing holds nothing (`WholeHoldsNothing`); silence is never shorter
  than the sleep (`TimerBehind`).
* **Exchange**. What was sent is, byte by byte and in order, what the framer was fed
  and what is on the wire (`Stream`); each frame that was handled was answered by what
  the rules say of it, and by no rule of another time (`Answered`); a frame that is no
  whole one is the last and was made at the end (`RestIsRest`); and nothing is cut
  before anything is fed (`NothingFromNothing`). The framer's own invariant comes from
  `Framer_proofs`, instantiated with the configurations of the receiver (`SameFramer`
  shows that both mean the same steps).

The proofs take one lemma per part of the invariant, and in it one step per action or
group of actions that can disturb the part in the same way. Types come first, flags
apart from places and counters, since they need different provers. A refinement is a
lemma that maps each step to one of the life cycle or to a stutter: for a client,
`Publish` is Open with its announcement, `Cleanup` and `StopLocked` are Close,
`GiveUpEmit` is Conceal, `StopCancel` is Cancel; for a server, `Bind` opens and
`StartReturns` announces; for a UDP session `Started` does both, `StopLocked` closes
and `StopTells` conceals.

Data. The library's induction theorems take an operator as a parameter, which the
provers cannot instantiate. `SequenceLemmas` argues by the least counterexample
instead: it shows that the recursive functions behind `FlattenSeq` and `FoldLeft` exist
(a least length without one could be extended from the one before), that they agree
with the operators, and then what a step adds. That is enough for `NothingLost`, and
for the bound on a length field that `SplitByRule` needs.

`Exchange_proofs` says in the same way what the parsers and encoders of `codec.rs`
compute. A loop over bytes or characters is a fold of a table, `Fold(T, start, s)`: it
has a value after each element (`FoldRuns`), and an element more is one step more
(`FoldAppend`). A reading that is defined from the end of its input exists
(`DecoderExists`) and is the only one (`OneReading`). On that rest:

* `AcceptedConfigWorks`. What `validate` parses when a configuration is saved is what
  `Framer::new` and `render` parse when it runs, and each parser yields one result at
  most, whatever the text (`ParseHex`, `FromBase64`, `Unescape` are typed for all).
* `ChecksumVerifies`. Exclusive or is argued bit by bit. A shift of a CRC register is
  linear in it (`ShiftLinear`), so a register that is fed its own bytes, low byte
  first, ends at zero whatever the polynomial, and with the final xor at a constant of
  the CRC. The sum and the exclusive or of all bytes are folds that an append extends.
* `RulesHearEachLine`. A frame has the delimiter at its end and nowhere before, and so
  has each line that is sent. Two ways to cut the same bytes into such pieces agree on
  the first piece, on the next (`OneFrame`, `NextSame`), and on all: the frames are
  the payloads, however TCP cut the stream. Each payload reads as its text and line
  ending, and a rule that is no regular expression and whose pattern has no line end
  decides on the line as on the text (`HitInLine`). Nothing is assumed of regular
  expressions: they decide on the line.
* `ShownAsSent`. Each encoding reads back what it writes: in UTF-16 a pair of units is
  never taken apart (`SamePieces`); in UTF-8 the first byte of a character says how
  many follow, so the decoder, which is defined from the end of the bytes, reads
  character by character from their beginning (`Utf8Back`), and text that begins with
  no byte order mark is sniffed as UTF-8. A loop that reads hexadecimal has read, after
  each byte written, that byte's two digits (`PairRead`). A group of base64 is a number
  of twenty-four bits; its digits put it together again (`TrioDigits`), and where a
  byte is missing its bits are zero, so the padding is in order (`Base64Back`).

Model-checked only:

* liveness, for fairness and ENABLED are out of the prover's reach: `StopEndsTask` and
  `LossIsRetried` of a client, `DisconnectActs`, `TimersEnd` and `StopEndsAll` of its
  traffic, `SlotsComeBack` and `StopEndsAll` of a server, `QueuesDrain`, `StopIsShown`,
  `FeedReturns`;
* the three properties that TLC finds violated (section 6).

## 5. The plan

Done: the life cycle, the client session and the restart, the client's queue, the
server and its queues, the manager with the store, the UDP session with the interface,
the framer with its timer, the codec and the rules composed with the framer; and the
proofs of every safety property of all of these. Next: what a UDP session sends, and to
whom; templates and the counter behind `{{seq}}`.

## 6. Where the code and its comments part

* `session/tcp_client.rs:154`: a stop between the end of the reconnect sleep and
  the event leaves a stopped session shown as reconnecting
  (`ClientSession_stop_race`; `session/tests.rs:275`). `ws_client.rs` has the same
  statement.
* `session/mod.rs:237`: a session that is connecting is in no map, and insertion
  overwrites: of two starts of one configuration that overlap both leave a running
  session, and the one inserted first is out of reach (`SessionManager_orphan`;
  comment at line 208). One start alone does not: a stop or a delete while it connects
  finds nothing and has no effect, but the session is in the map afterwards.
* `session/tcp_client.rs:90`: a disconnect that was queued for one connection
  closes the next (`ClientTraffic_stale_close`; `session/mod.rs:30`).

What the models show beside these, without a run of its own:

* `session/tcp_client.rs:144`: the Offline of exhausted retries is emitted after
  the lock is released and without a look at the token, so it may hide the session
  that has replaced this one (the comment at line 124 says the notification is
  decided and emitted under one lock). `ReplacementIsShown` names the case
  (`GaveUp`); without it TLC finds it in the same run.
* `session/tcp_server.rs:120`: a handler that ends marks its address offline even if a
  newer connection is listed there, which is served and which neither a message to all
  nor one to its address reaches (line 25 of `session/mod.rs` speaks of all online
  peers). `ListReflectsPeers`, `UiShowsPeers` and `SendMeetsPeers` except the addresses
  concerned (`reused`); without it TLC finds the case in the same runs.
* `session/tcp_server.rs:58`: a message that comes while a handler leaves, before it
  has marked its address offline, is queued for nobody and reported as sent.
  `SendMeetsPeers` says that no other connection but one that is served takes a message.
* `config.rs:290`: a sessions file that cannot be read or parsed is taken for an empty
  list (a parse error is logged), and the next save writes the new list over it.
  `AcknowledgedSurvives` says when that happens: what was kept is in the file until
  then (`unread`) and nowhere afterwards (`lost`).
* `session/mod.rs:190`: a regular expression is searched in the message with its line
  end, where an exact rule trims it: `^a$` hits an `a` that comes without one and not
  the line that a receiver splitting by lines hears. `RulesHearEachLine` has regular
  expressions decide on the line and the other rules on the text.
* An accepted configuration may still hold what cannot be sent: base64 and JSON are
  not looked at by `validate`, and the default reply is not either; a rule that is
  hit and cannot be rendered silences the rules after it and the default
  (`session/mod.rs:199`). Hexadecimal that consists of commas is valid and empty, so
  such a rule or timer queues a message without bytes. `AcceptedConfigWorks` is
  limited to text and hexadecimal.
* The checksum comes after the line ending (`codec.rs:290`), so with a receiver that
  splits by lines it belongs to the next line. `RulesHearEachLine` speaks of lines
  without one.
* An exact rule trims carriage returns and line feeds only: with NUL or any other
  delimiter it never matches a framed message. The line endings are one byte each
  in UTF-16, too, where a receiver reads half a character.
* Text in UTF-8 that begins with a byte order mark is shown without it, and bytes
  that begin with the mark of UTF-16 are read as UTF-16 (encoding_rs sniffs).
* A length that wraps in a 32-bit `usize` counts as corrupt or as a short frame
  (`framing.rs:74`); in a build with overflow checks it would stop the program.
* A rule that disconnects has no effect but an empty datagram in a UDP session
  (`udp.rs:102`).
* `preview_payload` expands templates, and so takes numbers out of the sequence
  that `{{seq}}` counts (`codec.rs:211`).

And one about order: a peer accepted while a server is
being stopped is shown online afterwards (`tcp_server.rs:158`), since the handlers
of a stopped session tell nothing. The same holds for a peer of a UDP session
(`udp.rs:89`). And an answer of `sync()` that was read before a stop and comes after
its Offline shows the stopped session online until the next event
(`sessions.ts:116`); `Webview` names these cases instead (`misled`).

## 7. What is left out

Templates, JSON, the GBK family of encodings and hexdump: formatting or the business
of a library, as is what a regular expression matches (a parameter). Ping, Pong and
Close frames of WebSocket, the choice between its text and binary frames, TLS and
request headers; what a UDP session sends; socket options; the texts of events;
message history and counters of the interface; the value of `since`. Order and
contents of configurations; snippets and settings, which the store keeps by the same
code; the checks the form makes before it calls `save_session`. The rollover of the
attempt counter after 2^32 rounds is not reachable in practice. DNS and network
tools keep no state. Offset plus size of a length field are added without a bound
(`Header`): the code's sum could only wrap for an offset near 2^32 in a 32-bit
build. A crash is the end of the program: what a file system keeps of a write when
the power fails is not modelled.
