# Acrylius in TLA+

Acrylius links a Linux computer and an iPhone: two devices pair by comparing six
digits, then keep encrypted sessions over whatever transport reaches the other
(TCP, USB tunnel, Bluetooth LE), and plugins on top share files, the clipboard,
media control and so on. A sans-I/O core in Rust (`src/crates/acrylius-core`)
takes one event at a time and returns a list of actions; two hosts carry them
out, the daemon (`acrylius-rt`, `acrylius-linux`, `acryliusd`) and the phone
(`ios/`, through `acrylius-ffi`).

This directory models that system, checks it with TLC on small instances and
proves its main properties with TLAPS for every instance. Run a model from this
directory with `tlc -config MCPairing.cfg Pairing`, check proofs with
`tlapm PairingProofs.tla`. `PROJECT.json` ties every definition to the lines it
models, every property to a deliberate slip that breaks it, and lists the
hazards the properties are for.

## The system

| Part | State | Operations | Talks to |
|---|---|---|---|
| Core, pairing slot (`core.rs`) | `pairing`, `pair_quiet_until`, `pending_pair_dials`, the pairing links | XX handshake frames, `RequestPairing`, `ConfirmPairing`, tick, link and dial endings | transports (frames, dials), host (`PairingSas`, `PairingFailed`, `PairingComplete`), store |
| Core, reaching a peer (`core.rs`, `link.rs`) | `addrs`, `seen`, `pending_peer_dials`, `links`, `reconnect_at`, `dial_trouble` | discovery, `Connect`, `Disconnect`, `Revoke`, `ReconsiderRoutes`, tick, link and dial endings | transports, host (`PeerReachable`, `PeerUnreachable`), plugins (connected, disconnected) |
| Core, freshness (`core.rs`, `handshake.rs`, `peer.rs`) | `PeerRecord.greatest_seen` | `accept_hello` on message 1 and 2 of IKpsk2 | store (`Persist`), transports |
| Core, sessions (`core.rs`, `noise.rs`, `envelope.rs`) | two cipher counters per link, `last_recv` | `dispatch_send`, `on_link_recv`, `fail_up_link` | plugins, transports |
| Core, effects and bulk (`core.rs`, `plugin.rs`) | `bulk_wait`, transfer owners | `dispatch_bulk`, `BulkStarted`, `BulkDone`, tick | host bulk tasks |
| Plugins (`plugins/*.rs`) | offers and transfers, echo slot, last snapshot, pointer owner | envelopes, effect results, local commands | core |
| Runtime (`acrylius-rt/runtime.rs`) | deadline, action queue | one event, its actions in order, sleep to the deadline | core, store, transports, effector |
| Store (`store.rs`, `KeychainStore.swift`) | one record per peer, the identity | put (atomic), delete, load at start | runtime |
| Transports (`tcp.rs`, Linux `ble.rs`, `usb.rs`, `NWTransport.swift`, `BLETransport.swift`) | writers, advertisements, reassembly buffers | dial, accept, send, close | runtime by events |
| Daemon (`acryliusd`) | control clients waiting, the question on screen, reserved file names | control socket, prompts, configuration | runtime |
| iOS host (`CoreRuntime.swift`, views, intents) | the Rust core behind an actor, its timer | submit, apply, arm | FFI |

**What is hard here.** The core itself is single-threaded; the difficulty is
in what it is fed. Several links to one device come and go independently; a dial
answers after whoever asked for it has gone; a person answers minutes after the
digits appeared, over a link that may have closed; the same opener may be
delivered again, also after a restart; deadlines run out while something else is
about to succeed; a write fails and the answer goes out all the same; the phone
is suspended and every timer is late. Around the core, every effect and every
D-Bus call is a task of its own: readings overtake each other, touches reach the
device in any order, fragments are pushed by concurrent handlers, and three tasks
may retire the same Bluetooth link. All of these are actions of the models below.

**What makes each part correct.**

* Pairing: one question at a time, the digits under a person's eyes are not
  replaced by another device's, only a device whose digits were shown is
  trusted, refusals are followed by a cooldown, and nobody silent keeps the slot.
* Reaching a peer: no session with a device that is not paired, what the screen
  says about reachability is true, every loss is announced and retried, who asks
  to connect is told how it ended.
* Freshness: an opener is answered at most once across redelivery, crash and
  restart; a peer with a wrong clock cannot push the watermark beyond the skew.
* Sessions: what one end seals the other opens, in order, until the link ends;
  a refused message costs that message and no more.
* Bulk and share: both ends use the same key, a transfer ends once, with one
  outcome, and its file is either whole or absent.
* Clipboard: a value copied once crosses once and does not come back, and while
  nothing overlaps and nobody repeats a copy every clipboard ends with it.
* Media and locking: every connected device shows what the plugin last showed,
  requests are answered, and what is reported was read from the machine whenever
  it could be read.
* Touchpad: the newest operation wins, the virtual device lives exactly as long as
  a stream, and no finger stays down when its phone falls silent.
* Bluetooth: the core hears of a link exactly as it lives, in whole messages as long
  as the writes of one phone keep their order, a phone that has gone does not keep the link, and the desktop goes back on the air.
* Daemon: a question on the screen is the one the core awaits, unless the core dropped
  it without a word; whoever asks for it gets it, and "unreachable" is true.

## Modules

| Module | Models | Used by |
|---|---|---|
| `Pairing` | the pairing slot, admission, cooldowns, digits, answer | runs `pairing`, `pairing_swap` |
| `PairingProofs` | theorems about it | |
| `Dialling` | routes, attempts, sessions and announcements for one device | run `dialling` |
| `Watermark` | abstract: openers are answered in strictly increasing order of their timestamps | `Freshness` (INSTANCE) |
| `Freshness` | watermark, store, crash and restart, redelivery | run `freshness` |
| `FreshnessProofs` | theorems about it, and that it implements `Watermark` | |
| `Sessions` | two ends, the links between them, cipher counters, choice of link, one file's key | run `sessions` |
| `ReachProofs` | theorems about `Dialling`, and about the counters and the file's key of `Sessions` | |
| `Share` | a file from offer to ending: plugin and core at both ends, runtime tasks, the daemon's files | run `share` |
| `ShareProofs` | theorems about it | |
| `Fragments` | `fragment` and `Reassembler` as operators | `Bluetooth` |
| `Bluetooth` | the desktop's Bluetooth link, its advertisement and the tasks around them | `MCBluetooth` |
| `MCBluetooth` | the lengths of the messages phones send | run `bluetooth` |
| `BluetoothProofs` | theorems about `Bluetooth` and the operators of `Fragments` | |
| `Media` | players, the media plugin, its effects and the poll | run `media` |
| `Locking` | login sessions, the session plugin, its effects and the poll | run `locking` |
| `Touchpad` | the touchpad plugin, its effector, the virtual device, USB and the phone's choice of route | run `touchpad` |
| `TouchpadProofs` | theorems about it | |
| `Control` | runtime, snapshot, notification, broadcast channel and control clients | run `control` |
| `ControlProofs` | theorems about it | |
| `Clipboard` | clipboards, watchers and clipboard plugins of several devices | run `clipboard` |
| `PluginProofs` | theorems about `Locking`, `Media` and `Clipboard` | |

The constants of each module are given values in the `.cfg` files; the modules
run as they are, except `Bluetooth`, which takes a sequence. No cfg replaces a
definition. Definitions marked `Slip:` are the plausible bugs `PROJECT.json`
uses to show that each property can fail; no specification uses them.

### Pairing

`links[l]` is the `LinkState` of a link as far as pairing reads it: `pending`
(before the first frame, and again when the core parks the link behind a
confirmation), `pairing` (an XX handshake in either direction), `up`. `pairing`
with `window` and `confirm` is `Option<PairingWindow>`; `quiet` is
`pair_quiet_until`; `question` is the host's dialog. Each handler of `core.rs`
is one action per way through it: `on_first_frame` is `FirstFrameRefused`,
`PairOpenerUnreadable`, `PairOpener` and `SessionOpener`; `pairing_completed` is
`PairingCompleted` and `PairingCompletedTooLate`; `on_tick` is `TickLapsed` and
`TickStale`; and so on.

Abstractions: a deadline is the time left to it, so time has no bound. The
transcript hash, the digits and the key from one handshake are all named by the
link it ran on, since every handshake has a hash of its own. The dialog changes
in the step that emits the event; the prompt as a process of its own, which can
be answered while it is being replaced, is in `Control`. `AskQuestion` assumes
that a prompter is installed, as it is in both hosts.

### Dialling

One device's entries of all the tables. `attempts` unites an entry of
`pending_peer_dials` with the handshaking link it turns into, because the
`fallback` of the link is the rest of the same route list. `up` is the set of
established links and `freshest` what `best_link` returns. `told` and `asked`
are the host's side: the last announcement, and whether a person waits for one.

Abstractions: routes are tried in preference order and every list of routes is
kept sorted, so it is a set of transports and its head the minimum. A dial that
answers after its token expired arrives as an inbound link and is not connected
to the attempt that replaced it. A peer that runs this code never opens a
session on the link it paired over, so closing that link in `confirm_pairing`
ends no session here. `MalformedFrames` says whether a link may deliver a frame
without a kind; see Known limits.

### Freshness and Watermark

One device and the Hellos of one peer. The runtime carries out the actions of an
event one after the other: `todo` holds the `Persist` and the `LinkSend` of
message 2 that are still to be done, and `Restart` may strike between them,
which is what the order of `accept_hello` is for. `PutFails` is the logged and
ignored write error. `record` is in memory, `disk` in the store.

`Watermark` is the promise of a device without a disk that never stops: each opener
answered is later than every one answered before it. Two things start the order
afresh, pairing again, which sets `greatest_seen` to zero, and a crash after a write
that failed and before one that succeeded. In `Freshness` the latest answer is the
history variable `high`, which no guard reads; the mapping is `high <- high`,
`weak <- unsaved`. So the handshake, the write, the crash and the reload together must
look like one counter that only rises, which `AnsweredOnce` alone does not say: it
allows an older opener to be answered for the first time. Whether a fresh opener is
accepted at all (availability) is not promised by the code and not by the model.

### Sessions

Both devices run the code, so every action takes the end `e` it happens at.
`state[e][l]` says how far a link is there, `heard` is `last_recv_ms`, `sealed`
and `opened` are the counters of the two ciphers of the session, `wire[e][l]`
holds the frames on their way to `e`, and `now` is each host's own monotonic
clock. `share` and `key` are the share plugin's entry for one file and the
session its bulk key was derived from. `Respond` and `Finish` are the two ways
to `finish_session`, each with what a plugin sends from `on_peer_connected`;
`Receive`, `ReceiveOffer` and `ReceiveAccept` are `on_transport_frame` by what is
in the frame; `Undecryptable` is `fail_up_link` (or `fail_link` before the session
is up); `SendOn` is `dispatch_send`, which seals first and measures afterwards.

Abstractions: a link is the same pair (transport, number) at both ends, and
delivers in order until an end loses it. A ciphertext is the counter it was sealed
under, and can be read under the same counter only. A handler sends at most one
message, since several are the same as local sends right after it. Messages
refused because a capability was not negotiated change nothing and are left out.
One file is offered and accepted once. `Narrow` are the transports whose
`max_message` a large message exceeds, `NoBulk` those without a side channel;
Bluetooth is both, but they are separate so that each can be varied. `Ties` says
whether an end may hear two frames in one millisecond.

### Share

The sender `S` and the receiver `R`, with everything a file passes through.
The core's side is `entry` (the plugin's tables), `owner` (`bulk_owner`), `wait`
(`bulk_wait`) and `told`, the endings announced to the host. The runtime's is
`running`, the one task per transfer it can still abort, and `events`, the queue
into its core. The daemon's is `FileBulk` (`outgoing`, `offers`, `incoming`) and
the download directory `disk`. `recv[t][k]` and `send[t][k]` are tasks of their
own with `conn[t][k]` between them: `Listen`, `TakeListener`, `Accept`, `Read`,
`Place` and `Placed` are the stretches between the points where a receiving task
reports something or can be aborted. `BulkCancel`, `OnBulkFinished` and `Forget`
are what several handlers share. A person may accept one offer more than once,
since accepting leaves the offer noted; the second task then finds the maps as
the first one left them.

Abstractions: one session at a time carries the messages in order (which link it
takes and the key are in `Sessions`). A transfer has one number. Whether a link
carries bulk is a free choice wherever the core asks. The deadline may pass at
any time once it is set. A file is not empty, and its bytes have all arrived or
not. Every file is called "photo": a path is the copy number and the count of
`.part` behind the name, and `Before` lists the sets of files that may be there to
begin with, of "photo" and "photo.part". A second task of an offer accepted twice
shares the destination and the temporary with the first (`Shared`), and the temporary
may be impossible to create (`CreateFails`). The daemon and the phone offer no way to cancel yet, though plugin and
core handle it; `Quitters` are the ends where it is tried.

### Fragments and Bluetooth

bluetoothd calls the daemon, and every call is a task; an action of `Bluetooth`
goes from one lock of such a task to the next. `writes` are the `write_value`
tasks, oldest first: each notes the caller (`NoteCentral`), may find another device
on the link and retire it if bluetoothd says it has gone (`RetireHolder`) or give up
(`Refused`), and otherwise pushes its fragment, on a new link if there is none
(`Placed`). `StartNotify` is the subscription, which names nobody and so ends
whatever link there is. `task[r]` are the tasks that may put the advertisement back:
the watchers of the two departure signals (`Signal`, `Drop`, `Check`, `Registered`)
and `supervise`, which asks bluetoothd every few seconds (`Supervise`, `Decide`,
`Forget`). `told` is a history of what the core heard of each link. `link`,
`last`, `wanted` and `cooling` are the fields of `Shared`.

Abstractions: a device keeps its address; the fragment size is the same for all; the
adapter is there; nothing asks to go off the air. `registered` is what bluetoothd
counts and `onAir` what the radio does: a connection takes the second away and not
the first, which is why `reconcile` cannot trust the count.

### Media and Locking

The two modules have one shape. The machine's states are numbered as they happen
(`host`), so a reading is a number, and an old reading that arrives late is a smaller
number. `effect[r]` is the task of a request, `polls` are readings nobody asked for,
`last` is what the plugin remembers and `shown[p]` the reading device `p` was last
sent. Players and lockers act on a call some time after it returned, in full, in part
or never (`Obey`, `Grant`); `Settled` and `Confirm` are the loops that read until the
machine shows the command or the time is up. `Landed`, `WorthAnnouncing`,
`PickActive`, `RankForLock`, `RankForUnlock` and `ResolveLocked` are the pure functions
of the same names.

A call on the bus may fail before or after it did its work, and so may the reading after
it. When every reading of `confirm` fails the code reports that nothing changed, which
is what it assumed to begin with (`ConfirmFails`).

Abstractions: a reading is of one moment, where the code reads the login sessions one
after the other; a track stands for title, artist, album and
length; a position has or has not moved. In `Locking` a configured command and
logind's call are both a wish.

### Touchpad

`order` and `owner` are the plugin's, `tasks` the effects on their way to the device,
`lastApplied` and `pad` the effector's. The USB side is `attached`, `drive` (the
loop of `drive_touchpad`), the session's `queue`, `down` and `usb`. The phone is
`awake`, has a surface of some size on the screen (`showing`) and sends over the
cable while that carries, else over the session. `Replayed` is `Slots::frame`, which
both devices share. A write to the device that fails ends the USB session (`PlayFails`,
`StallFails`), and the stream on which usbmuxd reports devices may end with the
session or without it (`MuxGone`). `newest` and `overtaken` are history: the operation that should
win, and whether a begin or an end was dropped because a later operation ran first.

Abstractions: a frame is the set of fingers down, at most `MAX_POINTS` of them; fingers
that come down together take the free slots from the lowest on, in the order of their
numbers (in the code in that of the message, which no property tells apart); when a queued
frame is played is left to the schedule; tracking ids do not wrap.

### Control

`step` is where `Runtime::run` is: an event is handled, its announcements go to `ui`,
and only then does the observer write the snapshot `pending`, unless a client holds
it. The task that shows events takes them from `ui` one at a time; for digits it
closes the last notification, asks the desktop for a new one and learns its id when
the call returns (`TakeEvent`, `Raise`, `Shown`). A press travels on its own
(`presses`) and counts if it names the question on the screen. `inbox[c]` is a client's
place in the broadcast channel, which overwrites what it has no room for (`Lagged`).
`client[c]` follows one request of `acryliusctl` through `handle_conn`.

Abstractions: the core is its slot and the set of peers with a session. A question may
come whenever none is awaited; the slot may be emptied at any time, with a
`PairingFailed` (`Lapse`: the window, a failed attempt, a failed dial) or without a word
(`LinkLost`: `on_link_down` of a link in its handshake). The link whose question is
awaited may also go and leave the slot as it is, which changes nothing here. When each
of them happens is in `Pairing`. `dropped` is history: the questions lost without a
word. Requests that wait
alike are one. Digits come from a device that is in no request.

### Clipboard

Each device has a clipboard, a watcher with its own memory, reports on their way to
the core, and the plugin with `last_local` and the one-shot `last_remote`. `net[d][e]`
is what the session with `e` has still to deliver at `d`: in order, but in no order with
what other sessions carry. Writes are effects in any order; a `get` is answered from the clipboard as it then is. `disturbed`
is history: somebody acted, or something failed, while something else was still
under way. `repeated` is history too: a device copied what it had sent last.

## Runs

| Run | Specification | Shows | Distinct states |
|---|---|---|---|
| `pairing` | `FairSpec`, 3 links, 2 devices, 2 dials, late ticks | what is paired was shown, the two action properties for a device that is only asked, and that the slot always comes back | 121 883 |
| `pairing_swap` | `Spec`, punctual ticks | expected violation: the digits on the screen are replaced | stops at the violation |
| `dialling` | `FairSpec`, 2 transports, 2 links each, 2 attempts, malformed frames | no session without pairing, no "gone" beside a live session, losses announced, and that a known device is dialled again | 206 682 |
| `freshness` | `Spec`, 3 links, 2 openers, clocks 1..3, skew 1 | the store is current when message 2 goes out, no opener is answered twice, and the protocol implements `Watermark` | 2 475 928 |
| `sessions` | `Spec`, 2 transports with a link each, 2 messages per cipher | the ends stay in step unless a message was refused, and the two keys agree while there is one session at a time | 1 371 246 |
| `share` | `Spec`, one transfer accepted up to twice, "photo", "photo.part" or both there before, receiver cancels | each host hears one ending, success means that every byte was sent, an unconnected listener has a deadline that would abort it, no file of a plain name is replaced while the offer is accepted once | 4 171 958 |
| `bluetooth` | `FairSpec`, 2 phones, 2 connections, one message of 3 fragments, 3 tasks of fragments at a time, one overtaking, one fault, one watcher and `supervise` | the core's picture of the link is true, messages are whole until a fragment overtakes another, gone phones are retired, the desktop gets back on the air | 708 147 |
| `media` | `FairSpec`, 2 devices, 2 players (one without control), 2 changes, one request beside one poll | all devices show the same, a request is answered, every device comes to show what is playing | 184 918 |
| `locking` | `Spec`, 2 devices, 2 sessions (one with a compositor to ask), 2 changes, one request beside one poll | all devices show the same, the right session is acted on, the outcome was read unless no reading succeeded | 1 248 000 |
| `touchpad` | `FairSpec`, 2 phones (one with a cable), 2 fingers, 3 messages, 2 faults | the newest operation wins, no device outlives its stream, contacts keep their ids, fingers come up | 553 182 |
| `control` | `Spec`, one client, 2 peers, 2 questions, a channel of one | the question on the screen is the awaited one or one dropped without a word, the client gets it, "unreachable" is true | 8 088 014 |
| `clipboard` | `FairSpec`, 2 devices, 2 texts, 3 actions of people, one fault | while nothing overlaps a text crosses once and, if nobody repeats a copy, all clipboards end alike | 148 429 |

**Bounds.** Three links are a confirmation that waits, a handshake beside it and
one more that arrives when the first is gone: the third is what it takes to swap
digits. Two devices are enough to tell one's digits from another's. Timeouts keep
the order of the defaults (handshake < cooldown < window < denied cooldown), and only
the order matters, since every comparison is with zero. Two transports give a
route list with a rest, and a better route than the one in use; two links on each
cover losing one of two. Two attempts cover an automatic one with an adopted or
upgrading one beside it: `connect_peer` starts none while another dials, so a
third needs a second handshake still open. Three clock readings with a skew of one contain a
timestamp too old, one that ties, one in the window and one too far ahead; three
links carry one opener twice with a newer one in between. Two links between two
ends are a choice of link at each end, and a reconnection after a loss. Two
messages per cipher are an offer or an accept with a plain message before it. The two
clocks start at 1 and `MaxNow` bounds their sum: 3 lets one of them move once, so
links are heard from at equal and at different times. One transfer accepted twice is
two receiving tasks racing for one listener, one destination and one handle to
abort; a second transfer would meet the first only in the names, which the files
there before and two copies cover.

Two phones and two connections are a holder and a newcomer, or one phone that comes
back; a message of three fragments has a middle one, and can be cut short by a
departure and continued by somebody else's. With three tasks at a time all of it may be
under way, and one overtaking reaches the states `WholeMessages` excludes, in which the
other properties must hold. One fault is a failed registration, a
released advertisement or a restart of bluetoothd. A watcher and `supervise` are two
tasks that retire the same link; a second watcher runs the same code. One poll beside
one request are two readings that overtake each other, and two changes of the machine
make the older of them wrong. Two sessions are what it takes to lock or unlock the wrong one.
Three messages are a begin, a frame and an end, or two begins of two phones with a
frame between; two faults take a session and a cable away. A channel of one overflows
with the second event; two questions are one on the screen while the next is asked.
Three copies are one, another, and the first again.

**Fairness.** In `Pairing` and `Dialling`, `WF(Tick)` and `WF(Pass)`: the clock does
not stop and a due tick is handled. The daemon's loop (`runtime.rs`, `run`) sleeps to
`next_deadline_ms` and submits a tick, or after an hour when there is no deadline. The
phone's `CoreRuntime.arm` does the same for a deadline and sets no timer for none. The
retry timer (`reconnect_at`) is unset only until the first tick and a deadline
from then on, so `KeepsTrying` rests on that deadline once there has been one
tick; before it, it rests on the daemon's hourly tick, or on any other deadline
on the phone. On the phone it also rests on iOS letting the process run.
No peer, person or transport is assumed to do anything, so
`SlotComesBack` and `KeepsTrying` hold against silence.

`Bluetooth`: the interval of `supervise` ticks, started tasks go on and a cooldown
passes; no signal is assumed to arrive and no phone to do anything. bluetoothd refuses
only finitely often, and answers. `Media`: effects run, the poll ticks and the window
of a command closes; no player is assumed to obey. This includes that each call on the
bus returns: the loop that waits for a player looks at its deadline between two
readings only (`media.rs:296-309`), so a player that hangs in one holds its request up for
as long, and nothing is claimed of it. `Touchpad`: the loop of a USB
session plays what is due or fails to, its sleep for a silent phone ends, and a stream
that has ended is read. `Clipboard`: watchers poll, messages arrive while their session
lasts, effects run.

Deadlock is checked where something can always still happen (time, a restart, a
local message). The six runs of the hosts bound what people do and what fails, so they
may come to rest.

## Findings

`pairing_swap` ends in a counterexample on purpose; it states what a comment of the
code, and the protocol document, say. `on_link_down` clears `pairing` when any pairing
link that is still handshaking goes down, without asking whether the slot is that
link's. A pairing dial has no deadline of its own, so it may come up after its window
lapsed; its end then drops another device's waiting confirmation without a word
to the host, and a third handshake puts new digits on the screen. A device
that never dials is safe; that is theorem `InboundNeverSwapped`.

## Known limits

What the models show the code does, although one would wish otherwise. Each can be
seen by adding the property named to the cfg of its module, with the constants given.

* A frame without a kind on an established link takes the path for links without a
  peer: the session is gone, nothing is announced, and the retry timer is not moved
  (`core.rs:655`; `ToldIsTrue` with `MalformedFrames = TRUE`). Everything else is
  announced: `NoSilentLoss`.
* A handshake refused at message 2 ends in `fail_link`, which forgets the routes not
  tried yet and that a person had asked (`core.rs:831`; `AskedIsAnswered` under
  `FairSpec`, `MalformedFrames = FALSE`).
* `dispatch_send` encrypts a message before it compares its size with the link's
  limit. The refused message has moved the sender's counter, so the receiver cannot
  read the next one and ends the session (`core.rs:1232`; `CostsNoSession`), although
  the comment at `core.rs:1450` says that a wrong choice "costs one message, not a
  session". On links without a refusal the ends stay in step: `EndsStayInStep`.
* `handshake_hash_for` derives a transfer's key from `best_link` at each end and at
  different moments; with two sessions up the ends may use different ones
  (`core.rs:1549`; `SameKey` with `NoBulk = {2}`, `Ties = FALSE`, `MaxNow = 5`).
* `reserve_path` claims the destination with `create_new`, but the temporary beside it
  is opened with truncation, so receiving "photo" destroys a file called
  "photo.part", and `src/docs/PROTOCOL.md:688` says a receiver "never replaces a file
  already there" (`bulk.rs:82`; `NeverReplaced` without `p[2] = 0`, under the constants
  of the run). An offer accepted twice has two tasks with one temporary: the first to
  rename it may put half-written bytes in place (`Shared`), and the other then has the
  file in place open for writing. The model does not follow a file through a
  rename, so `NeverReplaced` claims nothing once an offer was accepted twice.
* `BulkCancel`, and a listener that fails after the name was claimed, leave the empty
  file that holds the name (`files.rs:286`; `ReservationGoesBack` with `Before = {{0}}`).
* Overlapping acceptances of one offer leave a first listener that nothing times.
* Clipboard: a device that copies 1, gets 2 from its peer and copies 1 again sends
  nothing, because `last_local` is still 1 (`EndsAlike`), while a test says that
  "copying it again is a person asking, not an echo" (`clipboard.rs:297`). Copies that
  overlap may chase each other between two devices; identical ones leave a stale
  `last_remote` behind that swallows a later copy; a `get` answered between a copy and
  its report swallows the report.
* Bluetooth: `readvertise` looks for a link before it sleeps, so it may unregister and
  register over a link that came up meanwhile (`ble.rs:178`, `ble.rs:216`).
  `write_value` handlers are tasks, and nothing but their scheduling keeps two fragments
  of one phone in order. After an overtaking a message may be put together wrongly
  (`AllWhole` under the constants of the run), when two continuations change places, or
  when one is refused before an older one was tried: the older one then takes the link,
  and the next follows a fragment that is missing. The header is kept "to turn desyncs
  into errors instead of silent corruption" (`acrylius-proto/src/ble.rs:9`), but has no
  number that would notice these. Without an overtaking it cannot happen:
  `MessagesAreWhole`.
  `supervise` forgets the last central when its registration succeeds, also one
  that connected and read the identity during it (`ble.rs:312`): if that phone leaves
  before it writes and both signals are lost, nobody puts the advertisement back;
  `BackOnAir` excludes that moment.
* Locking: "Read back after the operation, never inferred" (`plugins/session.rs:58`) is
  not so when every reading after the call fails: `confirm` then reports the opposite of
  what was asked, from which it started (`linux/session.rs:274`), also of a session that has
  ended meanwhile. `OutcomeWasRead` says what is left: that case never claims a change.
* Media: a player that hangs in one call holds its request up, see Fairness.
* Touchpad: a frame that overtakes its own begin makes the begin stale, so a gesture
  may open no device. The phone repeats the begin with the first gesture after 3 s
  (`TouchpadView.swift:197`, `:254`); until then touches are lost. `OpenIffOwned` says so
  with `overtaken`. `PROTOCOL.md:617` promises of frames that a reordered one "costs one
  sample and never desyncs the device"; that is true among frames, not of a frame and
  its begin.
* Control: `on_link_down` empties the slot without a word (`core.rs:1864`), so the
  notification of the question keeps its buttons until the next pairing event. A press
  sends `ConfirmPairing`, which names no question (`prompt.rs:216`), so it answers whatever
  the core awaits when it arrives; `OnScreenIsAwaited` counts these questions as `dropped`.
  A question may reach a client twice, from the snapshot and from the stream.
  The snapshot is held while a line is written, and the observer, which does not wait,
  skips it. A press between `show` and its answer is dropped (`prompt.rs:93`). A
  desktop whose notification service hangs holds up all announcements (`main.rs:556`). A refused
  `pair with` takes a pending question off the screen (`main.rs:560`). News of a peer
  that was under way when a client asked answers it (`GoneIsTrue` counts it as doubt).

## Proofs

Each theorem holds for all constants that satisfy the modules' assumptions, so
for any number of links, devices, transports, openers and any timeouts.

| Theorem | Statement | Argument |
|---|---|---|
| `SlotSafety` | types, `QuietWhileIdle`, `AwaitingIsParked`, `PairedWasShown` | their conjunction `Inv` is inductive; `PairedWasShown` carries that the awaiting digits were shown |
| `InboundNeverSwapped` | `NeverSwappedIfAsked` | needs `InboundInv`: the one handshake in flight owns the slot and cannot outlive it, and a question belongs to the awaiting confirmation |
| `InboundConfirmationEnds` | `ConfirmationEnds` | same invariant; one case per action |
| `ReachabilitySafety` | types, `UpIsPaired`, `TroubleMeansDown`, `UpIsTold` | inductive with the conditional `ToldIsTrue` |
| `NoSilentLoss` | `LossIsTold` | only four actions can empty `up`; three announce |
| `ToldTheTruth` | `ToldIsTrue`, if no frame lacks a kind | from the same invariant |
| `ReplaySafety` | types, `StoreIsCurrent`, `AnsweredOnce` | `MemoryInv`: an answered opener is at or below the watermark in memory, and on disk unless a write failed (`Remembered`); the opener about to be answered is the one the watermark stands at, and new (`AboutToAnswer`) |
| `WatermarkStaysBounded` | `WatermarkBounded` | `BoundInv`: the same bound on disk, because a restart brings it back |
| `EndsStayInStep` | types and `InStep` of `Sessions` | one `Direction` invariant per link and direction: message 2 is first in the queue of an end that still shakes, the frames behind it carry consecutive counters from the receiver's on, and the sender's counter is the one after the last, unless it refused a message or lost the link |
| `OneSessionOneKey` | `SameKeyIfLone` | `OfferInv`: one offer exists, in one place of one queue, and while it travels the taker has not heard of it, so nobody binds a second time. `KeyInv`, while there was only ever one session at a time: who binds still has the session its key is from, the acceptance travels on that session, and the offerer has no other |
| `OneEnding` | `EndsOnce` | `EndsInv`: an end with an entry has announced nothing, an offer travels once and only before there is an entry for it, so an entry that was removed does not come back |
| `HonestSuccess` | `SuccessIsReal` | `SuccessInv`: whatever says yes, in an event queue, on the wire or as a task at `placed`, and every whole file, came after the last byte; it needs `DialInv`: an address travels once and before anybody has dialled it, so a connection that carried everything is not reopened |
| `PortIsTimed` | `ListenerIsTimed` | `TimedInv`: an offer accepted once has one task, the clock of `on_tick` runs from the moment it is spawned, and every report that stops the clock is of a task that is connected or over |
| `NothingReplaced` | `NeverReplaced`, which is about plain names while no offer is accepted twice | `OwnInv`: until then the destination of a task, from the listener to the last byte, is a file its own transfer reserved with `create_new`, so what is there is neither old nor whole |
| `Typing`, `ScreenIsTrue` | types and `OnScreenIsAwaited` of `Control` | `ScreenInv`: the last word under way to the screen is about a question that is awaited or was dropped without a word (`Current`); what is shown or being shown is such a question, or something queued will replace it |
| `PairIsHeard` | `NobodyMissesIt` | `PairInv`: for a client that has subscribed, the awaited question was sent, is the snapshot it is writing, or is in the observer's queue, on its way through `show`, or in the client's inbox, unless the client lagged |
| `GoneWasGone` | `GoneIsTrue` | `WaitInv`: while nothing casts doubt, the peer has a session and neither the observer's queue nor the client's inbox holds news of its loss |
| `UpIsShown`, `StoreStaysCurrent` | `UpIsTold`, `StoreIsCurrent` | each follows from the theorem above that contains it |
| `MediaInStep` | `InStep` of `Media` | `MediaInv`: the readings compared, and those that effects and polls will bring, are of states the machine has been in (`Tables`, `AnswersTaken`); a change of the machine adds a state and changes none |
| `LockInStep` | types and `InStep` of `Locking` | `LockingInv`, the same for locking |
| `NothingLeft` | `NothingLeftUnlocked` | `LeastIsRanked`: the session ranked first is of the preferred group unless that is empty; a task that waits for a lock began with a session that was not locked (`Holds`) |
| `ReportsWhatItRead` | `OutcomeWasRead` | `Reads`: what a task would report is true of its reading (`True`) from the moment it waits, and `StaysTrue` as the machine goes on; while nothing could be read it does not say that the command worked (`Worked`) |
| `TransportTypes`, `LinksAgree` | types and `CoreAgrees` of `Bluetooth` | `TransportInv`: what is told of a link is a log (`Log`: up first, down last), the logs are numbered as the links are, and the link held is the one whose log has not ended (`Fits`). Every task that retires a link goes through one lemma about what that does to the logs, so it does not matter which of them comes first |
| `MessagesAreWhole` | `WholeMessages` while no fragment overtook another | `OrderInv`: every fragment under way is a piece of a message (`Cuts`), of two fragments of one phone with none between them the second starts a message or continues the first (`Chained`), and the open buffer is a beginning of a message whose next piece is the next to come from the holder of the link, or a start is (`Assembled`). `CutForm`, `CutGrows` and the lemmas beside them say what `Fragment` and `Push` compute, for one message of any length |
| `NewestHasLastWord` | `LastWordCounts` | `PadInv`: the newest operation is what the device shows once its number was applied, and a task until then (`LastWord`); numbers are given out once (`Ordered`) |
| `DeviceHasOwner` | `OpenIffOwned` | `Owned`: of the begins and ends still to run the newest says whether there is an owner, unless it has been overtaken already; when none is left the device does |
| `ContactsAreKept` | `KeepsContact` | `FrameForm`: what `Slots::frame` does to one slot; `PlacesMatch`: the ranks of the new fingers and of the free slots are the same numbers, so no two fingers take one slot |
| `ClipboardTypes` | types of `Clipboard` | `FieldsInv`: a message is sent only to a peer, and what a session has not delivered goes with it |
| `CopiesTravelOnce` | `SentOnce` | `PhaseInv`: while nothing overlaps, either one device has a copy its core has not heard of and nothing travels, or one text is spreading and each device is at one stage of taking it (`Echo`: on its way, about to be written, written, reported, each time the text `last_remote` holds), or only questions and their answers are under way. Only the first sends texts, at most one to each other device, and it leaves that phase when it does |
| `Refinement` | `Freshness` implements `Watermark` | `MemoryInv` at each step: only `Answer` raises `high`, to a timestamp above every one answered since the order last began; a restart lowers nothing unless a write had failed |

Assumptions beyond the modules' own: the two inbound theorems need
`HandshakeTimeout <= PairingWindow` (defaults 15 s and 120 s), the second also
`PairCooldown <= PairDeniedCooldown` (30 s and 300 s); a configuration outside
them really loses the property. `ToldTheTruth` needs `~MalformedFrames`.
The theorems about `Share` need no more than its own assumptions.
`Dialling` assumes that transport ids are ordered so that every list has a first.

The assumptions of `Sessions`, `Media` and `Clipboard` are hypotheses of the theorems
about them (`S!ConfigAssumption`, `M!MediaAssumption`, `C!ClipboardAssumption`), because
their proofs share a module with another component's and reach them by `INSTANCE`. They
say the same as the modules' ASSUMEs, which TLC evaluates in the runs. Nothing
relates the components that share a module.

Invariants that are proved and not in a run's list are `TypeOK`, `QuietWhileIdle` and
`AwaitingIsParked` of `Pairing`, `TypeOK` and `TroubleMeansDown` of `Dialling`, `TypeOK`
and `WatermarkBounded` of `Freshness`, and `TypeOK` of `Sessions`, `Locking` and `Share`.

The inductive invariants were checked by TLC on the constants of the runs, or by
simulation where two transfers are too many to exhaust, before they were proved;
`PhaseInv` with three devices and four copies. Some definitions changed because a proof
did not go through.

* The arms of the CASE expressions of `Verdict` (`Control`) and `Decide` (`Bluetooth`)
  overlapped. TLC takes the first arm that holds; TLA+ leaves open which. They are disjoint
  now, in the order in which the code tests them.
* `Refused` (`Bluetooth`) did not count as overtaking, and a phone's fragments are out of
  order when one of them is refused early as much as when it is applied early.
* Messages to one clipboard were one queue, so what two devices sent kept its order. Each
  session has its own now, and the property holds all the same.
* `Replayed` (`Touchpad`) placed the fingers of a frame through sorted sequences, of which
  the prover knows nothing. It goes by ranks now; TLC finds both the same for four
  fingers and three slots.

Only model-checked:

* The liveness properties: `SlotComesBack`, `KeepsTrying`, `GoneIsRetired`, `BackOnAir`,
  `UsbLifts`, `ComesToRest`, `EveryoneCurrent`, and `Answered` of `Media`.
  Fairness and `ENABLED` are outside what the prover handles.
* That a message cut into fragments and pushed one after the other comes out whole, as a
  single statement about a recursion over its fragments: the prover has no induction
  over data. `MessagesAreWhole` needs one step of it at a time.

## Plan

In this order; each adds to a module, its run or its proofs.

1. `Sessions` with `Freshness`: crossed dials, where each end answers the other's
   opener in one millisecond and one of the two must be refused without ending
   both; capability negotiation, which decides what a session carries.
2. `Share`: an abstract specification of one transfer (offered,
   under way, ended once at each end) that `ShareInv` already nearly states, for `Share`
   to implement. Liveness: an accepted transfer ends. `dispatch_bulk` drops the owner
   when it refuses, while its comment says that the plugin unwinds as after any failure.
3. The iOS runtime, whose events are submitted from tasks of their own, and its
   Bluetooth and network transports across a suspension.
4. The TCP transport's accept, dial and close against its writers.

## Not modelled

Noise itself, key derivation and encodings: the models take from them which
message is readable under which key. The command and wake-on-LAN plugins: a request and one
answer, with no state but the table of pending answers that `Media` and `Locking`
show. iOS views and widgets, the conversions of the FFI, parsing of configuration,
logging, installation scripts: input, output and presentation without a protocol of
their own. The iOS runtime and the TCP transport are in the plan. `PROJECT.json` lists
everything component by component.
