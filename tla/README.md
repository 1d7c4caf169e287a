# OxiSound: specifications, model checking and proofs

TLA+ models of OxiSound: its streams and the threads and servers beside them,
its devices, its files, packets and messages; the TLC configurations that check
them on small instances; and theorems, proved with TLAPS, that hold for every
instance. `PROJECT.json` lists the components, the runs, the mutants that show
each property can fail, the lines each definition stands for, the hazards and
the theorems.

To check a model: `tlc -workers 2 -config MCDevices.cfg MCDevices`.
To check a proof: `tlapm DevicePartsProof.tla`.

## 1. The system

OxiSound is a family of crates around one data model (`oxisound-core`): audio
backends (`oxisound-cpal`, `oxisound-pulse`, `oxisound-jack`), MIDI
(`oxisound-midi`, `oxisound-jack`, `oxisound-smf`), control messages
(`oxisound-osc`), platform sessions (`oxisound-session`) and a facade
(`oxisound`). Paths below are relative to `src/crates/`.

| Component | State it keeps | Operations | Talks to | Modules |
|---|---|---|---|---|
| PulseAudio playback (`oxisound-pulse/src/linux/stream.rs`, `timeout.rs`) | byte ring, waker slot, discard count, counters, connection flag | write, flush, drain, discard_buffered, pause, resume, drop; poll_read on the reactor | the `pulseaudio` crate's reactor thread: shared atomics, one ring, one mutex, a command channel | PulsePlayback, StreamStats |
| PulseAudio capture and duplex (same files) | byte ring, overrun counter | read, pause, resume, discard_buffered; the sink's write on the reactor | as above | PulseCapture, StreamStats; a duplex stream is opened in PulseConnection |
| PulseAudio connection, devices, formats (`conn.rs`, `device.rs`, `stub.rs`, `env.rs`, `format.rs`, `model.rs`) | the shared connection; one worker and one channel per connect | connect, enumerate, negotiate, open, drop | the server's socket, a detached worker, the reactor | PulseConnection, PulseNegotiation, Conversions |
| cpal output with recovery (`oxisound-cpal/src/streams.rs`, `recovery.rs`, `stream_builders.rs`, `adaptive.rs`) | sample ring, shared disconnect flag, two mutexes, a buffer sizer | write, flush, pause, resume, tick_adaptive, drop; the recovery thread's loop; audio and error callbacks | the owner, the recovery thread, cpal's callback threads | CpalRecovery, CpalRender, StreamStats |
| Bounded open (`bounded_open.rs`) | a worker and a one-place channel per open | open with a time limit | recovery thread or monitor, and a backend that may hang | BoundedOpen |
| Facade auto-reconnect (`oxisound/src/lib.rs`) | stream in a mutex, stop flag | the monitor's loop, drop | bounded open, error callbacks | AutoReconnect |
| Device watcher (`watcher.rs`, `device.rs`, `oxisound/src/lib.rs`) | two snapshots, a broadcast channel, stop flag | poll, try_recv, poll_next, drop | the host, two kinds of reader | DeviceWatcher |
| cpal capture and duplex (`streams.rs`, `stream_builders.rs`, `async_streams.rs`) | rings, resampler phase, drift average, a channel of buffers | read, write, pump_resampled | audio callbacks | CpalCapture, CpalDuplex, StreamStats |
| cpal devices and opens (`device.rs`, `config_helpers.rs`, `error.rs`) | none of their own: each question is asked again | enumerate, select, validate, negotiate, open (nine ways), retry | the host and the device, which come and go | CpalOpen, CpalDevices |
| JACK MIDI (`oxisound-jack/src/midi.rs`, `midi_util.rs`) | two rings of entries, reassembly buffer | send_raw, recv, recv_with_sysex, two process callbacks | JACK's process thread, other clients | JackMidi |
| JACK audio (`client.rs`, `lib.rs`, `metrics.rs`) | sample rings, counters, the ports' wires | open, write, read, connect_ports, auto_connect, process, notifications | JACK's process and notification threads | JackAudio, JackWiring, StreamStats |
| SMF (`oxisound-smf`) | a parser's cursor and running status, a tempo map, a player's agenda and clock | write, parse, TempoMap, SmfPlayer, play | a file, a MIDI output | SmfCodec, SmfPlayback |
| OSC (`oxisound-osc`) | none | encode, decode, send, receive | a UDP socket | OscCodec |
| MIDI ports and clock (`oxisound-midi`, `oxisound-core`) | the listing, a queue, the clock's window of ticks | list, open, create, send, receive, handle_message, bpm | the MIDI system, a callback thread | MidiPorts |
| Sessions (`oxisound-session`) | a lock, a result and a flag per request | configure_session, request_microphone_permission | AVFoundation's completion thread, the user | Session |
| Facade (`oxisound`) | a flag per monitor | device_by_index, monitor_stream, test signals, permission calls | the crates above | CpalDevices, MonitorStream, TestTones, Session |
| Core data model (`oxisound-core`) | routing pairs, configurations | apply_interleaved, validate, the bridge to oxiaudio-core | one caller | CpalRender, CpalOpen, Conversions, MidiPorts |
| Examples, benches, fuzz targets, tests | - | they exercise the above | - | none |

**What is hard here.** (a) Lock-free or nearly lock-free exchange between a
caller and a real-time or reactor thread: wake-ups, discards, checks that go
stale, samples pushed and popped one by one, counters read one by one.
(b) Recovery: streams die, reopening may fail, hang or answer after everybody
stopped waiting, while the caller goes on writing. (c) Messages cut in pieces,
queued in bounded rings and put together again. (d) Files and bytes nobody
vouches for. (e) Shutdown: threads that are joined, opens and connects that are
abandoned, callbacks after a drop. (f) Questions asked twice of a world that
changes in between: devices that go while they are opened, indices of a listing
used later. `PROJECT.json` lists each of these as a hazard at its line.

**What makes each component correct.** Playback: bytes leave in order and once,
a discard takes what was queued and nothing else, the reactor does not sleep on
data, calls end. Capture: a sample is delivered whole and in its channel unless a
loss was counted, and a pause is quiet. Connection: whatever was made and nobody
holds is closed, the server is the one named, a stream is what was predicted.
Recovery: samples go to the stream that plays, a loss is shown until it is
repaired, everything opened is closed. Opens: an error leaves nothing and tells
the cause, a success is what was asked for and offered. Watcher: the events add
up to what is plugged in. MIDI: what is received was sent, whole and in order.
SMF: what is written is read back, damage stays where it is, events are played
in order at their time. Duplex: what is pumped fits, no output is made of
silence or of input used before, and at most one frame of input is passed over.
OSC: decode undoes encode, and what is received can be sent on. Statistics: they
add up to what was written or read, whenever they are read.

## 2. Modules

`A < B`: B extends A. A component has one module of definitions, properties and
mutants; MC modules hold instances, and proof modules proofs.

PulseAudio
* **PlaybackPipe** - the promise of a playback stream: a bounded byte pipe.
  **PulsePlayback** - caller thread, reactor thread and server; each access to an
  atomic, to the waker's mutex or to the ring is a step, except that steps only
  one thread could observe are merged. `pc`/`op` are where the caller is in which
  method, `rpc` where the reactor is in `poll_read` or `skip_discarded`. The ring
  is its two positions. It instantiates PlaybackPipe with `accepted <- pushed`,
  `delivered <- bytes_sent`, `dropped <- popped - bytes_sent`.
  PulsePlayback < **MCPulsePlayback**, **PulsePlaybackProof**.
* **PulseCapture** - `RingRecordSink::write` and `PulseInputStream::read` byte by
  byte: a byte is its place in its frame. Round trips with their deadline; a
  command whose caller gave up stays queued.
* **PulseNegotiation** - pure operators: socket and cookie lookup, formats, periods,
  buffer attributes, ring size, device descriptions. PulseNegotiation <
  **PulseConnection** - connect with its worker, the reference-counted connection,
  enumeration, creation of one or two streams, and teardown. A CREATE that timed out
  stays under way (`late`), and the server may make its stream at any later time
  (`CreatedLate`, `Stray`). PulseNegotiation < **Conversions** -
  `encode_f32`/`decode_to_f32` as a relay applies them over and over, and the layout
  bridge of the core.

cpal and the facade
* **BoundedOpen** - `open_bounded()`: a stream's `phase` (free, up, dead, down
  once reported), its worker, the current attempt, and the one-place channel.
  BoundedOpen < **CpalRecovery** (the handle and its recovery thread, one
  disconnect flag for all streams) and BoundedOpen < **AutoReconnect** (the
  facade's guard and monitor, one flag per stream), which implements
  **ReconnectingOutput**. AutoReconnect < **AutoReconnectProof**.
* **CpalRender** - the output callback sample by sample, routing, the adaptive
  sizer. **CpalCapture** - the input callback and `read()`, and the asynchronous
  stream's channel. A sample is how many came before it.
* **CpalDuplex** - the two rings by how many frames they hold, and
  `pump_resampled` in three steps (look, pop, push) that the callbacks may come
  between. A position is a number of Q-ths of a frame from the head of the
  capture ring, the step any one within the clamps of the drift average; the
  history `due` is where the last call ended.
* **CpalOpen** - the questions an opening call asks, one a step, with the device
  going and coming between any two; the kinds of call differ in which they ask. Every
  question and every stream may fail on a device that is there, with any kind of error
  `error.rs` tells apart (`Errors`; those without a case are one, `BackendError`); cpal
  says of a device that is away that it is not available. The history `failed` says
  which question failed with what.
  **CpalDevices** - enumeration one device a step, selectors, the tags of hosts.
* **DeviceWatcher** - the polling thread, one step per snapshot and per event
  sent, the plugging of devices between any two of them, `try_recv` and
  `DeviceEventStream`. DeviceWatcher < **DeviceWatcherProof**.
* **MonitorStream** - a monitor's thread and its guard's flag. **TestTones** -
  the test signals; the click track beat by beat. **Session** - the category
  under its lock, the completion block's two stores, waits and their timeout.
* **StreamStats** - the counters of six kinds of stream, moved by callbacks in any
  order while `stats()` loads them in any order.

JACK, MIDI, files and packets
* **JackMidi** - `send_raw` one chunk per step, both process callbacks, foreign
  events, `recv_with_sysex` entry by entry (`Take`) with the reassembler byte by byte
  (`FeedByte`). A byte is its class; the application sends whole messages, and other
  clients on the port send any event: a realtime byte, a message of another kind, a SysEx
  message or a piece of one (`CableAssumption`), cut to an entry where it is longer. The
  history `mixed` says that one of them got into a message, or began one it did not end.
* **JackAudio** - both rings sample by sample inside a cycle, the callback
  stream, notifications. **JackWiring** - several clients, the names the server
  gives them, and connections.
* **SmfCodec** - `write`, one damage or none, `parse` one event per step, on real
  byte values. SmfCodec < **SmfPlayback** - tempo map, agenda and `play`, on what
  was parsed.
* **OscCodec** - `encode`, a damaged or cut datagram, `decode`, and a second hop.
* **MidiPorts** - listing, hosts, ports opened and virtual, the channel to
  `receive()`, MidiClock.

Four modules compose components that are checked and proved about together:
**LifecycleParts** (CpalRecovery, AutoReconnect, PulseConnection), **StreamParts**
(CpalDuplex, CpalRender, CpalCapture, PulseCapture, StreamStats, Conversions,
TestTones), **DeviceParts** (CpalDevices, CpalOpen, Session, MonitorStream) and
**ProtocolParts** (MidiPorts, JackMidi, JackAudio, JackWiring). What they compose
shares no state: a variable `part` says which component runs, the others stand still
in an initial state, so that a run checks each alone. Each has its proof module,
**LifecyclePartsProof** and so on, whose first theorem (`PartsAreComponents`) says
that a behaviour of the composition is one of every component.

Five MC modules hold the instances: **MCPulsePlayback**, **MCLifecycles** (of
LifecycleParts), **MCStreams** (of StreamParts), **MCDevices** (of DeviceParts and
DeviceWatcher) and **MCProtocols** (of ProtocolParts, SmfPlayback and OscCodec).
**MCCpalRecovery** serves two runs that need CpalRecovery by itself.

The lines behind each definition are in `PROJECT.json` under `map`. Time appears
as order: sleeps and back-offs are the gap between two steps, a timeout is a
step that may be taken while the call waits. SMF and TestTones alone count time,
since its arithmetic is the point.

## 3. Runs

| Run | Asks | Result |
|---|---|---|
| `pulse_playback` | `NoLostWakeup`; `NothingPlayedAfterDiscard`; every call returns (`CallReturns`); the stream is the pipe it promises (`PipeSpec`) | holds |
| `lifecycles` | cpal recovery: samples are queued for the stream that plays, a loss stays visible, calls and joins return, everything is released. Auto-reconnect: retries never cease, ReconnectingOutput is implemented (`OutputSpec`). PulseAudio: no connection is left behind, nor a stream but of a CREATE that timed out, and the server, the listing and the stream are as announced | holds |
| `streams` | duplex: `PumpFits`, `SkipsAtMostOne`, a full ring `Drains`. Samples stay in their channel on the way out (`RenderedInPlace`) and in (`CapturedInPlace`), the buffer shrinks only when quiet, a pause is quiet, `StatsAddUp`, and conversions, layouts and test signals are exact as far as they can be | holds |
| `devices` | the watcher's events tell the snapshot, readers catch up, events end at what is present; opens are all or nothing, as asked, of the device named; the permission told is the user's; a dropped monitor calls once more at the most | holds |
| `protocols` | SMF: round trip, damage contained, every event on time. OSC: packets stay whole. MIDI ports: what is sent arrives where it was listed; the clock shows the tempo of the latest ticks. JACK: no SysEx message is made up and a whole one is found after any loss; every sample is heard, queued or counted; auto-connection wires the stream's own port | holds |
| `pulse_playback_discard` | May a discard swallow audio written after it? (`stream.rs:78` says no) | **violated** |
| `cpal_recovery_lost` | Is disconnect detection continuous across reconnects? (`recovery.rs:94` says so) | **violated** |
| `cpal_recovery_pause` | Does a paused stream render nothing? (`streams.rs:132`) | **violated** |
| `cpal_duplex_seam` | Is resampling continuous across calls? (`streams.rs:611` says so) | **violated** |
| `cpal_channels` | Are interleaved samples played in their channels? (`oxisound-core/src/lib.rs:933`) | **violated** |
| `smf_sysex` | Is a file with SysEx read back without loss? (`writer.rs:18`) | **violated** |
| `midi_clock` | Does the clock run from a Start or Continue to a Stop? (`oxisound-core/src/lib.rs:1461`) | **violated** |

**What the violations show.**
*Discard*: `discard_buffered` reads the backlog and stores it in two steps; what
the reactor serves in between is still counted, so the discard reaches as many
bytes that were written after it returned.
*Lost*: the replacement already plays when the thread clears the shared flag; if
it fails and reports before the clear, nobody ever learns of it.
*Pause*: `pause()` reaches the stream the handle was opened with, also after
another has replaced it.
*Seam*: `pump_resampled` pops the frame its last interpolation looks ahead to and
then carries only the fraction of the phase: with no drift at all, a call that
the playback ring bounds pops three frames and plays two.
*Channels*: the callback pads with silence sample by sample; a write between two
samples of a padded frame starts in the wrong channel, and stays there until the
ring is empty.
*SysEx*: `write` emits the message without the length that `parse` reads.
*Clock*: every tick sets the clock running, so a device that goes on ticking after its
Stop, as many do to keep others in tempo, is taken for one that plays.

**Properties that hold under a condition.** Where the code promises less than one
would wish, the condition is the property's antecedent and names what breaks it:
`RenderedInPlace` (no write inside a padded frame), `CapturedInPlace` (cpal: whole
frames and no read inside a pushed frame; PulseAudio: a chunk was cut and counted),
`StatsAddUp` (give or take the callbacks beside the call), `IndexOpensListed`
(nothing came or went, and names that do not contain each other),
`LoopbackIsFaithful` (no overrun was counted), `ReopenedRingMatches` (a capacity
within the clamps of a reconnect), `NothingInvented` (nothing dropped, and no other
client's event within a SysEx message), `CallReturns` (no round trip without a timer
thread to a server that never answers), `NoStrayStream` (of the streams whose CREATE was
awaited), `ErrorsTellCause` (a default configuration that could not be told, for a reason
without an error of its own, reads as an unsupported one: `error.rs:49`),
`TruncationInventsNothing` (a datagram cut between two elements of a bundle, or behind an
address, is a shorter packet), `ClicksKeepTime` and `TonesAreWhole` (the code's linear
envelope and its whole frames, whatever the docs at `oxisound/src/lib.rs:780` and `:666` say).

**Bounds, and why they are enough.**
*PulsePlayback*: two-byte ring, writes of one and two bytes, three bytes in all: a
poll can split a write, a write can find the ring empty, half full and full, and a
discard can fall between two writes; the server owes at most two bytes and one
command waits, since the handle's round trips block.
*CpalRecovery, AutoReconnect*: three streams (the current one, one whose open
hangs, a further attempt) whose identities are reused, so that runs are unbounded
in length; one-sample rings, so that every swap can meet a full or an empty one.
*PulseConnection*: two calls that connect, so that a late worker meets a second
connection; six environments and five configurations at the edges of what the lookup,
validation and the ring's size tell apart; one CREATE that timed out and is under way or
has made its stream (`MaxLate`), beside every later open, drop and delete; endpoints
that are usable, placeholders, off, or of a format that cannot be converted.
*CpalDuplex*: quarters of a frame, every drift between the clamps, four frames of
capture and three of playback: a call can be bounded by either ring, end on and
within a frame, and find less than a step. Nothing else is bounded.
*CpalRender, CpalCapture, PulseCapture*: two channels, rings of two frames and, for
capture, one and a half; calls and callbacks of one and two frames, and for
PulseAudio chunks of a byte, a frame and a frame and a half: a chunk, a call and a
drop can fall on, between and within frames and samples.
*StreamStats*: two callbacks of one or two frames around the loads of two reports.
*Conversions*: pairs of samples at the ends, the halves and the zero of scales of
8, 16 and 24 bits, over three hops. *TestTones*: tempos slower and faster than a
click, a track and a frame.
*DeviceWatcher*: two devices, two changes, one failed listing, a channel of two events:
a device can go and come back unseen, and one poll can overflow the channel. *CpalOpen*:
three devices and six configurations that differ in which question they fail, two
unplugs, every kind of error at every question. *CpalDevices*: names that contain one
another, four comings and goings, five platforms. *Session*: two threads, two requests.
*MonitorStream*: three frames; its thread's loop is not bounded.
*JackMidi*: entries of two bytes, rings of three entries, three calls and one event of
another client's, a clock byte, a note, a SysEx message that fits an entry, one that is
cut or the end of one, before or after any entry: the longest message needs three
entries and so can fail after none, one or two of them. *JackAudio*: a ring of two
samples, four written, three frames of cycles of one and two, reads of two: writes and
cycles that fill, overrun and starve it.
*JackWiring*: two clients that ask for one name, three outputs of the system's, one
more than is connected.
*SMF*: files with every kind of event, delta times on both sides of each step of the
encoding, statuses that repeat, tempo changes that share a tick; every byte of the
track chunks is damaged into the values that mean most to the parser (0, an `F0`, an
`FF`, a status, lengths), and every tail is cut. *OSC*: every kind of argument,
strings and blobs that fill a word and that do not, arrays and bundles up to and
beyond the depth allowed. *MidiPorts*: systems with equal names, other orders, only
outputs, none; windows of three ticks and five messages, so that one window is left
for another tempo.

**Deadlock** checking is off in every run: each of these systems may stop (a handle
is dropped, a file is parsed, a counter reaches its bound). That calls, joins and
retries end is a liveness property instead.

**Fairness, and why the code justifies it.** Threads run: weak fairness of each thread's
own steps. Strong fairness is used in four places. A flush loops past its own clock, and
the clock advances, so `FlushTimeout` is taken if it is met again and again. The reactor
drains its command channel on every turn of its loop, so commands are run although polls
come in between. A round trip ends at its deadline if the thread that wakes it could be
spawned (`WF` of `timer /\ AwaitTimeout`); where it could not, the code itself says that
the deadline is seen "just only when something else wakes the task" (`timeout.rs:92`),
and nothing is assumed of that. The recovery thread holds its mutexes for an instant and
then sleeps, so who waits for one gets it. `Drains` is about an application that pumps
when there is room, not one that keeps filling the playback ring itself. cpal reports a
dead stream (the error callback), a worker goes on once the backend has answered, a
reactor writes its commands and sees a socket that was closed. Otherwise nothing is
assumed of the application (it may stop calling), of a server (it may never ask or
answer), of the backend (an open or a connect may hang for ever: released streams are
stated except for those) or, but for `Drains`, of the audio callback. The watcher's
thread is fair and its host answers; a host call that hangs would hang the join, and the
code says as much (`device.rs`, the note on `watch_devices`).

## 4. Proofs

The theorems hold for every value of the constants that satisfies the named
assumption of each module, and nothing else is assumed. Those say what the code's
types and its callers give: a number of bytes, frames or ticks is a natural number,
and a frame, a block or a step is not empty; a capture ring of a duplex holds three
frames at least, its step lies within the clamps of the drift average; a listed range
has a channel; an endpoint is told by its role and name; a read of cpal's asks for
whole frames; the place-holder for "none" is nothing else. Sets of
streams, devices, clients, threads, sizes, configurations, environments, endpoints and
messages are otherwise arbitrary, and so are the lists of ports and devices.

A property of a run that says one thing at each state is seldom inductive; what was
added to make it so is the argument, and is named below.

* **PulsePlaybackProof.** `TypeCorrect`: types, and the ring within its capacity; the
  caller's check of the free space stays true because the reactor only ever frees
  space (`ReadingFreesSpace`). `NoWakeupIsLost`: `NoLostWakeup` speaks of an idle
  reactor only, so the invariant (`WakerAccounted`) follows the waker itself: stored
  in the mutex, in the caller's hand, or fired. `DiscardedIsNotPlayed`: what was
  queued at the snapshot is gone, in the count just read, in the count stored or in
  the count being skipped (`Counted`), and the round trip puts a whole poll between
  the store and the return (`Swept`). `StreamIsPipe`, the safety half of `PipeSpec`:
  each step of a thread is a step of PlaybackPipe or hidden from it.
* **LifecyclePartsProof.** CpalRecovery: `SwapHolds`: outside the region both mutexes
  cover, the handle's ring is the current stream's. From it `TypeCorrect` and
  `SamplesReachTheCurrentStream`; and `LossIsNotHidden`, inductive with `SwapHolds`,
  because the flag is cleared with a replacement in place or not at all.
  PulseConnection: `ServerKeepsNoStray` needs which call has what in hand (`CallInv`:
  a duplex call between its two halves holds the first on the connection of the call).
  It is about streams whose CREATE was awaited; one made for a CREATE that timed out is
  conceded, with any number of them.
  `ConnectionIsAnnounced` adds `Negotiable`, `Predicted` and `FoundInv`; what the
  negotiation computes (attributes, ring, positions within it) are lemmas about
  PulseNegotiation's operators.
* **AutoReconnectProof.** `TypeCorrect`; `OwnershipHolds`: the stream in the mutex,
  the one being installed, the one in the channel and those of the workers are all
  different and each is alive; without it a dropped stream could be the one in use.
  From both, `NoWorkingStreamReplaced` (what the monitor saw is still so when it
  installs: only the monitor leaves phase "down") and `GuardIsReconnectingOutput`,
  the safety half of the refinement that `lifecycles` checks in full.
* **StreamPartsProof.**
  CpalDuplex: `DuplexTypeCorrect`, `CallsFit`, `NoFrameIsSilence` and
  `OneFrameAtMostIsSkipped` from one invariant: `Seam` says what a call owes at each
  of its steps. The arithmetic is one lemma, `CallFits`, on quotients by an arbitrary
  step and an arbitrary fraction.
  CpalRender: `SamplesAreRenderedInPlace`: the ring holds the latest samples written
  (`RingIsLatest`), so the next popped is known, and must be of the channel the
  callback fills next (`FillsInPlace`). `SizeShrinksWhenQuiet`: the count of quiet
  ticks is a count of ticks (`SizerInv`).
  CpalCapture: `CaptureIsInPlace`: a ring of whole frames drops whole frames
  (`CaptureRingHolds`); the buffers in the channel have places in what was captured
  (`CaptureChannelHolds`).
  PulseCapture: `PulseSamplesStayInPlace`: the bytes queued follow one another from the
  caller's next sample to the next captured (`BytesFollow`). `PauseIsQuiet`: the last
  command queued is the one waited for, so an answer is that command's (`PausedInv`).
  StreamStats: `StatsAlwaysAddUp`: frames moved, handled and missed balance at each step
  of a callback (`Balanced`), and what is loaded one by one lies between the balance
  when the report began and the balance now (`Since`, `LoadedSince`).
  Conversions: `WhatChangesHandsStays`, from `ConversionAssumption` (floats down to a
  step of 24 bits, an order where there is no NaN, no PCM of 32 bits, indices from 0).
  The bytes on the wire are those of one number for each sample played (`SoundInv`:
  `OnWire`, `Coded`), as far from it as the hops allow and in its order (`Follows`).
  Reading gives those numbers back (`UnsignedIs`, `DecodeIs`, `HeardIs`), and writing
  makes of a sample the number that is near it (`RoundIsNear`) and keeps the order
  (`RoundIsMonotone`), the rounding of the product to 24 bits included: in steps of 24
  bits all of it depends on the sample's loudness alone (`RoundedIs`). A format that is
  no coarser than the last finds whole steps (`StepsInSteps`), so that it adds one step
  and not one and a half. Layouts: the places of a routing have ranks, one each from 0
  on and in the order of the indices (`Ranks`), which are the indices themselves where
  those have no gap (`RanksAreIndices`).
  TestTones: `TestSignalsKeepTime`, and with the theorem before it `SignalsAreExact`. From
  `ToneAssumption`: the buffer of a click track is, at every beat, a function of the
  frame and of the beats written (`ClickInv`, `ClickAt`): the envelope of the latest beat
  is whole, and what an earlier one left is overwritten; the truncated interval loses
  less than a frame a beat (`IntervalIs`).
* **DevicePartsProof.**
  CpalOpen: `OpensAllOrNothing` and `WhatOpensWasAsked` from `OpenInv`, which follows a
  call from question to question: the halves it has opened by then (`HalvesInv`), with
  which format, that the device offers it (`FormatInv`), and what the answers so far
  let an error say (`ErrorInv`).
  CpalDevices: `IndexAndTagAreNamed`: until something comes or goes, the listing and what
  is still to list are the outputs the host yields, each at its place (`ListingInv`), so
  a name looked up is found no later than where it was listed (`ChosenInv`).
  Session: `AnswersAreTheUsers`. The property says nothing of the blocks, so the
  invariant adds `BlocksTell` (a block that has stored a result has stored the
  decision, and its flag is raised no earlier) and `WaitsForOne` (who waits has a
  block to wait for).
  MonitorStream: `MonitorStops`: a call after the drop is the one whose look at the
  flag came before it (`MonitorInv`).
* **DeviceWatcherProof.** `TypeCorrect`; `SnapshotIsTold`: which part of a difference
  has been sent at every step of a poll; `EveryEventIsNews`, whose invariant
  (`LastTells`) ties the last event of each device to what was told;
  `EveryReaderCatchesUp`: device by device, a reader is right, or has something of it
  still to read, or lagged past the last that told of it (`ViewsFollow`);
  `NothingSentAfterDrop`: a dropped watcher's thread has ended (`DroppedEnds`).
* **ProtocolPartsProof.**
  MidiPorts: `MessagesArrive`: what is queued is what was sent (`ChannelInv`), a port
  stays at the place it was listed at (`ListedInv`, `OpenedInv`), and the listing, a
  fold over the outputs, leaves the inputs where they are (`ListingStartsWithInputs`).
  `ClockFollows`: the window is the end of the ticks since the last Start (`ClockInv`).
  JackAudio: `SamplesAreAccounted`: what was read, the two rings, the ports and the
  write under way are one stretch of samples; every callback moves one of them over a
  border (`HeadMoves`), and the stretch tells all that was written but what was dropped
  (`LoopInv`, with `Tells`).
  JackMidi: `NothingIsInvented` and `WholeSysExComesOut`, from `CableAssumption`. Fed
  all that is in the input's ring, on the wire and in the output's ring, the receiver
  becomes one that was given accepted messages only, in order, and so does every
  receiver on the way there (`Becomes`); what that last one holds is what was pushed of
  the message being sent (`Continues`). A step of the callbacks leaves the way as it is,
  `recv_with_sysex` takes its first entry, an event of another client's that gets into
  no message changes no receiver (`ForeignPasses`, `BecomesAnyhow`), and a chunk at its
  end makes the last receiver hold more or gives it the message (`ChunkIsTaken`).
  Without the last receiver the invariant is not inductive: of a message that failed
  half way it says that its bytes are cancelled by the next message, not finished by it.
  Once something was dropped or got into a message the way says nothing any more;
  `WholeSysExComesOut` does without it. Both folds, `feed` over bytes and
  `recv_with_sysex` over entries, are functions on how far they are (`FeedRuns`,
  `TakeRuns`).
  JackWiring: `StreamsWireTheirOwn`: nothing is wired before the server has named the
  client (`NamedBeforeWired`); a drop takes the port and its wires together.
* **NumberLemmas** holds what these share: the least and the greatest number of a set,
  induction over a set of numbers, remainders of frames and samples, the steps of a fold.

**Only model-checked.** Liveness, since the prover does not reach ENABLED and fairness:
`CallReturns`, `CallsReturn`, `StreamsReleased`, `KeepsTrying`, `NoConnectionLeaks`,
`Drains`, `ConvergesToPresent`, and the liveness halves of `PipeSpec` and `OutputSpec`.
What is computed by recursion over data: `RoundTrip`, `DamageIsContained` and
`PlaysOnTime` of SMF and `PacketsStayWhole` of OSC, whose operators are RECURSIVE. A
fold can be proved about when it is expanded into its steps (`FoldExists`, `FoldRuns`
and `FoldSteps` of NumberLemmas), as those of MidiPorts' listing, of CpalDevices'
outputs and of JackMidi's bytes are.

## 5. Not modelled, and why

* Examples, benches, fuzz targets and tests: they exercise the crates. * Builders,
accessors, serde and Display of `oxisound-core`, the formatting of device lists, and
wrappers that forward to one call of a modelled component: no behaviour beyond their
fields. * What a user's callback does with the buffer it is lent, and the asynchronous
output's write, which forwards to the ring of CpalRender. * The values of samples, but
for Conversions and the click track; PCM of 32 bits, which is beyond TLC's integers, and
floats with a part finer than 2^-23, which is a step of the finest format modelled;
latencies and transport queries of JACK, which only read. * SMPTE divisions and delta
times of 2^28 ticks or more (a hazard with a note). * The reactor of the `pulseaudio`
crate, JACK's server, cpal's hosts, the MIDI system and AVFoundation are external:
modelled by how the code uses them.

Relaxed atomics are modelled as sequentially consistent where each flag or counter is
read for itself, and where two variables matter together the code uses a ring or a
mutex that orders them; StreamStats alone reads several, and loads them in any order.

**Where the code and its texts differ without a run.** `device_by_index` opens the first
device whose name contains the listed one. `negotiate_output` ranks formats the opening
call ignores unless `preferred_formats` is given. Input and duplex rings may not hold
whole frames. A duplex open validates against the output's ranges only.
`open_output_with_capacity`'s seconds are lost at a reconnect. Callback streams take any
error for a disconnect, an xrun too (`device.rs:547`, `602`). `apply_interleaved` leaves
slots alone when the routing is an identity. For cpal, `stats().latency_frames` counts
samples, and drops of an input are not counted. A cut chunk of a PulseAudio capture
tears a frame (comment at `model.rs:352`). Outputs in a MIDI listing may stand at
another place than they open at. `HostApi::is_available` and `with_host` disagree on
Linux and on BSDs. A JACK device's `auto_connect_output` goes by the name it asked for
(`client.rs:259`), and `JackDevice::new` does not fail when "the name is already taken"
(`client.rs:81`): the server gives the client a numbered one. A SysEx event of another
client's that is longer than an entry is cut (`midi.rs:191`), and what of it arrives
never ends. An event of another client's that falls within a chunked SysEx message
cancels it, and `recv_with_sysex` returns the message's remaining entries among the
regular ones, which `midi.rs:159` calls non-SysEx entries. Long SysEx messages are not
put together by the process callback "before being written to the port" (`midi.rs:59`):
the output's writes each entry as an event (`midi.rs:122`), and only a `JackMidiInput`
puts them together. `decode` promises an error if the data is truncated
(`decode.rs:27`); some cuts leave a packet, see `TruncationInventsNothing`. An open
whose device fails to tell its default configuration says that the configuration is
unsupported (`error.rs:49`). An operation that timed out is not cancelled with its
future (`timeout.rs:110`): a CREATE stays queued, the server may make the stream, and no
DELETE follows (`stream.rs:288`) until the connection closes. A sine of several channels
is truncated to frames first: 25 ms at 3100 Hz in stereo are 154 samples, where
`oxisound/src/lib.rs:666` gives 155. A click decays linearly (`lib.rs:814`), not
exponentially (`lib.rs:780`). `click_track` does not end when a beat is shorter than a
frame. An asynchronous cpal input does not end when its device is lost. A guard's
statistics begin again at zero after a reconnect.

## 6. Plan

What is left to prove: the ownership of the streams of CpalRecovery, like AutoReconnect's.
