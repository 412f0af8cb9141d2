# A TLA+ verification of JammerNetz

JammerNetz lets musicians play together over the Internet. Every client sends
uncompressed audio in UDP datagrams of 128 samples (one every 2.7 ms) to a
server, which mixes what it received for each client and sends the mixes back.
The network loses, repeats, delays and reorders datagrams and nothing is
retransmitted, so the work is done by queues, concealment and time-outs; in the
client an audio callback that may not block meets workers, a network thread and
the message thread. This directory models both in TLA+, checks the models with
TLC on small instances, and proves nearly all safety properties of queue, server
and client with TLAPS for every value of the constants.

## 1. The system

### Components

| Component | State it keeps | Operations | Talks to |
|---|---|---|---|
| `PacketStreamQueue` | heap of packets, index of queued counters, play position, gap length, statistics | `push`, `try_pop`, `fastForwardToSize`, `reset` | owned by `ClientState` (server, under a mutex) and `AudioReceiveWorker` (client, one thread) |
| `ClientState` | connection state, queue or none, grace deadline, activity generation | `push`, `tryPop`, `applyQueuePressure`, `markUnderrun`, `disconnectIfGraceExpired` | AcceptThread and MixerThread at the same time, each call under its mutex |
| `ServerMixScheduler` | counts and observations within one `process` | `process` | calls every `ClientState` several times per pass |
| `AcceptThread`, `MixerThread`, `SendThread`, `Server` | `wakeUpQueue_`, `sendQueue_` (128 packages), exit flags, FEC rings, package counters | `run` loops, control messages, `~Server` | blocking pops: accept → mixer → send |
| `ServerMixerCore` | server time, last tempo | `mix` | one set of packets in, one package per client out |
| Wire format | – | `serialize`, `deserialize` of audio, session, client info and control messages, two protocol versions | every datagram |
| `PathMtuDiscovery`, `Client`, `DataReceiveThread` | bounds of the search, probe, deadlines; server, key, counter; whether it receives | `poll`, `acknowledge`, `setSupported`; `sendData`, `setServer`, `setCryptoKey`, `setUseFEC`; `run` | transmit worker sends, message thread reconfigures, network thread receives |
| `AudioReceiveWorker`, `AudioTransmitWorker`, `AudioRecordingWorker` | bounded queues, generations, requested resets, playout range | `run` loops, `enqueue`, `requestReset`, `setPlayoutRange` | between audio callback and network or disk |
| `JammerNetzAudioEngine`, `JammerNetzSession` | playout buffer and timing markers, input state and epochs, shutdown guard, MIDI sender and hazard pointer, tempo mailbox | `start`, `shutdown`, `process`, `setChannelSetup`, `newServer`, `restartClock`, `setClientBpm` | audio callback, message thread, workers |
| `AudioService` | device, restart generation, pending permission | `restartAudio`, `stopAudioIfRunning`, `shutdown` | sound device, user interface |
| Plug-in processor | process gate, lease of the one active instance, configuration | `processBlock`, `connectSession`, `disconnectSession`, `setConfiguration`, `get`/`setStateInformation` | host threads |
| `Recorder`, `MidiSendThread` | generation of a recording; queue of timed MIDI messages | `setRecording`, `saveBlock`; `enqueueAt`, `run` | recording worker; audio callback |
| User interface, statistics, logging | layout, mean values, console output | – | – |

`PROJECT.json` lists every component with its sources and what is modelled.

### What is hard, and what makes each part correct

* **Queue.** Late, repeated and reordered packets around concealed gaps and
  latency rebases. Numbers are given out in increasing order, every packet taken
  is played once or dropped on purpose, gaps close after two substitutes.
* **Scheduler.** `process` is a sequence of locked calls; the AcceptThread pushes
  between any two of them, so every decision is taken on an observation that may
  be stale. No audio is destroyed by such a decision, a mix that passed the
  barrier is complete and leaves the jitter reserve, latency stays bounded,
  wake-ups are neither lost nor invented, grace periods end.
* **Server threads.** Blocking pops in a chain, an empty package as a stop sign, a
  bounded queue whose overflow ends the process, a destructor that signals and
  joins in a certain order.
* **Mix and redundancy.** What a client hears of a lost block is rebuilt from the
  next one: it must invent no transport command and no time, and silence no
  block that arrived.
* **Transport.** Server, key and switches are replaced by separate calls under
  separate locks while datagrams are sent, and the old server's answers are still
  under way.
* **Path MTU discovery.** Acknowledgements that are late, repeated or of an
  earlier search; loss that looks like a limit; integer rounding.
* **Client playout.** Four threads; a reset is a number that worker and callback
  notice at different times. Nothing of the old server may be played as new,
  markers and samples stay together, nothing buffered stays for good.
* **Life cycle.** The callback checks, announces itself and checks again; the
  message thread requests, waits and destroys. What is destroyed must be out of
  use; a shutdown must end.
* **Lock-free sharing.** A hazard pointer for the MIDI sender, epochs for the input
  state, a counted gate in the plug-in.
* **Tempo.** Every client may set it and every client shows it, through sliders
  that report programmatic changes as if a user had made them: it must settle.

The hazards, each at its line, are in `PROJECT.json`.

## 2. The modules

| Module | Models |
|---|---|
| `StreamQueue` | the methods of `PacketStreamQueue` as operators from queue to queue; used by every module with such a queue |
| `OrderedPlayout` | what the queue promises (abstract specification): a play position that only moves forward |
| `PacketStreamQueue` | the queue as a component, with statistics and history |
| `ClientState` | the methods of `ClientState` as operators from client to client, counters modulo `CounterModulus` |
| `MixScheduler` | AcceptThread's audio path, MixerThread, `process` call by call; composes `ClientState` |
| `ServerThreads` | the three `run` loops, their queues, `~Server`; packets and mixes are ticks and packages |
| `WireFormat` | what of each message is written and read, in both protocol versions |
| `RingOfAudioBuffers` | the ring SendThread takes redundant blocks from |
| `SessionMix` | `ServerMixerCore`, SendThread and the client's concealment over a network with loss; uses `WireFormat`, `RingOfAudioBuffers` |
| `Transport` | `Client`, `DataReceiveThread`, AcceptThread's control path; uses `WireFormat` |
| `PathMtuDiscovery` | the search and the probe exchange |
| `ReceivePath` | network thread, receive worker, playout in the callback, requests of the message thread; uses `StreamQueue` |
| `TransmitPath` | ingest in the callback, transmit worker, `setChannelSetup` |
| `Recording` | recording worker and `Recorder` |
| `MidiClock` | clock pulses, the sender's queue, replacement of the sender |
| `Tempo` | sliders, mailboxes, the tempo the server keeps |
| `ClientLifecycle` | start and shutdown of session and engine in the application and in the plug-in, with gate and lease |
| `PluginConfiguration` | the plug-in's configuration, its limits, saving and restoring; used by `ClientLifecycle` |
| `AudioControl` | `AudioService`'s starting and stopping of the device |
| `MCPacketStreamQueue`, `MCReceivePath`, `MCParts` | instances for TLC |
| `StreamQueueProofs` | lemmas on largest and smallest numbers and on the queue's methods |
| `PacketStreamQueueProofs`, `MixSchedulerProofs`, `PathMtuDiscoveryProofs`, `SessionMixProofs` | proofs for the module of that name |
| `ThreadProofs` | proofs for `ServerThreads`, `MidiClock` (hazard pointer), `AudioControl`, `ClientLifecycle` |
| `DeliveryProofs` | proofs for `TransmitPath`, `MidiClock` (pulses), `Recording` |
| `ReceivePathProofs` | proofs for `ReceivePath`, `Transport` |

Operators named "Mutant" in a comment are plausible faults of the definition that
follows them; with the mutant in its place the property it is paired with in
`PROJECT.json` fails.

### How state and actions correspond to the code

*Queue.* A packet is its counter and the counter of the redundant block it
carries. `packetQueue` is a set because the heap is ordered by the counter and
holds each counter once, which is proved rather than assumed: the index is a
separate field, changed where the code changes it. A call is one step, as its
callers make it one.

*Scheduler.* `mixPc` and `cursor` follow the three loops of `process`; one step
is one locked call on one client. `now` is read once per pass. `AcceptAudio` is
`processAudioMessage` up to the end of `push`; the tick is a step of its own. Any
counter from `FirstCounter` on may arrive from any client at any time, which
includes loss, duplication, reordering, and a client that starts over behind the
same address.

*Server threads.* A `pc` per thread. `stopThread(1000)` returns when the thread has
left, and kills it otherwise once the second is over. A thread asleep in a pop that
nobody answers is still there then; of the others it is assumed that `StopTurns` turns
of their loop are over before (in a turn the AcceptThread waits 250 ms at most, the
others only compute and send), so one that has taken as many may be killed in its
work, and whether one ever is, is a property. `exit(-1)` is the state `crashed`.

*Mix.* A block is its counter, time, signal and whose audio it holds; the packets
of the clients are serialised and read with `WireFormat`, so a field that is not
transmitted is not there. Two packets that share a sample buffer in the code share
it in the model. The loop over the clients runs in the order of their addresses, as
over the `std::map`: `InOrder` holds the one sequence in that order, and the signal is a
recursive function along it. Sides are sets of channels heard; volumes are left out.

*Transport.* One step per lock: the server is read under `serverLock_`, the key
under its own lock, and `socketLock_` keeps one datagram from another. Decryption
succeeds exactly with the server's key. `updateConfiguration` is one step per call.

*Path MTU discovery.* The two deadlines are only compared with the present, so each
is a flag that time raises. `delivered` holds the probes that reached the server;
each may be acknowledged at any later time, any number of times, or never.

*Playout.* Audio is the generation that was requested when its packet arrived;
samples are counted. Steps are the accesses to shared variables: the worker's reset
check, its draining with the load of the minimum, its queue check with the load of the
maximum and its preparation are separate, the callback's reset, its fetching of frames
and its playing too. `newServer` and `setPlayoutRange` are two steps each, as they are
two stores. A fill-in comes from the packet after the gap.

*Input.* The published input state is an index, freed or not. `RetireInputState`
reads the epoch and retires, `PublishInputState` publishes; a callback may finish
or begin in between. `ProcessFrame` takes a frame and sends it, or gives it up: it does
not fit the setup, there is no sender, or the datagram is refused.

*MIDI clock.* The hazard pointer's protocol is load, protect, validate, use. Time is
in samples and the pulse arithmetic is on whole numbers.

*Life cycle.* `message` holds the steps the message thread has still to do, so an
operation of several calls is a sequence of steps between which other threads run.
The gate is one number with its closing bit above `GateHalf`. A worker is busy
while it holds a pointer into the session.

*Device.* Button, debouncer, permission and the answer to it are separate steps of
one thread; requests carry the restart generation they were made with.

*Tempo.* One step per timer, asynchronous call, slider notification, frame and mix.
Only tempos are used that survive the conversions between float, double and the
slider's steps.

## 3. The runs

| Run | Checks | Bounds and why they are enough |
|---|---|---|
| `queue` | accounting, order, refinement of `OrderedPlayout`, no starvation; a lone client's queue drains, grace periods end | counters 0..4, four arrivals, rebase to 0, 1 or 2, redundancy up to two back: gaps up to the whole range, rebases in the middle of a gap. Scheduler with one client, four arrivals, two clock steps |
| `scheduler` | six safety properties | two clients, jitter 1, maximum 2, prefill 1, five arrivals, one outstanding time-out, grace of one clock step: reaches fast-forwards, barrier mixes, underruns, recovery and reconnection |
| `receive` | generations, markers, latency, playout goes on; control messages and display agree with the configuration | five counters and two requests with frames of two and blocks of three samples, so blocks end inside frames; queues of two and three, so both fill up; ranges of one and of two frames, so that a minimum of two meets a maximum of one and the other way round. Transport: two servers, one of them legacy, three configurations of which one has a wrong key, two updates, one loss |
| `parts` | life cycle (application and plug-in), recording, device, input, mix | five operations of the message thread, so prepare, connect, disconnect, connect, disconnect; two recordings of four blocks; four presses of the button; three commands, two setups, four chunks; three mixes for a current and a legacy client, each made when the last one has been sent |
| `parts_live` | MIDI, MTU, server threads, and what must end | two senders and three frames; one move of a slider per client; three targets and five paths: below the fallback, on and between targets, directly below and on the last, two attempts, two searches; a send queue of three that fills up; the life cycle of the application |
| `scheduler_stall`, `threads_stop`, `session_ends`, `gate`, `echo`, `input_state`, `silenced` | *violated*, see findings | |

**Several parts in one run.** The modules that `MCParts`, `MCReceivePath` and
`MCPacketStreamQueue` bring together share no variable. A behaviour of all of them
together, projected to one part, is a behaviour of that part, and every property
speaks of one part; so it is enough to let one part move, chosen by `focus` in the
initial state, and hold the others. `parts` moves both hosts; `parts_live` moves
the application only, whose shutdown is the one with a property of liveness (a
plug-in's disconnection may wait forever after what `gate` shows).

**Bounds in guards.** Constants named `Max...` limit the environment or counters
that the code leaves unbounded; they are named with the constants of their module.
Capacities (`SendCapacity`, `InputCapacity`, `MarkerCapacity`...) are the code's own
limits, made small so that they are reached.

**Fairness.** Threads that have something to do go on: the consumer of a queue pops
once per audio block, the server's and the client's threads run, an operation of
the message thread that has begun is finished, the AcceptThread times out while
nothing arrives, time passes. The transmit worker polls for MTU probes with every
packet it sends. The transport worker sends at most `MaxMeanwhile` frames during
one update of the configuration, as it pauses 2.7 ms between two, and the network
loses at most `MaxLosses` datagrams. For the tempo the network does not lose every
frame of a client (strong fairness of the mix that uses one). That a packet arrives
at a queue, that users do anything, or that anybody stops the server, is nowhere
assumed.

**Deadlock** is not checked where a part may stop because its bounded environment
has nothing left to do or everything has been shut down; there the liveness
properties say what must still have happened.

### Findings

* `scheduler_stall` – `Main.cpp:157` describes `--wait` as the buffer length "before
  continuing mixing". With two connected clients of which one falls silent, the
  other's queue reaches that length, is cut back and mixing does not continue: the
  barrier of `process` returns before any client is popped, so the silent one is
  never found empty and never expires.
* `threads_stop` – `AcceptThread.cpp:144` says the time-out wakes the MixerThread so
  that it can check whether to terminate. The AcceptThread can notice its own flag
  after a datagram that earns no tick and leaves without that wake-up; the
  MixerThread stays in its blocking pop until `stopThread` kills it.
* `session_ends` – `docs/audio-engine-refactoring-plan.md:52` says workers complete
  before network state is destroyed. `AudioService::shutdown` and
  `disconnectSession` end the session first; the transmit worker may be sending
  through the `Client` at that moment.
* `gate` – `JammerNetzPluginProcessor.cpp:296` relies on the process gate. Its count
  is overwritten by two plain stores of zero, so a callback that read the open gate
  early can be inside uncounted when the receiver is destroyed.
* `echo` – `docs/multi-instance-plugin-architecture.md:38` says a sender can have its
  own channels left out of its mix. The request is written to the wire and never
  read.
* `input_state` – `docs/audio-engine-refactoring-plan.md:53` says no callback targets
  an object whose destruction has begun. `setChannelSetup` reads the epoch before it
  publishes; a callback that ends in between makes a state look unused that a second
  callback has just fetched.
* `silenced` – the second substitute of a gap shares its sample buffer with the packet
  it was made from; clearing it silences the packet that arrived and is given out
  next (`PacketStreamQueue.cpp:99`).

## 4. The proofs

All proofs are for every value of the constants allowed by the named assumption of
the module (`QueueAssumption`, `SchedulerAssumption`, `LifecycleAssumption` and so on,
in the module that declares the constants). The bounds of the environment, arrivals,
time, searches, operations, are arbitrary naturals there, and so are the capacities,
the frame and block lengths and the number of clients. In each case the property is
not inductive; what follows is the invariant that is, in words.

* **Queue** (`StreamQueueProofs`, `PacketStreamQueueProofs`). Each method keeps
  `WellFormed`: index exact, content ahead of the position, and `GapIsClosing`, the
  strengthening that makes the bound on gaps inductive: after the second substitute
  the position is directly before the head of the heap, so the next pop is a real
  packet. Together with the bookkeeping invariant this gives `TypeOK`,
  `IndexMatchesHeap`, `QueuedIsAhead`, `GapBounded`, `LengthIsPushedMinusPopped`,
  `AcceptedPacketsAccountedFor`, `GivenOutInOrder`, and the refinement of
  `OrderedPlayout`, step by step.
* **Scheduler** (`MixSchedulerProofs`). For any number of clients. The inductive
  invariant says, of every client, that its queue is well formed, absent exactly when
  disconnected, and empty in a grace period; of a remembered activity generation,
  that if it is still current the queue is still empty (this is why the stale
  decision is safe); of a client counted as ready, that its queue stays longer than
  the jitter length until it is popped; of a client already popped in a barrier mix,
  that its contribution is recorded. `UnderrunIsReal`, `ReconnectIsHeard`,
  `MixIsComplete`, `JitterReserveKept` and `LatencyBounded` follow.

  `PrefillLasts` is about runs without time-outs and fast-forwards, in which nobody
  leaves. `SteadyInv` says of them that everybody has the padding; that in the first
  loop a client that joined behind the cursor has a packet to spare, and one that is
  or will be counted has one too or is not the only one; that in the second loop
  whoever is not popped yet has one to spare; and, for a client that is alone, that
  every tick, every announced tick and a pass under way each stand for one packet
  above the padding. It needs a prefill no longer than the jitter length and below
  the first counter. The defaults are 3, 3 and 10 (`Client.cpp:29`: "because of the
  pre-fill on server side, can't be 0"), and without either condition TLC finds the
  padding used up.
* **Path MTU discovery** (`PathMtuDiscoveryProofs`). The invariant adds to the
  properties that bounds and candidate are multiples of eight, that an id names one
  probe for good, that the active probe asks about the candidate, and that a bound
  not set by misjudged loss exceeds the path by less than eight bytes.
* **Server threads** (`ThreadProofs`, `ThreadsInv`). The mixer leaves only after its
  flag is up, the SendThread's was up before; a stop package exists only after the
  mixer has left; and a SendThread in its blocking pop after that has something to
  pop, which is what a refused stop package on a full queue threatens. A thread that
  the destructor waits for was signalled before, so it checks its flag before it can end
  a second turn. Hence `StopPackageNeverSent`, `SendFollowsMixer` and `KilledOnlyAsleep`.
* **MIDI sender** (`SendersInv`). What the callback works with it has announced
  before it looked again, so it is the published sender, which runs, or the retiring
  one, whose destruction waits for the announcement: `UsedSenderLives`.
* **Audio device** (`ControlInv`). A switch that is on without a device waits for an
  answer of the current generation, all other answers change nothing:
  `DeviceMatchesSwitch`, `SetupMatchesDevice`.
* **Life cycle** (`LifecycleInv`). The message thread's remaining steps are the rest of
  an operation (`FlowInv`: a chain of allowed pairs of steps); at each step it is
  stated what has been done and what still holds, as in an annotated program. Before
  the workers' queues are reset the request is up, no callback is past its second
  check and the receiver is gone: `QueuesQuiescent`. A plug-in holds the lease as long
  as anything runs and has a session only while it is connected or being
  disconnected: `ConnectedIsSound`.
* **Transport commands** (`DeliveryProofs`, `TransportInv`). Waiting commands are the
  last ones given; those in queued frames are newer than all that the worker has dealt
  with and older than what waits, each in order; what the worker has dealt with it sent,
  in order, or gave up with its frame, and never both: `TransportAccounted`.
* **MIDI pulses** (`PulseInv`). The pulses handed over are those that fall into the
  frames played so far: `EveryPulseOnce`.
* **Recording** (`RecordingInv`). What was accepted for the recording that is on is in
  its file or queued; a block that passed the check may be outdated when saved, but
  then nothing was saved to the newer file yet. `FilesAreSeparate` and
  `NothingLostAtExit` follow.
* **Client playout** (`ReceivePathProofs`). `WorkerInv`: all that waits
  arrived after the reset applied last (`GenerationIsHonest`).
  `FreshInv`: outside the message thread's two stores the callback expects what was
  requested last, and unless it still has to drop what it holds, holds nothing else
  (`PlayedIsFresh`). `MarkerInv`: less than a block and a frame is buffered and the last
  marker lies a whole frame before the end, so no marker outlives its samples
  (`MarkersKeepStep`). `LatencyInv`: every bound in use was stored once, in whatever
  mixture of old and new, so the largest one holds (`LatencyBounded`).
* **Control messages** (`LinkInv`). Once the update has sent it, the control message is
  under way and the last of its kind, or it is through and no older one is under way:
  `ControlReachesServer`.
* **Mix and session** (`SessionMixProofs`). For any number of clients, channel setups,
  block length, ring, period and losses.
  `NobodyIsMissed` needs of the state only that setups are setups; the work is in
  lemmas: what of a packet survives `WireFormat`, the sides of a target in the mix and in
  the local monitoring case by case, and that the loop over the clients lets a Stop win
  whatever their order (by the smallest position where it would not). The property is
  about what is heard in all and holds whether own channels are returned or monitored
  locally; that the code does both at once is the finding `echo`.
  `QueueInv`: counters and times of a client's packages increase by at least one, and
  what waits in the queue is exactly what was produced and not sent, in order for every
  client; so what SendThread takes next is the first package of its target not sent
  yet. `RosterInv`: the session shown is that of a package that began a period, and
  since then no more periods began than session messages were lost; `SessionIsRecent`
  follows. `RingsInv`: the last block of a ring is the one sent to this client before,
  also when the ring is full. `HeardInv`: what arrived was sent, nothing that arrived
  is newer than what was given out last, which arrived itself, and everything given out
  stands for the block of its counter; `PlayedIsHonest` follows. That its time is exact
  is proved in a stronger form: whenever all blocks produced have their counter as
  time, so has all that is played.

Only model-checked is liveness (`NothingWaitsForever`, `LoneClientIsMixed`, `GracePeriodEnds`,
`BufferedIsPlayed`, `ClientSettles`, `ShutdownEnds`, `RetirementEnds`, `TempoSettles`,
`SearchEnds`), which is out of the prover's reach. No safety invariant of a passing run is left without a theorem.

## 5. Not modelled, and the plan

Open questions of configuration: a prefill as large as the first counter (the padding
wraps) and a maximum not above the jitter length (no barrier mix at all). The models
contain both; nothing in the repository says what should happen, so no property is
stated.

Left out, with the reason:

* sample arithmetic, gains, levels, pitch and the spectrum: floating point, on which
  no decision depends;
* statistics of jitter and latency, getters, logging, layout and painting;
* the cipher (keys are equal or not), file formats, MIDI device names, sockets and the
  enumeration of sound devices, which are the work of libraries;
* a system that cannot forbid fragmentation (`Client.cpp:178`): such a client never
  probes, which no other part depends on;
* the rounding of floating-point numbers in the positions of MIDI pulses
  (`JammerNetzAudioEngine.cpp:405`): positions are whole numbers in the model;
* the client's `stopThread` calls are joins: their forced kill after the time-out, which
  needs a worker that hangs, is not modelled (in the server it is);
* `MidiPlayAlong` and `Pool`, which nothing uses, the `FAKE_DROPS` and
  `SECURITY_CHECK_PACKAGE_FROM_SERVER` builds, which are off;
* tests, about a third of the repository's code, and the deployment scripts.

## 6. Running

`tlc -config X.cfg M` for the module and configuration of a run in `PROJECT.json`;
`tlapm M.tla` for each of the proof modules. The longest run, `receive`, takes about
three minutes with two workers.
