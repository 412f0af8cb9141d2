---------------------------- MODULE TransmitPath ----------------------------
(***************************************************************************)
(* The way of the input to the network.  The audio callback writes what    *)
(* the device delivers into the ingest buffer of the published input       *)
(* state, cuts it into network frames and queues them for the              *)
(* AudioTransmitWorker, each with the next transport command of the user.  *)
(* The message thread replaces the input state with every new channel      *)
(* setup; it frees an old one by an epoch that counts finished callbacks.  *)
(*                                                                         *)
(* Samples are counted, not stored.  A setup has a number of channels and  *)
(* a variant that stands for volumes, targets and names.                   *)
(***************************************************************************)
EXTENDS Naturals, Sequences, FiniteSets

CONSTANTS
  DeviceChannels,    \* channels of the open device
  Setups,            \* the setups of the user: [channels, variant]
  ChunkSizes,        \* samples of a chunk
  FrameSamples,      \* SAMPLE_BUFFER_SIZE
  IngestCapacity,    \* INGEST_RINGBUFFER_SIZE
  FrameCapacity,     \* of the transmit worker's queue
  CommandCapacity,   \* of midiSignalsToSend_
  MaxCommands, MaxSetups, MaxChunks   \* bounds

ASSUME TransmitAssumption ==
  /\ FrameSamples \in Nat \ {0} /\ ChunkSizes \subseteq 1..(IngestCapacity - FrameSamples + 1)
  /\ {DeviceChannels, IngestCapacity, FrameCapacity, CommandCapacity, MaxCommands, MaxSetups,
      MaxChunks} \subseteq Nat
  /\ \A s \in Setups : s.channels \in Nat

Buffers == 0..(MaxSetups + 1)

VARIABLES
  commands,      \* midiSignalsToSend_: numbered in the order of the user
  issued,        \* history: the commands that were accepted
  workerSetup,   \* channelSetup_ of the worker
  inputs,        \* every InputState made so far: setup, ingest buffer, freed or not
  publishedState,  \* inputState_
  retired,       \* retiredInputStates_
  completed,     \* completedAudioEpoch_
  setupPc, requested, epoch,   \* setChannelSetup and its locals
  chunkPc, inputState, chunks, \* processChunk, its local pointer, chunks so far
  ingest,        \* samples in every ingest buffer; buffer 0 is null
  frames,        \* queue_ of the worker: channels and command of every frame
  sent,          \* history: the commands that left, in order
  givenUp        \* history: commands in frames the worker took and did not send

commandVars == <<commands, issued>>
setupVars == <<workerSetup, inputs, publishedState, retired, setupPc, requested, epoch>>
chunkVars == <<completed, chunkPc, inputState, chunks, ingest>>
frameVars == <<frames, sent, givenUp>>
transmitVars == <<commandVars, setupVars, chunkVars, frameVars>>

NoSetup == [channels |-> 0, variant |-> 0]
NoCommand == 0

\* The constructor publishes a state without channels and without a buffer.
TransmitInit ==
  /\ commands = <<>> /\ issued = 0
  /\ workerSetup = NoSetup /\ publishedState = 1 /\ retired = {} /\ completed = 0
  /\ inputs = <<[setup |-> NoSetup, buffer |-> 0, freed |-> FALSE]>>
  /\ setupPc = "idle" /\ requested = NoSetup /\ epoch = 0
  /\ chunkPc = "out" /\ inputState = 0 /\ chunks = 0 /\ ingest = [b \in Buffers |-> 0]
  /\ frames = <<>> /\ sent = <<>> /\ givenUp = {}

-----------------------------------------------------------------------------
(* The message thread *)

\* setMidiSignalToSend: a full queue refuses the command.
SetMidiSignalToSend ==
  /\ issued < MaxCommands /\ Len(commands) < CommandCapacity
  /\ issued' = issued + 1 /\ commands' = Append(commands, issued + 1)
  /\ UNCHANGED <<setupVars, chunkVars, frameVars>>

\* Levels and pitches, which the worker fills in, are not compared.
IsEqualEnough(setup, other) == setup.channels = other.channels /\ setup.variant = other.variant

\* setChannelSetup: the worker gets the setup; one that is equal enough to the
\* published one changes nothing else.
SetChannelSetup ==
  /\ setupPc = "idle" /\ Len(inputs) <= MaxSetups
  /\ \E setup \in Setups :
       /\ workerSetup' = setup /\ requested' = setup
       /\ setupPc' = IF IsEqualEnough(inputs[publishedState].setup, setup) THEN "idle" ELSE "retire"
  /\ UNCHANGED <<commandVars, inputs, publishedState, retired, epoch, chunkVars, frameVars>>

\* completedAudioEpoch_ is read; what was retired before that epoch is freed and
\* the current state is retired with it.
RetireInputState ==
  /\ setupPc = "retire" /\ setupPc' = "publish" /\ epoch' = completed
  /\ LET freed == {r \in retired : r.epoch < completed}
     IN  /\ inputs' = [i \in DOMAIN inputs |->
                         [inputs[i] EXCEPT !.freed = @ \/ \E r \in freed : r.state = i]]
         /\ retired' = (retired \ freed) \cup {[state |-> publishedState, epoch |-> completed]}
  /\ UNCHANGED <<commandVars, workerSetup, publishedState, requested, chunkVars, frameVars>>

\* A new state, with the ingest buffer of the old one if it has as many channels.
PublishInputState ==
  /\ setupPc = "publish" /\ setupPc' = "idle" /\ publishedState' = Len(inputs) + 1
  /\ LET kept   == inputs[publishedState].setup.channels = requested.channels
         buffer == IF kept THEN inputs[publishedState].buffer
                   ELSE IF requested.channels = 0 THEN 0 ELSE Len(inputs) + 1
     IN  inputs' = Append(inputs, [setup |-> requested, buffer |-> buffer, freed |-> FALSE])
  /\ UNCHANGED <<commandVars, workerSetup, retired, requested, epoch, chunkVars, frameVars>>

-----------------------------------------------------------------------------
(* The audio callback: the input half of processChunk *)

ChunkBegins ==
  /\ chunkPc = "out" /\ chunks < MaxChunks /\ chunks' = chunks + 1
  /\ chunkPc' = "ingest" /\ inputState' = publishedState
  /\ UNCHANGED <<commandVars, setupVars, completed, ingest, frameVars>>

MatchesDevice(s) ==
  inputs[s].buffer # 0 /\ inputs[s].setup.channels = DeviceChannels

\* The block goes into the ingest buffer if the state fits the device and there
\* is room.
IngestBlock ==
  /\ chunkPc = "ingest"
  /\ IF MatchesDevice(inputState)
     THEN \E n \in ChunkSizes :
            LET b == inputs[inputState].buffer
            IN  /\ ingest' = IF n <= IngestCapacity - ingest[b] THEN [ingest EXCEPT ![b] = @ + n]
                             ELSE ingest
                /\ chunkPc' = "cut"
     ELSE chunkPc' = "outOfInput" /\ UNCHANGED ingest
  /\ UNCHANGED <<commandVars, setupVars, completed, inputState, chunks, frameVars>>

NextCommand == IF commands = <<>> THEN NoCommand ELSE Head(commands)
AfterTaking == IF commands = <<>> THEN <<>> ELSE Tail(commands)

HasCapacity == Len(frames) < FrameCapacity

\* enqueueFrom of the worker; without room the frame is only counted as dropped.
EnqueueFrom(channels, command) ==
  IF HasCapacity THEN Append(frames, [channels |-> channels, command |-> command]) ELSE frames

\* Mutant: the command is taken before the worker is asked for room.
CutFrameTakingCommand ==
  /\ chunkPc = "cut"
  /\ LET b == inputs[inputState].buffer
     IN  IF ingest[b] < FrameSamples
         THEN chunkPc' = "outOfInput" /\ UNCHANGED <<commandVars, ingest, frames>>
         ELSE /\ ingest' = [ingest EXCEPT ![b] = @ - FrameSamples]
              /\ frames' = EnqueueFrom(DeviceChannels, NextCommand) /\ commands' = AfterTaking
              /\ UNCHANGED <<issued, chunkPc>>
  /\ UNCHANGED <<setupVars, completed, inputState, chunks, sent, givenUp>>

\* One turn of the loop: a frame is queued with the next command, or without
\* room for it discarded, and the command waits.
CutFrame ==
  /\ chunkPc = "cut"
  /\ LET b == inputs[inputState].buffer
     IN  IF ingest[b] < FrameSamples
         THEN chunkPc' = "outOfInput" /\ UNCHANGED <<commandVars, ingest, frames>>
         ELSE /\ ingest' = [ingest EXCEPT ![b] = @ - FrameSamples]
              /\ IF HasCapacity
                 THEN frames' = EnqueueFrom(DeviceChannels, NextCommand) /\ commands' = AfterTaking
                 ELSE UNCHANGED <<commands, frames>>
              /\ UNCHANGED <<issued, chunkPc>>
  /\ UNCHANGED <<setupVars, completed, inputState, chunks, sent, givenUp>>

\* The rest of the chunk still reads the state (local monitoring); then the epoch.
ChunkEnds ==
  /\ chunkPc = "outOfInput" /\ chunkPc' = "out" /\ inputState' = 0
  /\ completed' = completed + 1
  /\ UNCHANGED <<commandVars, setupVars, chunks, ingest, frameVars>>

-----------------------------------------------------------------------------
(* AudioTransmitWorker *)

\* processFrame: a frame that does not fit the setup of now is dropped, and so is one
\* for which the session has no sender or whose datagram the socket does not take.
\* Nobody puts its command back.
ProcessFrame ==
  /\ frames # <<>> /\ frames' = Tail(frames)
  /\ LET command == {Head(frames).command} \ {NoCommand}
         fits    == Head(frames).channels = workerSetup.channels
     IN  \E hasSender, taken \in BOOLEAN :
           IF fits /\ hasSender /\ taken
           THEN /\ sent' = IF command = {} THEN sent ELSE Append(sent, Head(frames).command)
                /\ UNCHANGED givenUp
           ELSE givenUp' = givenUp \cup command /\ UNCHANGED sent
  /\ UNCHANGED <<commandVars, setupVars, chunkVars>>

TransmitNext ==
  \/ SetMidiSignalToSend \/ SetChannelSetup \/ RetireInputState \/ PublishInputState
  \/ ChunkBegins \/ IngestBlock \/ CutFrame \/ ChunkEnds
  \/ ProcessFrame

TransmitSpec == TransmitInit /\ [][TransmitNext]_transmitVars

-----------------------------------------------------------------------------
(* Properties *)

\* Start and Stop leave in the order of the user and at most once.  An accepted
\* command is in one place only: it waits, it is in a queued frame, it was sent, or the
\* worker gave it up with the frame it was in.  A frame queue without room loses none,
\* and nothing newer overtakes one that is still to be sent.
TransportAccounted ==
  LET waiting == {commands[i] : i \in DOMAIN commands}
      queued  == {frames[i].command : i \in DOMAIN frames} \ {NoCommand}
      left    == {sent[i] : i \in DOMAIN sent}
  IN  /\ 1..issued = waiting \cup queued \cup left \cup givenUp
      /\ \A c \in left \cup givenUp, q \in queued : c < q
      /\ \A c \in left \cup givenUp \cup queued, w \in waiting : c < w
      /\ \A i \in 1..(Len(sent) - 1) : sent[i] < sent[i + 1]
      /\ left \cap givenUp = {}

\* The input state a callback works with is not freed under it.
InputStateAlive == chunkPc # "out" /\ inputState # 0 => ~inputs[inputState].freed
=============================================================================
