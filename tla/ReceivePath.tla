----------------------------- MODULE ReceivePath -----------------------------
(***************************************************************************)
(* The way of the server's mix through the client, and the four threads    *)
(* that meet on it: the network thread puts packets into inboundQueue_,    *)
(* the AudioReceiveWorker orders them in its PacketStreamQueue and         *)
(* prepares frames in outputQueue_, the audio callback moves the frames    *)
(* into playoutBuffer_ and plays them, and the message thread asks for a   *)
(* new server, another playout range or a reconnection at any moment.      *)
(*                                                                         *)
(* Audio is abstracted to where it comes from: the generation that was     *)
(* requested when its packet arrived.  Packets arrive in order here, with  *)
(* losses; reordering and repetition are PacketStreamQueue's subject.      *)
(***************************************************************************)
EXTENDS StreamQueue, Sequences

CONSTANTS
  MaxCounter,       \* bound: the last message counter the server sends
  MaxRequests,      \* bound: calls of newServer and of setPlayoutBufferRange
  InputCapacity,    \* inputCapacity (512)
  OutputCapacity,   \* outputCapacity (256)
  MarkerCapacity,   \* maxPlayoutTimingMarkers
  FrameSamples,     \* SAMPLE_BUFFER_SIZE (128), in units
  BlockSamples,     \* numSamples of a callback, in the same units
  PlayoutRanges     \* <<minimum, maximum>> pairs of setPlayoutBufferRange

ASSUME ReceiveAssumption ==
  /\ MaxCounter \in Nat /\ MaxRequests \in Nat
  /\ InputCapacity \in Nat \ {0} /\ OutputCapacity \in Nat \ {0}
  /\ MarkerCapacity \in Nat \ {0}
  /\ FrameSamples \in Nat \ {0} /\ BlockSamples \in Nat \ {0}
  /\ PlayoutRanges \subseteq (Nat \ {0}) \X (Nat \ {0}) /\ PlayoutRanges # {}
  /\ IsFiniteSet(PlayoutRanges)

VARIABLES
  sent,        \* the counter the server sent last
  inbound,     \* inboundQueue_: message counters
  origin,      \* history: the generation requested when a counter arrived
  workerPc,    \* which part of processNextFrame is next
  least, limit,  \* its local minimum and maximum
  queue,       \* packetQueue_
  streamStarted, recovering, activeGeneration,
  out,         \* outputQueue_: frames with their generation and their origin
  minimumFrames, maximumFrames, rebufferRequested, requestedGeneration,
  expectedGeneration, resetPlayoutRequested,
  callbackPc,  \* "idle", or inside processChunk
  playout,     \* playoutBuffer_: the origin of every sample
  markers, samplesWritten, samplesRead,
  isPlaying,
  messagePc,   \* where the message thread is in its operation
  wanted,      \* its argument: the maximum still to be stored
  connected,   \* session and engine run
  requests     \* operations so far

networkVars == <<sent, inbound, origin>>
workerVars == <<workerPc, least, limit, queue, streamStarted, recovering, activeGeneration>>
sharedVars == <<minimumFrames, maximumFrames, rebufferRequested, requestedGeneration,
                expectedGeneration, resetPlayoutRequested>>
playoutVars == <<playout, markers, samplesWritten, samplesRead, isPlaying>>
messageVars == <<messagePc, wanted, connected, requests>>
vars == <<networkVars, workerVars, out, sharedVars, callbackPc, playoutVars, messageVars>>

AtLeast(minimum, maximum) == IF minimum > maximum THEN minimum ELSE maximum

Init ==
  /\ sent = 0 /\ inbound = <<>> /\ origin = [c \in 1..MaxCounter |-> 0]
  /\ workerPc = "idle" /\ least = 0 /\ limit = 0 /\ queue = EmptyQueue
  /\ streamStarted = FALSE /\ recovering = FALSE /\ activeGeneration = 0
  /\ out = <<>>
  /\ \E range \in PlayoutRanges : minimumFrames = range[1]
                               /\ maximumFrames = AtLeast(range[1], range[2])
  /\ rebufferRequested = FALSE /\ requestedGeneration = 0
  /\ expectedGeneration = 0 /\ resetPlayoutRequested = FALSE
  /\ callbackPc = "idle" /\ playout = <<>> /\ markers = <<>>
  /\ samplesWritten = 0 /\ samplesRead = 0 /\ isPlaying = FALSE
  /\ messagePc = "idle" /\ wanted = 0 /\ connected = TRUE /\ requests = 0

-----------------------------------------------------------------------------
(* BoundedSpscQueue: a write to a full queue and a read of an empty one fail. *)

TryWrite(q, item, capacity) == IF Len(q) < capacity THEN Append(q, item) ELSE q

-----------------------------------------------------------------------------
(* The network thread *)

\* A packet of the server arrives; the one before it may have been lost.
Arrive ==
  /\ connected
  /\ \E ctr \in {sent + 1, sent + 2} \cap 1..MaxCounter :
       /\ sent' = ctr
       /\ inbound' = TryWrite(inbound, ctr, InputCapacity)
       /\ origin' = [origin EXCEPT ![ctr] = requestedGeneration]
  /\ UNCHANGED <<workerVars, out, sharedVars, callbackPc, playoutVars, messageVars>>

-----------------------------------------------------------------------------
(* AudioReceiveWorker::processNextFrame *)

\* The queue after everything in inboundQueue_ has been pushed: arrivals are in
\* order, so nothing is rejected but what is not ahead of the last pop.
Drained(q) ==
  LET fresh == {c \in {inbound[i] : i \in 1..Len(inbound)} : c > q.lastPopped}
  IN  [q EXCEPT !.packetQueue = @ \cup {[ctr |-> c, fec |-> NoFec] : c \in fresh},
                !.currentlyInQueue = @ \cup fresh]

Combined(q) == Len(out) + Size(q)

\* Mutant: only the ordered packets are counted against the maximum.
OverrunOfPackets(q) == Size(q) > maximumFrames

Overrun(q) == Combined(q) > maximumFrames

\* try_pop is called while more than the minimum waits.  The fill-ins it yields
\* on the way are discarded too, so the last one is a packet.
DiscardToMinimum(q) ==
  LET n    == IF least > Len(out) THEN least - Len(out) ELSE 0
      gone == Discarded(q, n)
  IN  IF gone = {} THEN q
      ELSE [q EXCEPT !.packetQueue = NewestPackets(@, n),
                     !.currentlyInQueue = @ \ {p.ctr : p \in gone},
                     !.lastPopped = Max({p.ctr : p \in gone}),
                     !.hasPoppedData = TRUE,
                     !.currentGap = 0]

\* Mutant: the recovery from an overrun never ends.
ChecksStayBehind ==
  LET over == recovering \/ Overrun(queue)
      kept == IF over THEN DiscardToMinimum(queue) ELSE queue
  IN  /\ queue' = kept
      /\ recovering' = over
      /\ streamStarted' = (streamStarted \/ Size(kept) >= least)

\* The recovery from an overrun and the start of the stream.
Checks ==
  LET over == recovering \/ Overrun(queue)
      kept == IF over THEN DiscardToMinimum(queue) ELSE queue
  IN  /\ queue' = kept
      /\ recovering' = (over /\ Combined(kept) > least)
      /\ streamStarted' = (streamStarted \/ Size(kept) >= least)

\* Mutant: what waits in inboundQueue_ survives the reset.
ResetKeepsInbound ==
  /\ queue' = EmptyQueue /\ streamStarted' = FALSE /\ recovering' = FALSE
  /\ activeGeneration' = requestedGeneration
  /\ UNCHANGED inbound

\* Both queues are emptied and the stream starts over under the new generation.
ApplyReset ==
  /\ inbound' = <<>>
  /\ queue' = EmptyQueue /\ streamStarted' = FALSE /\ recovering' = FALSE
  /\ activeGeneration' = requestedGeneration

ApplyResetIfRequested ==
  /\ workerPc = "idle" /\ connected /\ workerPc' = "drain"
  /\ IF requestedGeneration # activeGeneration THEN ApplyReset
     ELSE UNCHANGED <<inbound, queue, streamStarted, recovering, activeGeneration>>
  /\ UNCHANGED <<sent, origin, least, limit, out, sharedVars, callbackPc, playoutVars,
                 messageVars>>

\* drainInbound and the rebuffer request; the minimum is loaded.
DrainInbound ==
  /\ workerPc = "drain" /\ workerPc' = "check"
  /\ inbound' = <<>> /\ queue' = Drained(queue)
  /\ streamStarted' = (streamStarted /\ ~rebufferRequested)
  /\ recovering' = (recovering /\ ~rebufferRequested)
  /\ rebufferRequested' = FALSE
  /\ least' = minimumFrames
  /\ UNCHANGED <<sent, origin, limit, activeGeneration, out, minimumFrames, maximumFrames,
                 requestedGeneration, expectedGeneration, resetPlayoutRequested,
                 callbackPc, playoutVars, messageVars>>

\* The maximum is loaded on its own: it may belong to a newer range.
CheckQueues ==
  /\ workerPc = "check" /\ workerPc' = "prepare"
  /\ Checks
  /\ least' = 0 /\ limit' = maximumFrames
  /\ UNCHANGED <<networkVars, activeGeneration, out, sharedVars, callbackPc, playoutVars,
                 messageVars>>

CanPrepare ==
  /\ streamStarted /\ ~recovering
  /\ Len(out) < limit /\ Len(out) < OutputCapacity
  /\ queue.packetQueue # {}

\* prepareOneFrame: a packet, or a fill-in made from it, becomes a frame.
PrepareOneFrame ==
  /\ workerPc = "prepare" /\ CanPrepare
  /\ queue' = AfterPop(queue)
  /\ out' = Append(out, [generation |-> activeGeneration, origin |-> origin[TopCounter(queue)]])
  /\ workerPc' = "idle" /\ limit' = 0
  /\ UNCHANGED <<networkVars, least, streamStarted, recovering, activeGeneration, sharedVars,
                 callbackPc, playoutVars, messageVars>>

\* Nothing to prepare, or not yet: run() sleeps and tries again.
PrepareNothing ==
  /\ workerPc = "prepare" /\ ~CanPrepare
  /\ workerPc' = "idle" /\ limit' = 0
  /\ UNCHANGED <<networkVars, least, queue, streamStarted, recovering,
                 activeGeneration, out, sharedVars, callbackPc, playoutVars, messageVars>>

Worker == ApplyResetIfRequested \/ DrainInbound \/ CheckQueues \/ PrepareOneFrame \/ PrepareNothing

-----------------------------------------------------------------------------
(* JammerNetzAudioEngine::processChunk, the playout half *)

\* Mutant: the timing markers outlive the samples they belong to.
ResetKeepsMarkers ==
  /\ playout' = <<>> /\ samplesWritten' = 0 /\ samplesRead' = 0
  /\ UNCHANGED markers

ResetPlayoutState ==
  /\ playout' = <<>> /\ markers' = <<>>
  /\ samplesWritten' = 0 /\ samplesRead' = 0

CallbackBegins ==
  /\ callbackPc = "idle" /\ connected /\ callbackPc' = "fetch"
  /\ resetPlayoutRequested' = FALSE
  /\ IF resetPlayoutRequested THEN ResetPlayoutState /\ isPlaying' = FALSE
     ELSE UNCHANGED playoutVars
  /\ UNCHANGED <<networkVars, workerVars, out, minimumFrames, maximumFrames,
                 rebufferRequested, requestedGeneration, expectedGeneration, messageVars>>

\* appendPlayoutTiming: the marker of a frame, unless the ring is full.
AppendPlayoutTiming(frame) ==
  /\ markers' = TryWrite(markers, [sample |-> samplesWritten, origin |-> frame.origin],
                         MarkerCapacity)
  /\ samplesWritten' = samplesWritten + FrameSamples

\* Mutant: every frame is played, whatever its generation.
FetchAnyFrame ==
  /\ callbackPc = "fetch" /\ Len(playout) < BlockSamples /\ out # <<>>
  /\ out' = Tail(out)
  /\ playout' = playout \o [i \in 1..FrameSamples |-> Head(out).origin]
  /\ AppendPlayoutTiming(Head(out))
  /\ UNCHANGED <<networkVars, workerVars, sharedVars, callbackPc, samplesRead, isPlaying,
                 messageVars>>

\* One turn of the loop that fills playoutBuffer_: a frame of another
\* generation is dropped.
FetchFrame ==
  /\ callbackPc = "fetch" /\ Len(playout) < BlockSamples /\ out # <<>>
  /\ out' = Tail(out)
  /\ IF Head(out).generation = expectedGeneration
     THEN /\ playout' = playout \o [i \in 1..FrameSamples |-> Head(out).origin]
          /\ AppendPlayoutTiming(Head(out))
     ELSE UNCHANGED <<playout, markers, samplesWritten>>
  /\ UNCHANGED <<networkVars, workerVars, sharedVars, callbackPc, samplesRead, isPlaying,
                 messageVars>>

\* How many markers scheduleMidiForPlayout takes: those of frames that begin
\* before the end of the block.  Markers are queued in the order of their samples,
\* so these are the first ones.
MarkersBefore(readEnd) ==
  Cardinality({i \in 1..Len(markers) : markers[i].sample < readEnd})

\* The loop is over: play, keep waiting, or give the stream up and rebuffer.
PlayBlock ==
  /\ callbackPc = "fetch" /\ Len(playout) >= BlockSamples
  /\ callbackPc' = "idle" /\ isPlaying' = TRUE
  /\ playout' = SubSeq(playout, BlockSamples + 1, Len(playout))
  /\ samplesRead' = samplesRead + BlockSamples
  /\ markers' = SubSeq(markers, MarkersBefore(samplesRead') + 1, Len(markers))
  /\ UNCHANGED <<networkVars, workerVars, out, sharedVars, samplesWritten, messageVars>>

KeepWaiting ==
  /\ callbackPc = "fetch" /\ out = <<>> /\ Len(playout) < BlockSamples /\ ~isPlaying
  /\ callbackPc' = "idle"
  /\ UNCHANGED <<networkVars, workerVars, out, sharedVars, playoutVars, messageVars>>

Underrun ==
  /\ callbackPc = "fetch" /\ out = <<>> /\ Len(playout) < BlockSamples /\ isPlaying
  /\ callbackPc' = "idle" /\ isPlaying' = FALSE
  /\ ResetPlayoutState
  /\ rebufferRequested' = TRUE
  /\ UNCHANGED <<networkVars, workerVars, out, minimumFrames, maximumFrames,
                 requestedGeneration, expectedGeneration, resetPlayoutRequested, messageVars>>

Callback == CallbackBegins \/ FetchFrame \/ PlayBlock \/ KeepWaiting \/ Underrun

-----------------------------------------------------------------------------
(* The message thread *)

\* newServer: the reset is requested, its generation expected, and only then is
\* the callback told to drop what it holds.
RequestReset ==
  /\ messagePc = "idle" /\ connected /\ requests < MaxRequests
  /\ requests' = requests + 1
  /\ requestedGeneration' = requestedGeneration + 1
  /\ messagePc' = "expect"
  /\ UNCHANGED <<networkVars, workerVars, out, minimumFrames, maximumFrames,
                 rebufferRequested, expectedGeneration, resetPlayoutRequested,
                 callbackPc, playoutVars, wanted, connected>>

ExpectGeneration ==
  /\ messagePc = "expect" /\ messagePc' = "flag"
  /\ expectedGeneration' = requestedGeneration
  /\ UNCHANGED <<networkVars, workerVars, out, minimumFrames, maximumFrames,
                 rebufferRequested, requestedGeneration, resetPlayoutRequested,
                 callbackPc, playoutVars, wanted, connected, requests>>

\* After a reconnection the session starts and the workers with it.
RequestPlayoutReset ==
  /\ messagePc = "flag" /\ messagePc' = "idle"
  /\ resetPlayoutRequested' = TRUE /\ connected' = TRUE
  /\ UNCHANGED <<networkVars, workerVars, out, minimumFrames, maximumFrames,
                 rebufferRequested, requestedGeneration, expectedGeneration,
                 callbackPc, playoutVars, wanted, requests>>

\* prepare and release of the engine, between two runs of the device.
PrepareEngine ==
  /\ messagePc = "idle" /\ callbackPc = "idle" /\ requests < MaxRequests
  /\ requests' = requests + 1 /\ resetPlayoutRequested' = TRUE
  /\ UNCHANGED <<networkVars, workerVars, out, minimumFrames, maximumFrames,
                 rebufferRequested, requestedGeneration, expectedGeneration,
                 callbackPc, playoutVars, messagePc, wanted, connected>>

\* The plug-in disconnects and connects again: the callback and the network
\* thread are gone when AudioReceiveWorker::shutdown empties the queues, and
\* configureEngine calls newServer before anything is started.
Reconnect ==
  /\ messagePc = "idle" /\ connected /\ requests < MaxRequests
  /\ callbackPc = "idle" /\ workerPc = "idle"
  /\ requests' = requests + 1 /\ connected' = FALSE
  /\ inbound' = <<>> /\ out' = <<>> /\ queue' = EmptyQueue
  /\ requestedGeneration' = requestedGeneration + 1
  /\ messagePc' = "expect"
  /\ UNCHANGED <<sent, origin, workerPc, least, limit, streamStarted, recovering, activeGeneration,
                 minimumFrames, maximumFrames, rebufferRequested, expectedGeneration,
                 resetPlayoutRequested, callbackPc, playoutVars, wanted>>

\* setPlayoutBufferRange stores the two bounds one after the other.
SetMinimum ==
  /\ messagePc = "idle" /\ connected /\ requests < MaxRequests
  /\ \E range \in PlayoutRanges : minimumFrames' = range[1]
                               /\ wanted' = AtLeast(range[1], range[2])
  /\ requests' = requests + 1 /\ messagePc' = "maximum"
  /\ UNCHANGED <<networkVars, workerVars, out, maximumFrames, rebufferRequested,
                 requestedGeneration, expectedGeneration, resetPlayoutRequested,
                 callbackPc, playoutVars, connected>>

SetMaximum ==
  /\ messagePc = "maximum" /\ messagePc' = "idle"
  /\ maximumFrames' = wanted /\ wanted' = 0
  /\ UNCHANGED <<networkVars, workerVars, out, minimumFrames, rebufferRequested,
                 requestedGeneration, expectedGeneration, resetPlayoutRequested,
                 callbackPc, playoutVars, connected, requests>>

\* What the message thread has begun it finishes; that it begins is not assumed.
FinishRequest == ExpectGeneration \/ RequestPlayoutReset \/ SetMaximum

Next ==
  \/ Arrive \/ Worker \/ Callback
  \/ RequestReset \/ PrepareEngine \/ Reconnect \/ SetMinimum \/ FinishRequest

Spec == Init /\ [][Next]_vars

\* The threads of the client run; that the server sends anything is not assumed.
FairSpec == Spec /\ WF_vars(Worker) /\ WF_vars(Callback) /\ WF_vars(FinishRequest)

-----------------------------------------------------------------------------
(* Properties *)

Frame == [generation : Nat, origin : Nat]
Marker == [sample : Nat, origin : Nat]

TypeOK ==
  /\ sent \in 0..MaxCounter /\ inbound \in Seq(1..MaxCounter)
  /\ origin \in [1..MaxCounter -> Nat]
  /\ workerPc \in {"idle", "drain", "check", "prepare"} /\ {least, limit} \subseteq Nat
  /\ queue \in Queue
  /\ streamStarted \in BOOLEAN /\ recovering \in BOOLEAN /\ activeGeneration \in Nat
  /\ out \in Seq(Frame) /\ Len(out) <= OutputCapacity
  /\ Len(inbound) <= InputCapacity /\ Len(markers) <= MarkerCapacity
  /\ minimumFrames \in Nat /\ maximumFrames \in Nat /\ wanted \in Nat
  /\ rebufferRequested \in BOOLEAN /\ resetPlayoutRequested \in BOOLEAN
  /\ requestedGeneration \in Nat /\ expectedGeneration \in Nat
  /\ callbackPc \in {"idle", "fetch"} /\ playout \in Seq(Nat) /\ markers \in Seq(Marker)
  /\ samplesWritten \in Nat /\ samplesRead \in Nat /\ isPlaying \in BOOLEAN
  /\ messagePc \in {"idle", "expect", "flag", "maximum"}
  /\ connected \in BOOLEAN /\ requests \in 0..MaxRequests

\* A frame never claims a generation it does not belong to: everything prepared
\* under a generation arrived after that generation was requested, whichever
\* packets were in flight between the threads at that moment.
GenerationIsHonest ==
  \A i \in 1..Len(out) : out[i].origin >= out[i].generation

\* Once the message thread has finished newServer and the callback has seen the
\* reset, nothing that had arrived before it is left to be played.  (What the old
\* server's network delivers only later cannot be told from the new server's audio:
\* the check of the sender in DataReceiveThread::run is compiled out.)
PlayedIsFresh ==
  messagePc \notin {"expect", "flag"} /\ ~resetPlayoutRequested =>
    \A i \in 1..Len(playout) : playout[i] = requestedGeneration

\* The timing markers keep step with the samples: every frame of which no
\* sample has been played has its marker, in order and with its own origin,
\* across underruns, resets and blocks that are no multiple of a frame.
MarkersKeepStep ==
  /\ samplesWritten - samplesRead = Len(playout)
  /\ \A i \in 1..Len(markers) :
       /\ markers[i].sample \in samplesRead..(samplesWritten - 1)
       /\ playout[markers[i].sample - samplesRead + 1] = markers[i].origin
  /\ Len(markers) < MarkerCapacity => Len(markers) = Len(playout) \div FrameSamples

LargestMaximum == Max({AtLeast(range[1], range[2]) : range \in PlayoutRanges})

\* Between network and callback wait, after every pass of the worker, at most as
\* many frames as the largest playout range that was ever set allows, and one
\* fill-in.  What exceeds them is given up, even if the callback stalls, packets
\* arrive in a burst, or the worker reads one bound of the old range and one of
\* the new one.
LatencyBounded ==
  workerPc = "idle" => Len(out) + Size(queue) <= LargestMaximum + 1

\* Once as much is buffered as playback needs, it does not stay there: rebuffer
\* requests, recovery and the limits of the queues never wait for one another.
BufferedIsPlayed ==
  Size(queue) >= minimumFrames ~> Size(queue) < minimumFrames
=============================================================================
