---------------------------- MODULE ThreadProofs ----------------------------
(***************************************************************************)
(* Places where one thread ends what another may still be using, or an     *)
(* answer arrives that has been overtaken: the server's threads while      *)
(* ~Server stops them, the MIDI senders the message thread replaces while  *)
(* the audio callback schedules pulses, the sound device whose permission  *)
(* is asked for asynchronously, and the client's session and engine, which *)
(* the message thread takes down step by step under all other threads.     *)
(***************************************************************************)
EXTENDS ServerThreads, MidiClock, AudioControl, ClientLifecycle, TLAPS

-----------------------------------------------------------------------------
(* ServerThreads *)

\* ThreadsTypeOK with the places of ~Server listed, apart from crashed.
ThreadsData ==
  /\ acceptPc \in {"check", "wait", "exited", "killed"}
  /\ mixPc \in {"check", "pop", "process", "handOver", "leave", "exited", "killed"}
  /\ sendPc \in {"check", "pop", "recheck", "send", "exited", "killed"}
  /\ wakeUps \in 0..MaxTicks
  /\ sendQueue \in Seq({"audio", "stop"}) /\ Len(sendQueue) <= SendCapacity
  /\ batch \in 0..MaxBatch
  /\ package \in {"none", "audio", "stop"}
  /\ serverPc \in {"running", "sendSignalled", "mixerSignalled", "allSignalled",
                   "acceptStopped", "mixerStopped", "stopped"}
  /\ turns \in 0..StopTurns

\* The MixerThread leaves only after its flag is up; the stop package exists only
\* then, and the SendThread, whose flag was up before, never waits for more:
\* if it is still in its pop the queue is not empty.
StopInv ==
  /\ mixPc \in {"leave", "exited"} => serverPc \notin {"running", "sendSignalled"}
  /\ (\E i \in 1..Len(sendQueue) : sendQueue[i] = "stop") => mixPc = "exited"
  /\ package = "stop" => mixPc = "exited"
  /\ sendPc \in {"recheck", "send"} => package # "none"
  /\ sendPc = "send" => package # "stop"
  /\ mixPc = "exited" /\ sendPc = "pop" => sendQueue # <<>>
  /\ mixPc = "exited" => sendPc # "killed"
  /\ serverPc \in {"mixerStopped", "stopped"} => mixPc \in {"exited", "killed"}
  /\ sendPc = "killed" => serverPc = "stopped"

\* A thread that ~Server waits for finishes at most the turn it is in: its flag is up,
\* so it leaves at its next look.  That is less than stopThread has patience for.
TurnInv ==
  /\ turns <= 1 /\ killedAtWork = {}
  /\ turns = 1 /\ serverPc = "allSignalled" => acceptPc \in {"check", "exited"}
  /\ turns = 1 /\ serverPc = "acceptStopped" => mixPc \in {"check", "leave", "exited"}
  /\ turns = 1 /\ serverPc = "mixerStopped" => sendPc \in {"check", "exited"}
  /\ turns = 1 => serverPc \in {"allSignalled", "acceptStopped", "mixerStopped"}

ThreadsInv == ThreadsData /\ StopInv /\ TurnInv /\ crashed \in BOOLEAN

\* The places of ~Server by their number.
LEMMA PlacesListed ==
  /\ DestructorSteps[1] = "running" /\ DestructorSteps[2] = "sendSignalled"
  /\ DestructorSteps[3] = "mixerSignalled" /\ DestructorSteps[4] = "allSignalled"
  /\ DestructorSteps[5] = "acceptStopped" /\ DestructorSteps[6] = "mixerStopped"
  /\ DestructorSteps[7] = "stopped"
  /\ \A i \in 1..7 : i = 1 \/ i = 2 \/ i = 3 \/ i = 4 \/ i = 5 \/ i = 6 \/ i = 7
  BY DEF DestructorSteps

\* The listed places are the ones of the type invariant.
LEMMA PlacesComplete ==
  serverPc \in {"running", "sendSignalled", "mixerSignalled", "allSignalled",
                "acceptStopped", "mixerStopped", "stopped"}
    => \E i \in 1..7 : serverPc = DestructorSteps[i]
<1>1. 1 \in 1..7 /\ 2 \in 1..7 /\ 3 \in 1..7 /\ 4 \in 1..7 /\ 5 \in 1..7 /\ 6 \in 1..7 /\ 7 \in 1..7
  OBVIOUS
<1> QED  BY <1>1, PlacesListed, Zenon

\* What each flag means for the place of ~Server.
LEMMA FlagsByPlace ==
  ASSUME ThreadsData
  PROVE  /\ ShouldExit("send") <=> serverPc # "running"
         /\ ShouldExit("mixer") <=> serverPc \notin {"running", "sendSignalled"}
         /\ ShouldExit("accept") <=> serverPc \notin {"running", "sendSignalled", "mixerSignalled"}
<1>1. PICK k \in 1..7 : serverPc = DestructorSteps[k]
  BY PlacesComplete DEF ThreadsData
<1>2. \A i \in 1..7 : serverPc = DestructorSteps[i] => i = k
  BY <1>1, PlacesListed
<1>3. /\ ShouldExit("send") <=> k > 1
      /\ ShouldExit("mixer") <=> k > 2
      /\ ShouldExit("accept") <=> k > 3
  BY <1>1, <1>2 DEF ShouldExit
<1> QED  BY <1>1, <1>3, PlacesListed

\* A signal moves ~Server one place on.
LEMMA SignalMovesOn ==
  ASSUME Signal
  PROVE  \/ serverPc = "running" /\ serverPc' = "sendSignalled"
         \/ serverPc = "sendSignalled" /\ serverPc' = "mixerSignalled"
         \/ serverPc = "mixerSignalled" /\ serverPc' = "allSignalled"
<1>1. PICK i \in 1..3 : serverPc = DestructorSteps[i] /\ serverPc' = DestructorSteps[i + 1]
  BY DEF Signal
<1>2. \/ i = 1 /\ i + 1 = 2
      \/ i = 2 /\ i + 1 = 3
      \/ i = 3 /\ i + 1 = 4
  OBVIOUS
<1> QED  BY <1>1, <1>2, PlacesListed

\* What the steps that may end the process do to everything but crashed.
LEMMA FatalSteps ==
  /\ MixerHandsOver =>
       /\ mixPc = "handOver" /\ batch > 0
       /\ \/ /\ Len(sendQueue) < SendCapacity /\ sendQueue' = Append(sendQueue, "audio")
             /\ batch' = batch - 1
          \/ UNCHANGED <<sendQueue, batch>>
       /\ UNCHANGED <<acceptPc, mixPc, sendPc, wakeUps, package, serverPc, turns, killedAtWork>>
  /\ SocketFails \/ EncryptionFails =>
       UNCHANGED <<acceptPc, mixPc, sendPc, wakeUps, sendQueue, batch, package, serverPc, turns,
                   killedAtWork>>
  BY Zenon DEF MixerHandsOver, SocketFails, EncryptionFails, stopVars

\* The second of stopThread is never over while the thread is still turning.
LEMMA SecondLasts ==
  ASSUME ThreadsData, TurnInv
  PROVE  turns # StopTurns
BY ThreadsAssumption DEF ThreadsData, TurnInv

\* Each step of ~Server keeps the types, what is known of the stop package and the
\* count of turns.
LEMMA DestructorStep ==
  ASSUME ThreadsData, StopInv, TurnInv, Destructor
  PROVE  ThreadsData' /\ StopInv' /\ TurnInv'
<1> USE ThreadsAssumption
<1>1. CASE Signal
  BY <1>1, SignalMovesOn DEF Signal, ThreadsData, StopInv, TurnInv
<1>2. CASE JoinAccept
  <2>1. /\ turns' = 0 /\ killedAtWork' = {} /\ serverPc' = "acceptStopped" /\ acceptPc = "exited"
    <3>1. StopThread("accept", acceptPc, FALSE, "acceptStopped")
      BY <1>2 DEF JoinAccept
    <3> QED  BY <3>1, SecondLasts DEF StopThread, TurnInv
  <2>2. acceptPc' = "exited"
    BY <1>2, <2>1, Zenon DEF JoinAccept, Ended
  <2> QED  BY <1>2, <2>1, <2>2 DEF JoinAccept, ThreadsData, StopInv, TurnInv
<1>3. CASE JoinMixer
  <2>1. /\ turns' = 0 /\ killedAtWork' = {} /\ serverPc' = "mixerStopped"
        /\ mixPc = "exited" \/ mixPc = "pop"
    <3>1. StopThread("mixer", mixPc, mixPc = "pop" /\ wakeUps = 0, "mixerStopped")
      BY <1>3 DEF JoinMixer
    <3> QED  BY <3>1, SecondLasts DEF StopThread, TurnInv
  <2>2. /\ mixPc = "exited" => mixPc' = "exited"
        /\ mixPc = "pop" => mixPc' = "killed"
    BY <1>3 DEF JoinMixer, Ended
  <2>3. UNCHANGED <<acceptPc, sendPc, wakeUps, sendQueue, batch, package>>
    BY <1>3, Zenon DEF JoinMixer
  <2> QED  BY <1>3, <2>1, <2>2, <2>3 DEF JoinMixer, ThreadsData, StopInv, TurnInv
<1>4. CASE JoinSend
  <2>1. /\ turns' = 0 /\ killedAtWork' = {} /\ serverPc' = "stopped"
        /\ sendPc = "exited" \/ (sendPc = "pop" /\ sendQueue = <<>>)
    <3>1. StopThread("send", sendPc, sendPc = "pop" /\ sendQueue = <<>>, "stopped")
      BY <1>4 DEF JoinSend
    <3> QED  BY <3>1, SecondLasts DEF StopThread, TurnInv
  <2>2. /\ sendPc = "exited" => sendPc' = "exited"
        /\ sendPc = "pop" => sendPc' = "killed"
    BY <1>4 DEF JoinSend, Ended
  <2>3. UNCHANGED <<acceptPc, mixPc, wakeUps, sendQueue, batch, package>>
    BY <1>4, Zenon DEF JoinSend
  <2> QED  BY <1>4, <2>1, <2>2, <2>3 DEF JoinSend, ThreadsData, StopInv, TurnInv
<1> QED  BY <1>1, <1>2, <1>3, <1>4 DEF Destructor

\* Each step of the AcceptThread does.
LEMMA AcceptStep ==
  ASSUME ThreadsData, StopInv, TurnInv, AcceptRuns
  PROVE  ThreadsData' /\ StopInv' /\ TurnInv'
<1> USE ThreadsAssumption
<1>1. CASE AcceptChecks
  BY <1>1, FlagsByPlace DEF AcceptChecks, ThreadsData, StopInv, TurnInv, stopVars
<1>2. CASE AcceptTicks \/ AcceptIgnores
  BY <1>2 DEF AcceptTicks, AcceptIgnores, TurnEnds, ThreadsData, StopInv, TurnInv
<1>3. CASE SocketFails
  BY <1>3, FatalSteps DEF ThreadsData, StopInv, TurnInv
<1> QED  BY <1>1, <1>2, <1>3 DEF AcceptRuns

\* Each step of the MixerThread does: it leaves only when its flag is up, and
\* whether or not its last package fits, the queue it leaves is not empty.
LEMMA MixerStep ==
  ASSUME ThreadsData, StopInv, TurnInv, MixerRuns
  PROVE  ThreadsData' /\ StopInv' /\ TurnInv'
<1> USE ThreadsAssumption
<1>1. CASE MixerChecks
  BY <1>1, FlagsByPlace DEF MixerChecks, ThreadsData, StopInv, TurnInv, stopVars
<1>2. CASE MixerPops
  BY <1>2 DEF MixerPops, ThreadsData, StopInv, TurnInv, stopVars
<1>3. CASE MixerProcesses
  <2>1. batch' \in 0..MaxBatch /\ wakeUps' \in 0..MaxTicks
    BY <1>3 DEF MixerProcesses, ThreadsData
  <2> QED  BY <1>3, <2>1 DEF MixerProcesses, ThreadsData, StopInv, TurnInv, stopVars
<1>4. CASE MixerHandsOver
  <2>1. CASE UNCHANGED <<sendQueue, batch>>
    BY <1>4, <2>1, FatalSteps DEF ThreadsData, StopInv, TurnInv
  <2>2. CASE /\ Len(sendQueue) < SendCapacity /\ sendQueue' = Append(sendQueue, "audio")
             /\ batch' = batch - 1
    <3>1. ThreadsData'
      BY <1>4, <2>2, FatalSteps DEF ThreadsData
    <3>2. \A i \in 1..Len(sendQueue') : sendQueue'[i] = "stop" =>
            i \in 1..Len(sendQueue) /\ sendQueue[i] = "stop"
      BY <2>2 DEF ThreadsData
    <3> QED  BY <1>4, <2>2, <3>1, <3>2, FatalSteps DEF StopInv, TurnInv
  <2> QED  BY <1>4, <2>1, <2>2, FatalSteps
<1>5. CASE MixerLoops
  BY <1>5 DEF MixerLoops, TurnEnds, ThreadsData, StopInv, TurnInv
<1>6. CASE MixerLeaves
  <2>1. ThreadsData' /\ sendQueue' # <<>>
    BY <1>6 DEF MixerLeaves, ThreadsData, stopVars
  <2> QED  BY <1>6, <2>1 DEF MixerLeaves, StopInv, TurnInv, stopVars
<1> QED  BY <1>1, <1>2, <1>3, <1>4, <1>5, <1>6 DEF MixerRuns

\* Each step of the SendThread does: once the MixerThread has left it finds its
\* own flag up, so it neither sends the stop package nor waits again.
LEMMA SendStep ==
  ASSUME ThreadsData, StopInv, TurnInv, SendRuns
  PROVE  ThreadsData' /\ StopInv' /\ TurnInv'
<1> USE ThreadsAssumption
<1>1. CASE SendChecks
  BY <1>1, FlagsByPlace DEF SendChecks, ThreadsData, StopInv, TurnInv, stopVars
<1>2. CASE SendPops
  <2>1. /\ 1 \in 1..Len(sendQueue) /\ package' = sendQueue[1]
        /\ sendQueue' \in Seq({"audio", "stop"}) /\ Len(sendQueue') = Len(sendQueue) - 1
        /\ \A i \in 1..Len(sendQueue') : sendQueue'[i] = sendQueue[i + 1]
    BY <1>2 DEF SendPops, ThreadsData
  <2>2. /\ sendQueue[1] \in {"audio", "stop"}
        /\ \A i \in 1..Len(sendQueue') : i + 1 \in 1..Len(sendQueue)
    BY <2>1 DEF ThreadsData
  <2>3. ThreadsData'
    BY <1>2, <2>1, <2>2 DEF SendPops, ThreadsData, stopVars
  <2> QED  BY <1>2, <2>1, <2>2, <2>3 DEF SendPops, StopInv, TurnInv, stopVars
<1>3. CASE SendRechecks
  BY <1>3, FlagsByPlace DEF SendRechecks, ThreadsData, StopInv, TurnInv, stopVars
<1>4. CASE Sends
  BY <1>4 DEF Sends, TurnEnds, ThreadsData, StopInv, TurnInv
<1>5. CASE EncryptionFails
  BY <1>5, FatalSteps DEF ThreadsData, StopInv, TurnInv
<1> QED  BY <1>1, <1>2, <1>3, <1>4, <1>5 DEF SendRuns

\* The invariant of the server's threads, for every capacity of the queue, every
\* size of a mix and every moment at which ~Server begins.
THEOREM ThreadsInvariant == ThreadsSpec => []ThreadsInv
<1>1. ThreadsInit => ThreadsInv
  <2>1. ThreadsInit => crashed \in BOOLEAN
    BY Zenon DEF ThreadsInit
  <2>2. ThreadsInit => /\ acceptPc = "check" /\ mixPc = "check" /\ sendPc = "check"
                       /\ wakeUps = 0 /\ sendQueue = <<>> /\ batch = 0 /\ package = "none"
                       /\ serverPc = "running" /\ turns = 0 /\ killedAtWork = {}
    BY Zenon DEF ThreadsInit
  <2>3. ThreadsInit => ThreadsData /\ StopInv /\ TurnInv
    BY <2>2, ThreadsAssumption DEF ThreadsData, StopInv, TurnInv
  <2> QED  BY <2>1, <2>3, Zenon DEF ThreadsInv
<1>2. ASSUME ThreadsInv, [ThreadsNext]_threadsVars
      PROVE  ThreadsInv'
  <2>1. ThreadsData /\ StopInv /\ TurnInv /\ crashed \in BOOLEAN
    BY <1>2, Zenon DEF ThreadsInv
  <2>2. crashed' \in BOOLEAN
    <3>1. crashed' = crashed \/ crashed' = TRUE
      BY <1>2, Zenon DEF ThreadsNext, threadsVars, Destructor, Signal, JoinAccept, JoinMixer,
           JoinSend, AcceptRuns, AcceptChecks, AcceptTicks, AcceptIgnores, SocketFails,
           MixerRuns, MixerChecks, MixerPops, MixerProcesses, MixerHandsOver, MixerLoops,
           MixerLeaves, SendRuns, SendChecks, SendPops, SendRechecks, Sends, EncryptionFails
    <3> QED  BY <2>1, <3>1, Zenon
  <2>3. CASE UNCHANGED threadsVars
    <3>1. ThreadsData' /\ StopInv' /\ TurnInv'
      BY <2>1, <2>3 DEF threadsVars, stopVars, ThreadsData, StopInv, TurnInv
    <3> QED  BY <2>2, <3>1, Zenon DEF ThreadsInv
  <2>4. Destructor \/ AcceptRuns \/ MixerRuns \/ SendRuns \/ UNCHANGED threadsVars
    BY <1>2, Zenon DEF ThreadsNext
  <2> QED  BY <2>1, <2>2, <2>3, <2>4, DestructorStep, AcceptStep, MixerStep, SendStep, Zenon
           DEF ThreadsInv
<1> QED  BY <1>1, <1>2, PTL DEF ThreadsSpec

\* The three run() loops and the destructor stay within their places, and
\* sendQueue_ never grows past its capacity.
THEOREM ThreadsTypeCorrect == ThreadsSpec => []ThreadsTypeOK
<1>1. ThreadsInv => ThreadsTypeOK
  <2> SUFFICES ASSUME ThreadsInv PROVE ThreadsTypeOK
    OBVIOUS
  <2>1. killedAtWork \subseteq {"accept", "mixer", "send"}
    BY DEF ThreadsInv, TurnInv
  <2> QED  BY <2>1, PlacesComplete, Zenon DEF ThreadsInv, ThreadsData, ThreadsTypeOK
<1> QED  BY <1>1, ThreadsInvariant, PTL

\* The empty package that wakes the SendThread at the end is never serialised.
THEOREM StopIsNeverSent == ThreadsSpec => []StopPackageNeverSent
<1>1. ThreadsInv => StopPackageNeverSent
  BY DEF ThreadsInv, ThreadsData, StopInv, StopPackageNeverSent
<1> QED  BY <1>1, ThreadsInvariant, PTL

\* stopThread never has to kill a SendThread whose MixerThread has left, also
\* when the package that was to wake it did not fit into the queue.
THEOREM SendThreadFollows == ThreadsSpec => []SendFollowsMixer
<1>1. ThreadsInv => SendFollowsMixer
  BY DEF ThreadsInv, StopInv, SendFollowsMixer
<1> QED  BY <1>1, ThreadsInvariant, PTL

\* Whenever ~Server begins and whatever arrives meanwhile, stopThread kills no thread
\* outside of a blocking pop, where it could hold a lock.
THEOREM NobodyKilledAtWork == ThreadsSpec => []KilledOnlyAsleep
<1>1. ThreadsInv => KilledOnlyAsleep
  BY DEF ThreadsInv, TurnInv, KilledOnlyAsleep
<1> QED  BY <1>1, ThreadsInvariant, PTL

-----------------------------------------------------------------------------
(* MidiClock: the hazard pointer *)

\* The types of what the proof is about.
SenderData ==
  /\ publishedSender \in Senders \cup {NoSender} /\ hazard \in Senders \cup {NoSender}
  /\ owner \in Senders \cup {NoSender} /\ held \in Senders \cup {NoSender}
  /\ fresh \in Senders \cup {NoSender} /\ retiring \in Senders \cup {NoSender}
  /\ senderState \in [Senders -> {"none", "running", "disabled", "destroyed"}]
  /\ clockPc \in {"idle", "load", "protect", "validate", "use"}
  /\ midiPc \in {"idle", "publish", "disable", "await"}

\* Between two replacements the published sender is the owned one; during one it
\* is first the sender that will be retired, then the fresh one.
ReplacementInv ==
  /\ publishedSender # NoSender => senderState[publishedSender] = "running"
  /\ midiPc = "publish" => /\ publishedSender = retiring /\ owner = fresh
                           /\ fresh # NoSender => fresh # retiring /\ senderState[fresh] = "running"
  /\ midiPc # "publish" => publishedSender = owner
  /\ midiPc \in {"disable", "await"} =>
       /\ retiring # NoSender /\ retiring # publishedSender
       /\ senderState[retiring] \in {"running", "disabled"}

\* What the callback works with it has announced before it looked again, so it is
\* the published sender or the one whose destruction waits for the announcement.
HazardInv ==
  /\ clockPc \in {"validate", "use"} => hazard = held
  /\ clockPc = "use" /\ held # NoSender =>
       \/ held = publishedSender
       \/ midiPc \in {"disable", "await"} /\ held = retiring

SendersInv == SenderData /\ ReplacementInv /\ HazardInv

\* The steps of the audio callback keep the invariant.
LEMMA CallbackStep ==
  ASSUME SendersInv, LoadSender \/ ProtectSender \/ ValidateSender \/ UseSender
  PROVE  SendersInv'
<1> USE DEF SendersInv, SenderData, ReplacementInv, HazardInv, NoSender, senderVars, midiVars
<1>1. CASE LoadSender
  BY <1>1 DEF LoadSender
<1>2. CASE ProtectSender
  BY <1>2 DEF ProtectSender
<1>3. CASE ValidateSender
  BY <1>3 DEF ValidateSender
<1>4. CASE UseSender
  <2>1. /\ clockPc' = "idle" /\ hazard' = NoSender /\ held' = NoSender
        /\ UNCHANGED <<publishedSender, owner, senderState, midiPc, fresh, retiring>>
    BY <1>4, Zenon DEF UseSender
  <2> QED  BY <2>1
<1> QED  BY <1>1, <1>2, <1>3, <1>4

\* The steps of restartClock and of shutdown keep the invariant: the old sender is
\* unpublished before it is disabled, and destroyed only when no longer announced.
LEMMA ReplacementStep ==
  ASSUME SendersInv, RestartClock \/ ShutdownClock \/ RetirementGoesOn
  PROVE  SendersInv'
<1> USE MidiAssumption DEF SendersInv, SenderData, ReplacementInv, HazardInv, Senders, NoSender,
                           senderVars, midiVars
<1>1. CASE RestartClock
  <2>1. PICK s \in Senders : /\ senderState[s] = "none" /\ fresh' = s /\ owner' = s
                             /\ senderState' = [senderState EXCEPT ![s] = "running"]
    BY <1>1 DEF RestartClock
  <2>2. s # publishedSender /\ s # NoSender
    BY <2>1
  <2> QED  BY <1>1, <2>1, <2>2 DEF RestartClock
<1>2. CASE ShutdownClock
  BY <1>2 DEF ShutdownClock
<1>3. CASE PublishSender
  BY <1>3 DEF PublishSender
<1>4. CASE DisableOutput
  BY <1>4 DEF DisableOutput
<1>5. CASE DestroySender
  BY <1>5 DEF DestroySender
<1> QED  BY <1>1, <1>2, <1>3, <1>4, <1>5 DEF RetirementGoesOn

\* The invariant of the hazard pointer, for every number of replacements and
\* every interleaving of them with the callback.
THEOREM SendersInvariant == MidiSpec => []SendersInv
<1>1. MidiInit => SendersInv
  BY DEF MidiInit, SendersInv, SenderData, ReplacementInv, HazardInv, NoSender
<1>2. SendersInv /\ [MidiNext]_midiClockVars => SendersInv'
  <2> SUFFICES ASSUME SendersInv, [MidiNext]_midiClockVars
               PROVE  SendersInv'
    OBVIOUS
  <2>1. CASE \E s \in Senders : SendItem(s)
    BY <2>1 DEF SendItem, SendersInv, SenderData, ReplacementInv, HazardInv, midiVars
  <2>2. CASE UNCHANGED midiClockVars
    BY <2>2 DEF midiClockVars, SendersInv, SenderData, ReplacementInv, HazardInv, senderVars,
                midiVars
  <2> QED  BY <2>1, <2>2, CallbackStep, ReplacementStep DEF MidiNext, ScheduleGoesOn
<1> QED  BY <1>1, <1>2, PTL DEF MidiSpec

\* scheduleMidiForPlayout never touches a destroyed MidiSendThread.
THEOREM UsedSenderIsAlive == MidiSpec => []UsedSenderLives
<1>1. SendersInv => UsedSenderLives
  BY DEF SendersInv, SenderData, ReplacementInv, HazardInv, UsedSenderLives
<1> QED  BY <1>1, SendersInvariant, PTL

-----------------------------------------------------------------------------
(* AudioControl *)

\* The types, the flags apart from the numbers.
ControlFlags ==
  /\ shouldRun \in BOOLEAN /\ running \in BOOLEAN /\ debounced \in BOOLEAN
  /\ serviceDown \in BOOLEAN /\ touched \in BOOLEAN

ControlData ==
  /\ restartGeneration \in Nat /\ selection \in Nat
  /\ requests \subseteq [generation : Nat, channels : Nat \ {0}]

\* A switch that is on without a device waits for an answer that is not outdated;
\* a switch that is off with a device does not happen.
PendingInv ==
  ~debounced /\ ~serviceDown /\ shouldRun # running =>
    shouldRun /\ \E r \in requests : r.generation = restartGeneration

\* While the selection is what the device was opened with, so is the engine.
SetupInv == running /\ ~touched => selection = device.channels /\ engineChannels = device.channels

\* All but the flags.
ControlRest ==
  /\ ControlData
  /\ running <=> device # NoDevice
  /\ serviceDown => ~running
  /\ PendingInv /\ SetupInv

ControlInv == ControlFlags /\ ControlRest

\* The flags stay Booleans.
LEMMA FlagsStep ==
  ASSUME ControlFlags, [ControlNext]_controlVars PROVE ControlFlags'
<1> USE DEF ControlFlags
<1>1. CASE DebounceFires
  BY <1>1, Zenon DEF DebounceFires, RestartAudio, StopAudioIfRunning, ReportFailure, CloseDevice
<1>2. CASE PermissionArrives
  BY <1>2, Zenon DEF PermissionArrives, OpenDevice, ReportFailure, CloseDevice
<1>3. CASE ShutdownService
  BY <1>3, Zenon DEF ShutdownService, StopAudioIfRunning, CloseDevice
<1>4. CASE PressButton
  BY <1>4, Zenon DEF PressButton
<1>5. CASE SelectChannels
  BY <1>5, Zenon DEF SelectChannels
<1>6. CASE MixerChanges
  BY <1>6, Zenon DEF MixerChanges
<1>7. CASE UNCHANGED controlVars
  BY <1>7, Zenon DEF controlVars
<1> QED  BY <1>1, <1>2, <1>3, <1>4, <1>5, <1>6, <1>7 DEF ControlNext

\* A device that is opened is one with channels.
LEMMA OpenedIsDevice ==
  ASSUME NEW n \in Nat \ {0}, NEW size
  PROVE  [channels |-> n, bufferSize |-> size] # NoDevice
  BY DEF NoDevice

\* The permission callback opens the device it was asked for, or gives up and
\* turns the switch off.
LEMMA OpenDeviceInv ==
  ASSUME ControlInv, NEW request \in requests, requests' = requests \ {request},
         ~serviceDown, shouldRun, OpenDevice(request.channels) \/ ReportFailure,
         UNCHANGED <<debounced, restartGeneration, selection, serviceDown>>
  PROVE  ControlRest'
<1>1. request.channels \in Nat \ {0}
  BY DEF ControlInv, ControlRest, ControlData
<1>2. CASE ReportFailure
  BY <1>2 DEF ReportFailure, CloseDevice, ControlInv, ControlRest, ControlFlags, ControlData, PendingInv, SetupInv
<1>3. CASE ~ReportFailure
  <2>1. PICK sizes \in BufferLists :
          /\ device' = [channels |-> request.channels, bufferSize |-> SelectBufferSize(sizes)]
          /\ running' = TRUE /\ touched' = (selection # request.channels)
          /\ engineChannels' = request.channels /\ UNCHANGED shouldRun
    BY <1>3 DEF OpenDevice
  <2>2. device' # NoDevice /\ device'.channels = request.channels
    BY <1>1, <2>1, OpenedIsDevice
  <2> QED  BY <2>1, <2>2 DEF ControlInv, ControlRest, ControlFlags, ControlData, PendingInv, SetupInv
<1> QED  BY <1>2, <1>3

\* No press, selection, debounce, outdated answer or failure breaks the invariant.
THEOREM ControlInvariant == ControlSpec => []ControlInv
<1>1. ControlInit => ControlInv
  <2>1. ControlInit => ControlFlags
    BY Zenon DEF ControlInit, ControlFlags
  <2>2. ControlInit => ControlData
    BY DEF ControlInit, ControlData
  <2>3. ControlInit => /\ running <=> device # NoDevice
                       /\ serviceDown => ~running
                       /\ PendingInv /\ SetupInv
    BY Zenon DEF ControlInit, PendingInv, SetupInv
  <2> QED  BY <2>1, <2>2, <2>3 DEF ControlInv, ControlRest
<1>2. ASSUME ControlInv, [ControlNext]_controlVars PROVE ControlRest'
  <2> USE <1>2, ControlAssumption
  <2>1. CASE DebounceFires
    <3>1. CASE serviceDown
      BY <2>1, <3>1 DEF DebounceFires, ControlInv, ControlRest, ControlFlags, ControlData, PendingInv, SetupInv
    <3>2. CASE ~serviceDown /\ shouldRun
      <4>1. RestartAudio /\ UNCHANGED <<selection, serviceDown>>
        BY <2>1, <3>2 DEF DebounceFires
      <4>2. running' = FALSE /\ device' = NoDevice
        BY <4>1, Zenon DEF RestartAudio, ReportFailure, CloseDevice
      <4>3. CASE HasUsableChannelSelection(selection)
        <5> DEFINE request == [generation |-> restartGeneration', channels |-> selection]
        <5>1. restartGeneration' \in Nat /\ request \in [generation : Nat, channels : Nat \ {0}]
          BY <4>1, <4>3 DEF RestartAudio, HasUsableChannelSelection, ControlInv, ControlRest,
                            ControlData
        <5>2. requests' = requests \cup {request} /\ UNCHANGED shouldRun
          BY <4>1, <4>3 DEF RestartAudio
        <5>3. ControlData'
          BY <4>1, <5>1, <5>2 DEF ControlInv, ControlRest, ControlData
        <5>4. \E r \in requests' : r.generation = restartGeneration'
          <6>1. request \in requests' /\ request.generation = restartGeneration'
            BY <5>2
          <6> QED  BY <6>1, Zenon
        <5> QED  BY <3>2, <4>1, <4>2, <5>2, <5>3, <5>4, Zenon DEF ControlRest, PendingInv, SetupInv
      <4>4. CASE ~HasUsableChannelSelection(selection)
        <5>1. shouldRun' = FALSE
          BY <4>1, <4>4, Zenon DEF RestartAudio, ReportFailure
        <5>2. ControlData'
          BY <4>1, <4>4 DEF RestartAudio, ControlInv, ControlRest, ControlData
        <5> QED  BY <4>2, <5>1, <5>2, Zenon DEF ControlRest, PendingInv, SetupInv
      <4> QED  BY <4>3, <4>4
    <3>3. CASE ~serviceDown /\ ~shouldRun
      <4>1. ControlData'
        BY <2>1, <3>3 DEF DebounceFires, StopAudioIfRunning, ControlInv, ControlRest, ControlData
      <4>2. running' = FALSE /\ device' = NoDevice /\ UNCHANGED shouldRun
        BY <2>1, <3>3, Zenon DEF DebounceFires, StopAudioIfRunning, CloseDevice
      <4>3. shouldRun' = running'
        BY <3>3, <4>2, Zenon DEF ControlInv, ControlFlags
      <4>4. running' <=> device' # NoDevice
        BY <4>2, Zenon
      <4> QED  BY <3>3, <4>1, <4>2, <4>3, <4>4, Zenon
               DEF ControlRest, PendingInv, SetupInv, ControlInv, ControlFlags
    <3> QED  BY <3>1, <3>2, <3>3
  <2>2. CASE PermissionArrives
    <3>1. PICK request \in requests :
            /\ requests' = requests \ {request}
            /\ IF serviceDown \/ request.generation # restartGeneration \/ ~shouldRun
               THEN UNCHANGED <<shouldRun, running, device, engineChannels, touched>>
               ELSE OpenDevice(request.channels) \/ ReportFailure
            /\ UNCHANGED <<debounced, restartGeneration, selection, serviceDown, presses>>
      BY <2>2 DEF PermissionArrives
    <3>2. CASE serviceDown \/ request.generation # restartGeneration \/ ~shouldRun
      BY <3>1, <3>2 DEF ControlInv, ControlRest, ControlFlags, ControlData, PendingInv, SetupInv
    <3>3. CASE ~(serviceDown \/ request.generation # restartGeneration \/ ~shouldRun)
      BY <3>1, <3>3, OpenDeviceInv
    <3> QED  BY <3>2, <3>3
  <2>3. CASE ShutdownService
    BY <2>3 DEF ShutdownService, StopAudioIfRunning, CloseDevice, ControlInv, ControlRest, ControlFlags, ControlData,
                PendingInv, SetupInv
  <2>4. CASE PressButton
    BY <2>4 DEF PressButton, ControlInv, ControlRest, ControlFlags, ControlData, PendingInv, SetupInv
  <2>5. CASE SelectChannels
    BY <2>5 DEF SelectChannels, ControlInv, ControlRest, ControlFlags, ControlData, PendingInv, SetupInv
  <2>6. CASE MixerChanges
    BY <2>6 DEF MixerChanges, ControlInv, ControlRest, ControlFlags, ControlData, PendingInv, SetupInv
  <2>7. CASE UNCHANGED controlVars
    BY <2>7 DEF controlVars, ControlInv, ControlRest, ControlFlags, ControlData, PendingInv, SetupInv
  <2> QED  BY <2>1, <2>2, <2>3, <2>4, <2>5, <2>6, <2>7 DEF ControlNext
<1>3. ControlInv /\ [ControlNext]_controlVars => ControlInv'
  BY <1>2, FlagsStep DEF ControlInv
<1> QED  BY <1>1, <1>3, PTL DEF ControlSpec

\* AudioService: with nothing pending the device runs exactly when its switch is on,
\* whatever answers of overtaken requests arrive in between.
THEOREM DeviceFollowsSwitch == ControlSpec => []DeviceMatchesSwitch
<1>1. ControlInv => DeviceMatchesSwitch
  BY DEF ControlInv, ControlRest, ControlFlags, ControlData, PendingInv, DeviceMatchesSwitch
<1> QED  BY <1>1, ControlInvariant, PTL

\* AudioService: the engine was prepared for the channels the device was opened with,
\* not for a selection made while the permission was asked for.
THEOREM SetupFollowsDevice == ControlSpec => []SetupMatchesDevice
<1>1. ControlInv => SetupMatchesDevice
  BY DEF ControlInv, ControlRest, SetupInv, SetupMatchesDevice
<1> QED  BY <1>1, ControlInvariant, PTL

-----------------------------------------------------------------------------
(* ClientLifecycle: the order of the message thread's steps *)

\* The steps of engine_.shutdown(), and those after it has waited for the callback.
StopSteps == {"stopRecording", "stopTransmit", "stopReceive", "stopEngine"}
EngineSteps == {"requestShutdown", "awaitCallbacks"} \cup StopSteps

\* All steps of all operations.
Steps ==
  EngineSteps \cup {"endSession", "stopDevice", "deviceStopped", "stopSpectrum", "disconnect",
    "closeGate", "drainGate", "openGate", "releaseLease", "configureEngine", "startEngine",
    "startSession", "reportFailure", "storeConfiguration", "reportRate"}

\* Which step comes after which, wherever it is part of an operation; "idle" ends one.
ShutdownPairs ==
  {<<"endSession", "requestShutdown">>, <<"requestShutdown", "awaitCallbacks">>,
   <<"awaitCallbacks", "stopRecording">>, <<"stopRecording", "stopTransmit">>,
   <<"stopTransmit", "stopReceive">>, <<"stopReceive", "stopEngine">>}
AppPairs == ShutdownPairs \cup
  {<<"stopDevice", "deviceStopped">>, <<"deviceStopped", "stopSpectrum">>,
   <<"stopSpectrum", "idle">>, <<"stopSpectrum", "endSession">>, <<"stopEngine", "idle">>}
PluginPairs == ShutdownPairs \cup
  {<<"disconnect", "closeGate">>, <<"closeGate", "drainGate">>, <<"drainGate", "endSession">>,
   <<"stopEngine", "openGate">>, <<"stopEngine", "releaseLease">>,
   <<"openGate", "releaseLease">>,
   <<"configureEngine", "startEngine">>, <<"startEngine", "startSession">>,
   <<"releaseLease", "idle">>, <<"releaseLease", "reportFailure">>,
   <<"releaseLease", "storeConfiguration">>, <<"releaseLease", "reportRate">>,
   <<"reportFailure", "idle">>, <<"storeConfiguration", "idle">>, <<"reportRate", "idle">>,
   <<"startSession", "idle">>}

\* The steps of connectSession, of which the first is also one of disconnectSession.
ConnectSteps == <<"openGate", "configureEngine", "startEngine", "startSession">>

\* s begins with a, ends with b, and its steps follow one another as in pairs.
Chain(pairs, s, a, b) ==
  /\ s \in Seq(Steps) /\ Len(s) >= 1 /\ s[1] = a /\ s[Len(s)] = b
  /\ \A i \in 1..(Len(s) - 1) : <<s[i], s[i + 1]>> \in pairs

\* Two chains make one if the second may follow the first.
LEMMA ChainOfTwo ==
  ASSUME NEW pairs, NEW s, NEW t, NEW a, NEW b, NEW c, NEW d,
         Chain(pairs, s, a, b), Chain(pairs, t, c, d), <<b, c>> \in pairs
  PROVE  Chain(pairs, s \o t, a, d)
<1> DEFINE r == s \o t
<1>1. /\ s \in Seq(Steps) /\ t \in Seq(Steps)
      /\ Len(s) \in Nat \ {0} /\ Len(t) \in Nat \ {0}
  BY DEF Chain
<1>2. /\ r \in Seq(Steps) /\ Len(r) = Len(s) + Len(t)
      /\ \A i \in 1..Len(s) : r[i] = s[i]
      /\ \A i \in 1..Len(t) : r[Len(s) + i] = t[i]
  <2>1. s \in Seq(Steps) /\ t \in Seq(Steps)
    BY <1>1
  <2> QED  BY <2>1
<1> HIDE DEF r
<1>3. r[1] = a /\ r[Len(r)] = d
  BY <1>1, <1>2 DEF Chain
<1>4. \A i \in 1..(Len(r) - 1) : <<r[i], r[i + 1]>> \in pairs
  <2> SUFFICES ASSUME NEW i \in 1..(Len(r) - 1) PROVE <<r[i], r[i + 1]>> \in pairs
    OBVIOUS
  <2>1. CASE i < Len(s)
    <3>1. i \in 1..(Len(s) - 1) /\ i \in 1..Len(s) /\ i + 1 \in 1..Len(s)
      BY <1>1, <2>1
    <3>2. r[i] = s[i] /\ r[i + 1] = s[i + 1]
      BY <1>2, <3>1
    <3> QED  BY <3>1, <3>2 DEF Chain
  <2>2. CASE i = Len(s)
    <3>1. r[i] = b /\ r[i + 1] = c
      BY <1>1, <1>2, <2>2 DEF Chain
    <3> QED  BY <3>1
  <2>3. CASE i > Len(s)
    <3>1. /\ i - Len(s) \in 1..(Len(t) - 1) /\ i - Len(s) \in 1..Len(t) /\ i - Len(s) + 1 \in 1..Len(t)
          /\ Len(s) + (i - Len(s)) = i /\ Len(s) + (i - Len(s) + 1) = i + 1
      <4>1. \A m, n \in Nat \ {0} : \A k \in 1..(m + n - 1) : k > m =>
              /\ k - m \in 1..(n - 1) /\ k - m \in 1..n /\ k - m + 1 \in 1..n
              /\ m + (k - m) = k /\ m + (k - m + 1) = k + 1
        OBVIOUS
      <4>2. i \in 1..(Len(s) + Len(t) - 1)
        BY <1>2
      <4> QED  BY <1>1, <2>3, <4>1, <4>2, Zenon
    <3>2. r[Len(s) + (i - Len(s))] = t[i - Len(s)] /\ r[Len(s) + (i - Len(s) + 1)] = t[i - Len(s) + 1]
      BY <1>2, <3>1
    <3>3. r[i] = t[i - Len(s)] /\ r[i + 1] = t[i - Len(s) + 1]
      BY <3>1, <3>2
    <3>4. <<t[i - Len(s)], t[i - Len(s) + 1]>> \in pairs
      BY <3>1 DEF Chain
    <3> QED  BY <3>3, <3>4
  <2> QED  BY <1>1, <1>2, <2>1, <2>2, <2>3
<1>5. Len(r) >= 1
  BY <1>1, <1>2
<1> QED  BY <1>2, <1>3, <1>4, <1>5 DEF Chain, r

\* One step is a chain, and so is a short list of steps that follow one another.
LEMMA ShortChains ==
  ASSUME NEW pairs, NEW a \in Steps, NEW b \in Steps, NEW c \in Steps
  PROVE  /\ Chain(pairs, <<a>>, a, a)
         /\ <<a, b>> \in pairs => Chain(pairs, <<a, b>>, a, b)
         /\ <<a, b>> \in pairs /\ <<b, c>> \in pairs => Chain(pairs, <<a, b, c>>, a, c)
<1> HIDE DEF Steps
<1>1. Chain(pairs, <<a>>, a, a)
  <2>1. <<a>> \in Seq(Steps) /\ Len(<<a>>) = 1 /\ <<a>>[1] = a
    OBVIOUS
  <2> QED  BY <2>1 DEF Chain
<1>2. ASSUME <<a, b>> \in pairs PROVE Chain(pairs, <<a, b>>, a, b)
  <2>1. <<a, b>> \in Seq(Steps) /\ Len(<<a, b>>) = 2 /\ <<a, b>>[1] = a /\ <<a, b>>[2] = b
    OBVIOUS
  <2> QED  BY <1>2, <2>1 DEF Chain
<1>3. ASSUME <<a, b>> \in pairs, <<b, c>> \in pairs PROVE Chain(pairs, <<a, b, c>>, a, c)
  <2> DEFINE s == <<a, b, c>>
  <2>1. s \in Seq(Steps) /\ Len(s) = 3 /\ s[1] = a /\ s[2] = b /\ s[3] = c
    OBVIOUS
  <2> HIDE DEF s
  <2>2. \A i \in 1..2 : i = 1 \/ i = 2
    OBVIOUS
  <2>3. \A i \in 1..2 : <<s[i], s[i + 1]>> \in pairs
    BY <1>3, <2>1, <2>2
  <2>4. Chain(pairs, s, a, c)
    BY <2>1, <2>3 DEF Chain
  <2> QED  BY <2>4 DEF s
<1> QED  BY <1>1, <1>2, <1>3

\* So is what engine_.shutdown() does.
LEMMA EngineChain ==
  ASSUME NEW pairs, ShutdownPairs \subseteq pairs
  PROVE  Chain(pairs, EngineShutdown, "requestShutdown", "stopEngine")
<1> DEFINE s == EngineShutdown
<1>1. /\ "requestShutdown" \in Steps /\ "awaitCallbacks" \in Steps /\ "stopRecording" \in Steps
      /\ "stopTransmit" \in Steps /\ "stopReceive" \in Steps /\ "stopEngine" \in Steps
  BY DEF Steps, EngineSteps, StopSteps
<1>2. /\ Len(s) = 6 /\ s[1] = "requestShutdown" /\ s[2] = "awaitCallbacks" /\ s[3] = "stopRecording"
      /\ s[4] = "stopTransmit" /\ s[5] = "stopReceive" /\ s[6] = "stopEngine"
  BY DEF EngineShutdown
<1>3. s \in Seq(Steps)
  <2>1. \A a, b, c, d, e, f \in Steps : <<a, b, c, d, e, f>> \in Seq(Steps)
    OBVIOUS
  <2> QED  BY <1>1, <2>1 DEF EngineShutdown
<1> HIDE DEF s
<1>4. \A i \in 1..5 : i = 1 \/ i = 2 \/ i = 3 \/ i = 4 \/ i = 5
  OBVIOUS
<1>5. \A i \in 1..5 : <<s[i], s[i + 1]>> \in ShutdownPairs
  BY <1>2, <1>4 DEF ShutdownPairs
<1>6. Chain(pairs, s, "requestShutdown", "stopEngine")
  BY <1>2, <1>3, <1>5 DEF Chain
<1> QED  BY <1>6 DEF s

\* Every operation is a chain.
LEMMA Operations ==
  /\ Chain(AppPairs, StopAudio, "stopDevice", "stopSpectrum")
  /\ Chain(AppPairs, AppShutdown, "stopDevice", "stopEngine")
  /\ Chain(PluginPairs, DisconnectSession, "disconnect", "releaseLease")
  /\ \A last \in {"storeConfiguration", "reportRate"} :
       /\ Chain(PluginPairs, <<>> \o <<last>>, last, last)
       /\ Chain(PluginPairs, DisconnectSession \o <<last>>, "disconnect", last)
  /\ Chain(PluginPairs, EngineShutdown \o <<"releaseLease", "reportFailure">>,
           "requestShutdown", "reportFailure")
<1>1. /\ "stopDevice" \in Steps /\ "deviceStopped" \in Steps /\ "stopSpectrum" \in Steps
      /\ "endSession" \in Steps /\ "disconnect" \in Steps /\ "closeGate" \in Steps
      /\ "drainGate" \in Steps /\ "openGate" \in Steps /\ "releaseLease" \in Steps
      /\ "reportFailure" \in Steps /\ "storeConfiguration" \in Steps /\ "reportRate" \in Steps
  BY DEF Steps
<1>2. /\ <<"endSession", "requestShutdown">> \in AppPairs /\ <<"stopSpectrum", "endSession">> \in AppPairs
      /\ <<"stopDevice", "deviceStopped">> \in AppPairs /\ <<"deviceStopped", "stopSpectrum">> \in AppPairs
      /\ ShutdownPairs \subseteq AppPairs
  BY DEF AppPairs, ShutdownPairs
<1>3. /\ <<"endSession", "requestShutdown">> \in PluginPairs /\ <<"drainGate", "endSession">> \in PluginPairs
      /\ <<"disconnect", "closeGate">> \in PluginPairs /\ <<"closeGate", "drainGate">> \in PluginPairs
      /\ <<"stopEngine", "openGate">> \in PluginPairs /\ <<"stopEngine", "releaseLease">> \in PluginPairs
      /\ <<"openGate", "releaseLease">> \in PluginPairs
      /\ <<"releaseLease", "reportFailure">> \in PluginPairs
      /\ <<"releaseLease", "storeConfiguration">> \in PluginPairs
      /\ <<"releaseLease", "reportRate">> \in PluginPairs
      /\ ShutdownPairs \subseteq PluginPairs
  BY DEF PluginPairs, ShutdownPairs
<1>4. /\ Chain(AppPairs, EngineShutdown, "requestShutdown", "stopEngine")
      /\ Chain(PluginPairs, EngineShutdown, "requestShutdown", "stopEngine")
  BY <1>2, <1>3, EngineChain
<1>5. /\ Chain(AppPairs, SessionShutdown, "endSession", "endSession")
      /\ Chain(PluginPairs, SessionShutdown, "endSession", "endSession")
  BY <1>1, ShortChains DEF SessionShutdown
<1>6. Chain(AppPairs, StopAudio, "stopDevice", "stopSpectrum")
  BY <1>1, <1>2, ShortChains DEF StopAudio
<1>7. Chain(AppPairs, AppShutdown, "stopDevice", "stopEngine")
  <2>1. Chain(AppPairs, StopAudio \o SessionShutdown, "stopDevice", "endSession")
    BY <1>2, <1>5, <1>6, ChainOfTwo
  <2> QED  BY <1>2, <1>4, <2>1, ChainOfTwo DEF AppShutdown
<1>8. Chain(PluginPairs, DisconnectSession, "disconnect", "releaseLease")
  <2> DEFINE front == <<"disconnect", "closeGate", "drainGate">>
             back == <<"openGate", "releaseLease">>
  <2>1. Chain(PluginPairs, front, "disconnect", "drainGate")
    BY <1>1, <1>3, ShortChains
  <2>2. Chain(PluginPairs, back, "openGate", "releaseLease")
    BY <1>1, <1>3, ShortChains
  <2> HIDE DEF front, back
  <2>3. Chain(PluginPairs, front \o SessionShutdown, "disconnect", "endSession")
    BY <1>3, <1>5, <2>1, ChainOfTwo
  <2>4. Chain(PluginPairs, (front \o SessionShutdown) \o EngineShutdown, "disconnect", "stopEngine")
    BY <1>3, <1>4, <2>3, ChainOfTwo
  <2>5. Chain(PluginPairs, ((front \o SessionShutdown) \o EngineShutdown) \o back,
              "disconnect", "releaseLease")
    BY <1>3, <2>2, <2>4, ChainOfTwo
  <2> QED  BY <2>5 DEF DisconnectSession, front, back
<1>9. ASSUME NEW last \in {"storeConfiguration", "reportRate"}
      PROVE  /\ Chain(PluginPairs, <<>> \o <<last>>, last, last)
             /\ Chain(PluginPairs, DisconnectSession \o <<last>>, "disconnect", last)
  <2>1. last \in Steps /\ <<"releaseLease", last>> \in PluginPairs
    BY <1>1, <1>3
  <2>2. Chain(PluginPairs, <<last>>, last, last)
    BY <2>1, ShortChains
  <2>3. <<>> \o <<last>> = <<last>>
    BY <2>1
  <2>4. Chain(PluginPairs, DisconnectSession \o <<last>>, "disconnect", last)
    BY <1>8, <2>1, <2>2, ChainOfTwo
  <2> QED  BY <2>2, <2>3, <2>4
<1>10. Chain(PluginPairs, EngineShutdown \o <<"releaseLease", "reportFailure">>,
            "requestShutdown", "reportFailure")
  <2> DEFINE back == <<"releaseLease", "reportFailure">>
  <2>1. Chain(PluginPairs, back, "releaseLease", "reportFailure")
    BY <1>1, <1>3, ShortChains
  <2> HIDE DEF back
  <2>2. Chain(PluginPairs, EngineShutdown \o back, "requestShutdown", "reportFailure")
    BY <1>3, <1>4, <2>1, ChainOfTwo
  <2> QED  BY <2>2 DEF back
<1> QED  BY <1>6, <1>7, <1>8, <1>9, <1>10

-----------------------------------------------------------------------------
(* Where the message thread is *)

\* The step that comes next.
First(s) == IF s = <<>> THEN "idle" ELSE Head(s)
Label == First(message)

\* The rest of an operation.
Flow(pairs, s) == s = <<>> \/ \E b : Chain(pairs, s, Head(s), b) /\ <<b, "idle">> \in pairs

\* The order of steps in the present host.
Pairs == IF host = "app" THEN AppPairs ELSE PluginPairs

\* The message thread is somewhere in an operation of its host.
FlowInv ==
  /\ host \in {"app", "plugin"}
  /\ \/ Flow(Pairs, message)
     \/ host = "plugin" /\ message = ConnectSteps

\* What is left after a step is the rest of an operation again.
LEMMA ChainGoesOn ==
  ASSUME NEW pairs, NEW s, NEW b, Chain(pairs, s, Head(s), b), <<b, "idle">> \in pairs
  PROVE  Flow(pairs, Tail(s)) /\ <<Head(s), First(Tail(s))>> \in pairs
<1>1. Chain(pairs, s, Head(s), b) /\ <<b, "idle">> \in pairs
  OBVIOUS
<1>2. /\ s \in Seq(Steps) /\ Len(s) \in Nat /\ Len(s) >= 1 /\ s[1] = Head(s) /\ s[Len(s)] = b
      /\ \A i \in 1..(Len(s) - 1) : <<s[i], s[i + 1]>> \in pairs
  BY <1>1 DEF Chain
<1>3. /\ Tail(s) \in Seq(Steps) /\ Len(Tail(s)) = Len(s) - 1
      /\ \A i \in 1..(Len(s) - 1) : Tail(s)[i] = s[i + 1]
  BY <1>2
<1> DEFINE t == Tail(s)
<1> HIDE DEF t
<1>4. CASE Len(s) = 1
  <2>0. t \in Seq(Steps) /\ Len(t) = 0
    BY <1>3, <1>4 DEF t
  <2>1. t = <<>>
    BY <2>0
  <2> QED  BY <1>1, <1>2, <1>4, <2>1 DEF Flow, First, t
<1>5. CASE Len(s) # 1
  <2>0. Len(s) - 1 >= 1 /\ 1 \in 1..(Len(s) - 1)
    <3>1. \A n \in Nat : n >= 1 /\ n # 1 => n - 1 >= 1 /\ 1 \in 1..(n - 1)
      OBVIOUS
    <3>2. Len(s) \in Nat /\ Len(s) >= 1
      BY <1>2
    <3> QED  BY <1>5, <3>1, <3>2, Zenon
  <2>1. t \in Seq(Steps) /\ Len(t) = Len(s) - 1 /\ Len(t) >= 1 /\ t # <<>> /\ t[1] = Head(t)
    <3>1. t \in Seq(Steps) /\ Len(t) = Len(s) - 1 /\ Len(t) >= 1
      BY <1>3, <2>0 DEF t
    <3> QED  BY <3>1
  <2>2. t[1] = s[2] /\ t[Len(t)] = b
    BY <1>2, <1>3, <1>5 DEF t
  <2>3. <<Head(s), First(t)>> \in pairs
    <3>1. <<s[1], s[1 + 1]>> \in pairs
      BY <1>2, <2>0
    <3> QED  BY <1>2, <3>1, <2>1, <2>2 DEF First
  <2>4. \A i \in 1..(Len(t) - 1) : <<t[i], t[i + 1]>> \in pairs
    <3> SUFFICES ASSUME NEW i \in 1..(Len(t) - 1) PROVE <<t[i], t[i + 1]>> \in pairs
      OBVIOUS
    <3>1. i \in 1..(Len(s) - 1) /\ i + 1 \in 1..(Len(s) - 1)
      BY <1>2, <2>1
    <3>2. t[i] = s[i + 1] /\ t[i + 1] = s[(i + 1) + 1]
      BY <1>3, <3>1 DEF t
    <3> QED  BY <1>2, <3>1, <3>2
  <2>5. Chain(pairs, t, Head(t), b)
    BY <2>1, <2>2, <2>4 DEF Chain
  <2> QED  BY <1>1, <2>3, <2>5 DEF Flow, t
<1> QED  BY <1>4, <1>5

\* The same, for what is known of message.
LEMMA FlowGoesOn ==
  ASSUME NEW pairs, NEW s, Flow(pairs, s), s # <<>>
  PROVE  Flow(pairs, Tail(s)) /\ <<Head(s), First(Tail(s))>> \in pairs
<1>1. PICK b : Chain(pairs, s, Head(s), b) /\ <<b, "idle">> \in pairs
  BY DEF Flow
<1> QED  BY <1>1, ChainGoesOn

\* A chain that may end an operation is the rest of one.
LEMMA ChainFlows ==
  ASSUME NEW pairs, NEW s, NEW a, NEW b, Chain(pairs, s, a, b), <<b, "idle">> \in pairs
  PROVE  Flow(pairs, s) /\ s # <<>> /\ First(s) = a
<1>1. s \in Seq(Steps) /\ Len(s) >= 1 /\ s[1] = a
  BY DEF Chain
<1>2. s # <<>> /\ Head(s) = a
  BY <1>1
<1> QED  BY <1>2 DEF Flow, First

\* connectSession's first step is told from disconnectSession's by what follows.
LEMMA ConnectFlow ==
  /\ ConnectSteps # <<>> /\ First(ConnectSteps) = "openGate"
  /\ Flow(PluginPairs, Tail(ConnectSteps)) /\ First(Tail(ConnectSteps)) = "configureEngine"
  /\ ~Flow(PluginPairs, ConnectSteps) /\ ~Flow(AppPairs, ConnectSteps)
<1>1. /\ "openGate" \in Steps /\ "configureEngine" \in Steps /\ "startEngine" \in Steps
      /\ "startSession" \in Steps
  BY DEF Steps
<1>2. \A a, b, c, d \in Steps : /\ Tail(<<a, b, c, d>>) = <<b, c, d>> /\ Head(<<a, b, c, d>>) = a
                                /\ <<a, b, c, d>> # <<>>
  OBVIOUS
<1>3. /\ Tail(ConnectSteps) = <<"configureEngine", "startEngine", "startSession">>
      /\ Head(ConnectSteps) = "openGate" /\ ConnectSteps # <<>>
  BY <1>1, <1>2 DEF ConnectSteps
<1>4. /\ <<"configureEngine", "startEngine">> \in PluginPairs
      /\ <<"startEngine", "startSession">> \in PluginPairs /\ <<"startSession", "idle">> \in PluginPairs
      /\ <<"openGate", "configureEngine">> \notin PluginPairs
      /\ <<"openGate", "configureEngine">> \notin AppPairs
  BY DEF PluginPairs, AppPairs, ShutdownPairs
<1>5. Chain(PluginPairs, Tail(ConnectSteps), "configureEngine", "startSession")
  BY <1>1, <1>3, <1>4, ShortChains
<1>6. Flow(PluginPairs, Tail(ConnectSteps)) /\ First(Tail(ConnectSteps)) = "configureEngine"
  BY <1>4, <1>5, ChainFlows
<1>7. ~Flow(PluginPairs, ConnectSteps) /\ ~Flow(AppPairs, ConnectSteps)
  BY <1>3, <1>4, <1>6, FlowGoesOn
<1> QED  BY <1>3, <1>6, <1>7 DEF First

\* What follows a step; in the application no step starts or stops a plug-in.
LEMMA Successors ==
  ASSUME NEW x
  PROVE  /\ <<"disconnect", x>> \in PluginPairs => x = "closeGate"
         /\ <<"closeGate", x>> \in PluginPairs => x = "drainGate"
         /\ <<"drainGate", x>> \in PluginPairs => x = "endSession"
         /\ <<"endSession", x>> \in PluginPairs \cup AppPairs => x = "requestShutdown"
         /\ <<"requestShutdown", x>> \in PluginPairs \cup AppPairs => x = "awaitCallbacks"
         /\ <<"awaitCallbacks", x>> \in PluginPairs \cup AppPairs => x = "stopRecording"
         /\ <<"stopRecording", x>> \in PluginPairs \cup AppPairs => x = "stopTransmit"
         /\ <<"stopTransmit", x>> \in PluginPairs \cup AppPairs => x = "stopReceive"
         /\ <<"stopReceive", x>> \in PluginPairs \cup AppPairs => x = "stopEngine"
         /\ <<"stopEngine", x>> \in PluginPairs => x \in {"openGate", "releaseLease"}
         /\ <<"stopEngine", x>> \in AppPairs => x = "idle"
         /\ <<"openGate", x>> \in PluginPairs => x = "releaseLease"
         /\ <<"releaseLease", x>> \in PluginPairs =>
              x \in {"idle", "reportFailure", "storeConfiguration", "reportRate"}
         /\ <<"configureEngine", x>> \in PluginPairs => x = "startEngine"
         /\ <<"startEngine", x>> \in PluginPairs => x = "startSession"
         /\ <<"reportFailure", x>> \in PluginPairs => x = "idle"
         /\ <<"storeConfiguration", x>> \in PluginPairs => x = "idle"
         /\ <<"reportRate", x>> \in PluginPairs => x = "idle"
         /\ <<"stopDevice", x>> \in AppPairs => x = "deviceStopped"
         /\ <<"deviceStopped", x>> \in AppPairs => x = "stopSpectrum"
         /\ <<"stopSpectrum", x>> \in AppPairs => x \in {"idle", "endSession"}
         /\ \A name \in {"disconnect", "closeGate", "drainGate", "openGate", "releaseLease",
                         "configureEngine", "startEngine", "startSession", "reportFailure",
                         "storeConfiguration", "reportRate"} : <<name, x>> \notin AppPairs
         /\ \A name \in {"stopDevice", "deviceStopped", "stopSpectrum"} : <<name, x>> \notin PluginPairs
  BY DEF PluginPairs, AppPairs, ShutdownPairs

\* A step of the message thread is done and the next one is due.
LEMMA FlowStep ==
  ASSUME FlowInv, message # <<>>, message' = Tail(message), host' = host
  PROVE  /\ FlowInv' /\ message' # ConnectSteps
         /\ IF message = ConnectSteps THEN host = "plugin" /\ Label = "openGate" /\ Label' = "configureEngine"
            ELSE <<Label, Label'>> \in Pairs
<1>1. CASE Flow(Pairs, message)
  <2>1. Flow(Pairs, message') /\ <<Head(message), First(message')>> \in Pairs
    BY <1>1, FlowGoesOn
  <2>2. message # ConnectSteps /\ message' # ConnectSteps
    BY <1>1, <2>1, ConnectFlow DEF Pairs
  <2> QED  BY <2>1, <2>2 DEF FlowInv, Pairs, Label, First
<1>2. CASE host = "plugin" /\ message = ConnectSteps
  <2>1. Flow(PluginPairs, message') /\ First(message') = "configureEngine" /\ First(message) = "openGate"
    BY <1>2, ConnectFlow
  <2>2. message' # ConnectSteps
    BY <2>1, ConnectFlow
  <2> QED  BY <1>2, <2>1, <2>2 DEF FlowInv, Pairs, Label
<1> QED  BY <1>1, <1>2 DEF FlowInv

-----------------------------------------------------------------------------
(* What holds at which step *)

\* The callback announces itself while it is in the engine.
ActiveInv == active = IF processPc \in {"recheck", "chunk"} THEN 1 ELSE 0

\* Once a shutdown waits for the callback none comes in any more, and none is in
\* when the workers are stopped; the network is gone before.
ShutdownInv ==
  /\ Label \in {"awaitCallbacks"} \cup StopSteps => shutdownRequested
  /\ Label \in StopSteps => processPc # "chunk"
  /\ Label \in EngineSteps => ~sessionUp /\ receiver = "none"

\* What a plug-in has at each step of its operations: the lease before anything
\* runs and as long as anything does, and a session only while it is connected or
\* being disconnected.
PluginInv ==
  host = "plugin" =>
    /\ sessionUp \/ started \/ connected => lease = "self"
    /\ connected => Label \in {"idle", "disconnect", "reportRate"}
    /\ connected /\ Label \in {"idle", "reportRate"} =>
         sessionUp /\ configured = configuration /\ rateOk
    /\ ~connected /\ Label \notin {"closeGate", "drainGate", "endSession"} =>
         ~sessionUp /\ receiver = "none"
    /\ ~connected /\ Label \in {"idle", "disconnect", "reportRate", "storeConfiguration",
                                "reportFailure"} => lease # "self"
    /\ Label \in StopSteps \cup {"openGate", "releaseLease", "configureEngine", "startEngine"} => ~started
    /\ message = ConnectSteps \/ Label \in {"configureEngine", "startEngine", "startSession"} =>
         lease = "self" /\ rateOk
    /\ Label \in {"startEngine", "startSession"} => configured = configuration

\* The inductive invariant.
LifecycleInv == FlowInv /\ ActiveInv /\ ShutdownInv /\ PluginInv

\* A step of the audio callback.
LEMMA ProcessStep ==
  ASSUME LifecycleInv, ProcessBegins \/ ProcessGoesOn PROVE LifecycleInv'
<1>1. UNCHANGED <<host, message, connected, lease, rateOk, configuration, configured, sessionUp,
                  receiver, started, shutdownRequested>>
  BY DEF ProcessBegins, ProcessGoesOn, LoadGate, EnterGate, LookAgain, CheckShutdown, Announce,
         RecheckShutdown, FinishChunk, LookUpReceiver, AskReceiver, LeaveProcess, hostVars,
         configurationVars, sessionVars, engineVars
<1>2. FlowInv' /\ PluginInv' /\ Label' = Label
  BY <1>1 DEF LifecycleInv, FlowInv, Pairs, PluginInv, Label
<1>3. ActiveInv'
  BY DEF LifecycleInv, ActiveInv, ProcessBegins, ProcessGoesOn, LoadGate, EnterGate, LookAgain,
         CheckShutdown, Announce, RecheckShutdown, FinishChunk, LookUpReceiver, AskReceiver,
         LeaveProcess, NextPiece, AfterEngine, engineVars
<1>4. processPc # "chunk" /\ processPc' = "chunk" => ~shutdownRequested
  BY DEF ProcessBegins, ProcessGoesOn, LoadGate, EnterGate, LookAgain, CheckShutdown, Announce,
         RecheckShutdown, FinishChunk, LookUpReceiver, AskReceiver, LeaveProcess, NextPiece, AfterEngine
<1>5. ShutdownInv'
  BY <1>1, <1>2, <1>4 DEF LifecycleInv, ShutdownInv
<1> QED  BY <1>2, <1>3, <1>5 DEF LifecycleInv

\* A step of a worker, of the network thread or of another instance.
LEMMA WorkerStep ==
  ASSUME LifecycleInv,
         \/ \E w \in Workers : WorkerBegins(w) \/ WorkerFinishes(w)
         \/ Deliver \/ Delivered \/ OtherInstance
  PROVE  LifecycleInv'
<1>1. /\ UNCHANGED <<host, message, connected, rateOk, configuration, configured, sessionUp, started,
                     shutdownRequested, active, processPc>>
      /\ receiver = "none" <=> receiver' = "none"
      /\ lease = "self" <=> lease' = "self"
  BY DEF WorkerBegins, WorkerFinishes, Deliver, Delivered, OtherInstance, hostVars,
         configurationVars, sessionVars, engineVars, processVars
<1>2. FlowInv' /\ Label' = Label
  BY <1>1 DEF LifecycleInv, FlowInv, Pairs, Label
<1>3. ActiveInv' /\ ShutdownInv'
  BY <1>1, <1>2 DEF LifecycleInv, ActiveInv, ShutdownInv
<1>4. PluginInv'
  BY <1>1, <1>2 DEF LifecycleInv, PluginInv
<1> QED  BY <1>2, <1>3, <1>4 DEF LifecycleInv

\* Where the message thread is before and after it has done a step.
LEMMA StepDone ==
  ASSUME LifecycleInv, NEW name, Step(name), host' = host
  PROVE  /\ FlowInv' /\ message' # ConnectSteps /\ Label = name
         /\ \/ host = "app" /\ <<name, Label'>> \in AppPairs
            \/ host = "plugin" /\ <<name, Label'>> \in PluginPairs
            \/ /\ host = "plugin" /\ message = ConnectSteps
               /\ name = "openGate" /\ Label' = "configureEngine"
<1>1. FlowInv /\ message # <<>> /\ message' = Tail(message) /\ Head(message) = name
  BY DEF LifecycleInv, Step
<1>2. Label = name
  BY <1>1 DEF Label, First
<1> QED  BY <1>1, <1>2, FlowStep DEF Pairs, FlowInv

\* The steps that end a session and stop the engine.
LEMMA ShutdownStep ==
  ASSUME LifecycleInv,
         \/ EndSession \/ RequestShutdown \/ AwaitCallbacks
         \/ \E w \in {"recording", "transmit", "receive"} : StopWorker(w)
  PROVE  LifecycleInv'
<1> USE DEF configurationVars, hostVars, sessionVars, engineVars, processVars
<1>1. CASE EndSession
  <2>1. FlowInv' /\ message' # ConnectSteps /\ Label = "endSession" /\ Label' = "requestShutdown"
    <3>1. Step("endSession") /\ host' = host
      BY <1>1 DEF EndSession
    <3>2. /\ FlowInv' /\ message' # ConnectSteps /\ Label = "endSession"
          /\ <<"endSession", Label'>> \in PluginPairs \cup AppPairs
      BY <3>1, StepDone
    <3> QED  BY <3>2, Successors
  <2>2. ActiveInv' /\ ShutdownInv' 
    BY <1>1, <2>1 DEF EndSession, LifecycleInv, ActiveInv, ShutdownInv, StopSteps
  <2>3. PluginInv'
    BY <1>1, <2>1 DEF EndSession, LifecycleInv, PluginInv, StopSteps
  <2> QED  BY <2>1, <2>2, <2>3 DEF LifecycleInv
<1>2. CASE RequestShutdown
  <2>1. FlowInv' /\ message' # ConnectSteps /\ Label = "requestShutdown" /\ Label' = "awaitCallbacks"
    <3>1. Step("requestShutdown") /\ host' = host
      BY <1>2 DEF RequestShutdown
    <3>2. /\ FlowInv' /\ message' # ConnectSteps /\ Label = "requestShutdown"
          /\ <<"requestShutdown", Label'>> \in PluginPairs \cup AppPairs
      BY <3>1, StepDone
    <3> QED  BY <3>2, Successors
  <2>2. ActiveInv' /\ ShutdownInv' 
    BY <1>2, <2>1 DEF RequestShutdown, LifecycleInv, ActiveInv, ShutdownInv, StopSteps, EngineSteps
  <2>3. PluginInv'
    BY <1>2, <2>1 DEF RequestShutdown, LifecycleInv, PluginInv, StopSteps
  <2> QED  BY <2>1, <2>2, <2>3 DEF LifecycleInv
<1>3. CASE AwaitCallbacks
  <2>1. FlowInv' /\ message' # ConnectSteps /\ Label = "awaitCallbacks" /\ Label' = "stopRecording"
    <3>1. Step("awaitCallbacks") /\ host' = host
      BY <1>3 DEF AwaitCallbacks
    <3>2. /\ FlowInv' /\ message' # ConnectSteps /\ Label = "awaitCallbacks"
          /\ <<"awaitCallbacks", Label'>> \in PluginPairs \cup AppPairs
      BY <3>1, StepDone
    <3> QED  BY <3>2, Successors
  <2>2. ActiveInv' /\ ShutdownInv' 
    BY <1>3, <2>1 DEF AwaitCallbacks, LifecycleInv, ActiveInv, ShutdownInv, StopSteps, EngineSteps
  <2>3. PluginInv'
    BY <1>3, <2>1 DEF AwaitCallbacks, LifecycleInv, PluginInv, StopSteps
  <2> QED  BY <2>1, <2>2, <2>3 DEF LifecycleInv
<1>4. ASSUME NEW w \in {"recording", "transmit", "receive"}, StopWorker(w)
      PROVE  LifecycleInv'
  <2>1. Step(StepOf[w]) /\ StepOf[w] \in {"stopRecording", "stopTransmit", "stopReceive"}
    BY <1>4 DEF StopWorker, StepOf
  <2>2. /\ FlowInv' /\ message' # ConnectSteps /\ Label \in {"stopRecording", "stopTransmit", "stopReceive"}
        /\ Label' \in {"stopTransmit", "stopReceive", "stopEngine"}
    <3>1. host' = host
      BY <1>4 DEF StopWorker
    <3> QED  BY <2>1, <3>1, StepDone, Successors
  <2>3. ActiveInv' /\ ShutdownInv' 
    BY <1>4, <2>2 DEF StopWorker, LifecycleInv, ActiveInv, ShutdownInv, StopSteps, EngineSteps
  <2>4. PluginInv'
    BY <1>4, <2>2 DEF StopWorker, LifecycleInv, PluginInv, StopSteps
  <2> QED  BY <2>2, <2>3, <2>4 DEF LifecycleInv
<1> QED  BY <1>1, <1>2, <1>3, <1>4

\* The other steps of a plug-in, but for the first and the last of connectSession.
LEMMA PluginStep ==
  ASSUME LifecycleInv,
         \/ Disconnect \/ CloseGate \/ DrainGate \/ ReleaseLease \/ ConfigureEngine
         \/ StoreConfiguration \/ StartEngine \/ ReportSessionFailure \/ ReportRate
  PROVE  LifecycleInv'
<1> USE DEF configurationVars, hostVars, sessionVars, engineVars, processVars
<1>1. CASE Disconnect
  <2>1. host' = host /\ host = "plugin" /\ FlowInv' /\ message' # ConnectSteps /\ Label = "disconnect" /\ Label' = "closeGate"
    <3>1. Step("disconnect") /\ host' = host
      BY <1>1 DEF Disconnect
    <3>2. /\ FlowInv' /\ message' # ConnectSteps /\ Label = "disconnect"
          /\ \/ host = "app" /\ <<"disconnect", Label'>> \in AppPairs
             \/ host = "plugin" /\ <<"disconnect", Label'>> \in PluginPairs
      BY <3>1, StepDone
    <3> QED  BY <3>1, <3>2, Successors
  <2>2. ActiveInv' /\ ShutdownInv'
    BY <1>1, <2>1 DEF Disconnect, LifecycleInv, ActiveInv, ShutdownInv, StopSteps, EngineSteps
  <2>3. PluginInv'
    BY <1>1, <2>1 DEF Disconnect, LifecycleInv, PluginInv, StopSteps
  <2> QED  BY <2>1, <2>2, <2>3 DEF LifecycleInv
<1>2. CASE CloseGate
  <2>1. host' = host /\ host = "plugin" /\ FlowInv' /\ message' # ConnectSteps /\ Label = "closeGate" /\ Label' = "drainGate"
    <3>1. Step("closeGate") /\ host' = host
      BY <1>2 DEF CloseGate
    <3>2. /\ FlowInv' /\ message' # ConnectSteps /\ Label = "closeGate"
          /\ \/ host = "app" /\ <<"closeGate", Label'>> \in AppPairs
             \/ host = "plugin" /\ <<"closeGate", Label'>> \in PluginPairs
      BY <3>1, StepDone
    <3> QED  BY <3>1, <3>2, Successors
  <2>2. ActiveInv' /\ ShutdownInv'
    BY <1>2, <2>1 DEF CloseGate, LifecycleInv, ActiveInv, ShutdownInv, StopSteps, EngineSteps
  <2>3. PluginInv'
    BY <1>2, <2>1 DEF CloseGate, LifecycleInv, PluginInv, StopSteps
  <2> QED  BY <2>1, <2>2, <2>3 DEF LifecycleInv
<1>3. CASE DrainGate
  <2>1. host' = host /\ host = "plugin" /\ FlowInv' /\ message' # ConnectSteps /\ Label = "drainGate" /\ Label' = "endSession"
    <3>1. Step("drainGate") /\ host' = host
      BY <1>3 DEF DrainGate
    <3>2. /\ FlowInv' /\ message' # ConnectSteps /\ Label = "drainGate"
          /\ \/ host = "app" /\ <<"drainGate", Label'>> \in AppPairs
             \/ host = "plugin" /\ <<"drainGate", Label'>> \in PluginPairs
      BY <3>1, StepDone
    <3> QED  BY <3>1, <3>2, Successors
  <2>2. ActiveInv' /\ ShutdownInv'
    BY <1>3, <2>1 DEF DrainGate, LifecycleInv, ActiveInv, ShutdownInv, StopSteps, EngineSteps
  <2>3. PluginInv'
    BY <1>3, <2>1 DEF DrainGate, LifecycleInv, PluginInv, StopSteps
  <2> QED  BY <2>1, <2>2, <2>3 DEF LifecycleInv
<1>4. CASE ReleaseLease
  <2>1. host' = host /\ host = "plugin" /\ FlowInv' /\ message' # ConnectSteps /\ Label = "releaseLease" /\ Label' \in {"idle", "reportFailure", "storeConfiguration", "reportRate"}
    <3>1. Step("releaseLease") /\ host' = host
      BY <1>4 DEF ReleaseLease
    <3>2. /\ FlowInv' /\ message' # ConnectSteps /\ Label = "releaseLease"
          /\ \/ host = "app" /\ <<"releaseLease", Label'>> \in AppPairs
             \/ host = "plugin" /\ <<"releaseLease", Label'>> \in PluginPairs
      BY <3>1, StepDone
    <3> QED  BY <3>1, <3>2, Successors
  <2>2. ActiveInv' /\ ShutdownInv'
    BY <1>4, <2>1 DEF ReleaseLease, LifecycleInv, ActiveInv, ShutdownInv, StopSteps, EngineSteps
  <2>3. PluginInv'
    BY <1>4, <2>1 DEF ReleaseLease, LifecycleInv, PluginInv, StopSteps
  <2> QED  BY <2>1, <2>2, <2>3 DEF LifecycleInv
<1>5. CASE ConfigureEngine
  <2>1. host' = host /\ host = "plugin" /\ FlowInv' /\ message' # ConnectSteps /\ Label = "configureEngine" /\ Label' = "startEngine"
    <3>1. Step("configureEngine") /\ host' = host
      BY <1>5 DEF ConfigureEngine
    <3>2. /\ FlowInv' /\ message' # ConnectSteps /\ Label = "configureEngine"
          /\ \/ host = "app" /\ <<"configureEngine", Label'>> \in AppPairs
             \/ host = "plugin" /\ <<"configureEngine", Label'>> \in PluginPairs
      BY <3>1, StepDone
    <3> QED  BY <3>1, <3>2, Successors
  <2>2. ActiveInv' /\ ShutdownInv'
    BY <1>5, <2>1 DEF ConfigureEngine, LifecycleInv, ActiveInv, ShutdownInv, StopSteps, EngineSteps
  <2>3. PluginInv'
    BY <1>5, <2>1 DEF ConfigureEngine, LifecycleInv, PluginInv, StopSteps
  <2> QED  BY <2>1, <2>2, <2>3 DEF LifecycleInv
<1>6. CASE StoreConfiguration
  <2>1. host' = host /\ host = "plugin" /\ FlowInv' /\ message' # ConnectSteps /\ Label = "storeConfiguration" /\ Label' = "idle"
    <3>1. Step("storeConfiguration") /\ host' = host
      BY <1>6 DEF StoreConfiguration
    <3>2. /\ FlowInv' /\ message' # ConnectSteps /\ Label = "storeConfiguration"
          /\ \/ host = "app" /\ <<"storeConfiguration", Label'>> \in AppPairs
             \/ host = "plugin" /\ <<"storeConfiguration", Label'>> \in PluginPairs
      BY <3>1, StepDone
    <3> QED  BY <3>1, <3>2, Successors
  <2>2. ActiveInv' /\ ShutdownInv'
    BY <1>6, <2>1 DEF StoreConfiguration, LifecycleInv, ActiveInv, ShutdownInv, StopSteps, EngineSteps
  <2>3. PluginInv'
    BY <1>6, <2>1 DEF StoreConfiguration, LifecycleInv, PluginInv, StopSteps
  <2> QED  BY <2>1, <2>2, <2>3 DEF LifecycleInv
<1>7. CASE StartEngine
  <2>1. host' = host /\ host = "plugin" /\ FlowInv' /\ message' # ConnectSteps /\ Label = "startEngine" /\ Label' = "startSession"
    <3>1. Step("startEngine") /\ host' = host
      BY <1>7 DEF StartEngine
    <3>2. /\ FlowInv' /\ message' # ConnectSteps /\ Label = "startEngine"
          /\ \/ host = "app" /\ <<"startEngine", Label'>> \in AppPairs
             \/ host = "plugin" /\ <<"startEngine", Label'>> \in PluginPairs
      BY <3>1, StepDone
    <3> QED  BY <3>1, <3>2, Successors
  <2>2. ActiveInv' /\ ShutdownInv'
    BY <1>7, <2>1 DEF StartEngine, LifecycleInv, ActiveInv, ShutdownInv, StopSteps, EngineSteps
  <2>3. PluginInv'
    BY <1>7, <2>1 DEF StartEngine, LifecycleInv, PluginInv, StopSteps
  <2> QED  BY <2>1, <2>2, <2>3 DEF LifecycleInv
<1>8. CASE ReportSessionFailure
  <2>1. host' = host /\ host = "plugin" /\ FlowInv' /\ message' # ConnectSteps /\ Label = "reportFailure" /\ Label' = "idle"
    <3>1. Step("reportFailure") /\ host' = host
      BY <1>8 DEF ReportSessionFailure
    <3>2. /\ FlowInv' /\ message' # ConnectSteps /\ Label = "reportFailure"
          /\ \/ host = "app" /\ <<"reportFailure", Label'>> \in AppPairs
             \/ host = "plugin" /\ <<"reportFailure", Label'>> \in PluginPairs
      BY <3>1, StepDone
    <3> QED  BY <3>1, <3>2, Successors
  <2>2. ActiveInv' /\ ShutdownInv'
    BY <1>8, <2>1 DEF ReportSessionFailure, LifecycleInv, ActiveInv, ShutdownInv, StopSteps, EngineSteps
  <2>3. PluginInv'
    BY <1>8, <2>1 DEF ReportSessionFailure, LifecycleInv, PluginInv, StopSteps
  <2> QED  BY <2>1, <2>2, <2>3 DEF LifecycleInv
<1>9. CASE ReportRate
  <2>1. host' = host /\ host = "plugin" /\ FlowInv' /\ message' # ConnectSteps /\ Label = "reportRate" /\ Label' = "idle"
    <3>1. Step("reportRate") /\ host' = host
      BY <1>9 DEF ReportRate
    <3>2. /\ FlowInv' /\ message' # ConnectSteps /\ Label = "reportRate"
          /\ \/ host = "app" /\ <<"reportRate", Label'>> \in AppPairs
             \/ host = "plugin" /\ <<"reportRate", Label'>> \in PluginPairs
      BY <3>1, StepDone
    <3> QED  BY <3>1, <3>2, Successors
  <2>2. ActiveInv' /\ ShutdownInv'
    BY <1>9, <2>1 DEF ReportRate, LifecycleInv, ActiveInv, ShutdownInv, StopSteps, EngineSteps
  <2>3. PluginInv'
    BY <1>9, <2>1 DEF ReportRate, LifecycleInv, PluginInv, StopSteps
  <2> QED  BY <2>1, <2>2, <2>3 DEF LifecycleInv
<1> QED  BY <1>1, <1>2, <1>3, <1>4, <1>5, <1>6, <1>7, <1>8, <1>9

\* The steps with which the application stops its device.
LEMMA AppStep ==
  ASSUME LifecycleInv, StopDevice \/ DeviceStopped \/ StopWorker("spectrum")
  PROVE  LifecycleInv'
<1> USE DEF configurationVars, hostVars, sessionVars, engineVars, processVars
<1>1. CASE StopDevice
  <2>1. host' = host /\ host = "app" /\ FlowInv' /\ message' # ConnectSteps /\ Label = "stopDevice" /\ Label' = "deviceStopped"
    <3>1. Step("stopDevice") /\ host' = host
      BY <1>1 DEF StopDevice
    <3>2. /\ FlowInv' /\ message' # ConnectSteps /\ Label = "stopDevice"
          /\ \/ host = "app" /\ <<"stopDevice", Label'>> \in AppPairs
             \/ host = "plugin" /\ <<"stopDevice", Label'>> \in PluginPairs
      BY <3>1, StepDone
    <3> QED  BY <3>1, <3>2, Successors
  <2>2. ActiveInv' /\ ShutdownInv'
    BY <1>1, <2>1 DEF StopDevice, LifecycleInv, ActiveInv, ShutdownInv, StopSteps, EngineSteps
  <2>3. PluginInv'
    BY <2>1 DEF PluginInv
  <2> QED  BY <2>1, <2>2, <2>3 DEF LifecycleInv
<1>2. CASE DeviceStopped
  <2>1. host' = host /\ host = "app" /\ FlowInv' /\ message' # ConnectSteps /\ Label = "deviceStopped" /\ Label' = "stopSpectrum"
    <3>1. Step("deviceStopped") /\ host' = host
      BY <1>2 DEF DeviceStopped
    <3>2. /\ FlowInv' /\ message' # ConnectSteps /\ Label = "deviceStopped"
          /\ \/ host = "app" /\ <<"deviceStopped", Label'>> \in AppPairs
             \/ host = "plugin" /\ <<"deviceStopped", Label'>> \in PluginPairs
      BY <3>1, StepDone
    <3> QED  BY <3>1, <3>2, Successors
  <2>2. ActiveInv' /\ ShutdownInv'
    BY <1>2, <2>1 DEF DeviceStopped, LifecycleInv, ActiveInv, ShutdownInv, StopSteps, EngineSteps
  <2>3. PluginInv'
    BY <2>1 DEF PluginInv
  <2> QED  BY <2>1, <2>2, <2>3 DEF LifecycleInv
<1>3. CASE StopWorker("spectrum")
  <2>1. host' = host /\ host = "app" /\ FlowInv' /\ message' # ConnectSteps /\ Label = "stopSpectrum" /\ Label' \in {"idle", "endSession"}
    <3>1. Step("stopSpectrum") /\ host' = host
      BY <1>3 DEF StopWorker, StepOf
    <3>2. /\ FlowInv' /\ message' # ConnectSteps /\ Label = "stopSpectrum"
          /\ \/ host = "app" /\ <<"stopSpectrum", Label'>> \in AppPairs
             \/ host = "plugin" /\ <<"stopSpectrum", Label'>> \in PluginPairs
      BY <3>1, StepDone
    <3> QED  BY <3>1, <3>2, Successors
  <2>2. ActiveInv' /\ ShutdownInv'
    BY <1>3, <2>1 DEF StopWorker, StepOf, LifecycleInv, ActiveInv, ShutdownInv, StopSteps, EngineSteps
  <2>3. PluginInv'
    BY <2>1 DEF PluginInv
  <2> QED  BY <2>1, <2>2, <2>3 DEF LifecycleInv
<1> QED  BY <1>1, <1>2, <1>3

\* The end of both shutdowns, the gate that is opened again after a disconnection or
\* before a connection, and a session that is started or not.
LEMMA TurningStep ==
  ASSUME LifecycleInv, StopEngine \/ OpenGate \/ StartSession PROVE LifecycleInv'
<1> USE DEF configurationVars, hostVars, sessionVars, engineVars, processVars
<1>1. CASE StopEngine
  <2>1. /\ host' = host /\ FlowInv' /\ message' # ConnectSteps /\ Label = "stopEngine"
        /\ Label' \in {"idle", "openGate", "releaseLease"} /\ (host = "plugin" => Label' # "idle")
    <3>1. Step("stopEngine") /\ host' = host
      BY <1>1 DEF StopEngine
    <3>2. /\ FlowInv' /\ message' # ConnectSteps /\ Label = "stopEngine"
          /\ \/ host = "app" /\ <<"stopEngine", Label'>> \in AppPairs
             \/ host = "plugin" /\ <<"stopEngine", Label'>> \in PluginPairs
      BY <3>1, StepDone
    <3> QED  BY <3>1, <3>2, Successors
  <2>2. ActiveInv' /\ ShutdownInv'
    BY <1>1, <2>1 DEF StopEngine, LifecycleInv, ActiveInv, ShutdownInv, StopSteps, EngineSteps
  <2>3. PluginInv'
    BY <1>1, <2>1 DEF StopEngine, LifecycleInv, PluginInv, StopSteps
  <2> QED  BY <2>1, <2>2, <2>3 DEF LifecycleInv
<1>2. CASE OpenGate
  <2>1. /\ host' = host /\ host = "plugin" /\ FlowInv' /\ message' # ConnectSteps /\ Label = "openGate"
        /\ Label' = "releaseLease" \/ (message = ConnectSteps /\ Label' = "configureEngine")
    <3>1. Step("openGate") /\ host' = host
      BY <1>2 DEF OpenGate
    <3>2. /\ FlowInv' /\ message' # ConnectSteps /\ Label = "openGate"
          /\ \/ host = "app" /\ <<"openGate", Label'>> \in AppPairs
             \/ host = "plugin" /\ <<"openGate", Label'>> \in PluginPairs
             \/ host = "plugin" /\ message = ConnectSteps /\ Label' = "configureEngine"
      BY <3>1, StepDone
    <3> QED  BY <3>1, <3>2, Successors
  <2>2. ActiveInv' /\ ShutdownInv'
    BY <1>2, <2>1 DEF OpenGate, LifecycleInv, ActiveInv, ShutdownInv, StopSteps, EngineSteps
  <2>3. PluginInv'
    BY <1>2, <2>1 DEF OpenGate, LifecycleInv, PluginInv, StopSteps
  <2> QED  BY <2>1, <2>2, <2>3 DEF LifecycleInv
<1>3. CASE StartSession
  <2>1. host' = host /\ host = "plugin" /\ Label = "startSession"
    <3>1. message # <<>> /\ Head(message) = "startSession" /\ host' = host
      BY <1>3 DEF StartSession
    <3>2. CASE Flow(Pairs, message)
      <4>1. <<"startSession", First(Tail(message))>> \in Pairs
        BY <3>1, <3>2, FlowGoesOn
      <4>2. <<"startSession", First(Tail(message))>> \notin AppPairs
        BY Successors
      <4> QED  BY <3>1, <4>1, <4>2 DEF Pairs, LifecycleInv, FlowInv, Label, First
    <3>3. CASE ~Flow(Pairs, message)
      <4>1. message = ConnectSteps
        BY <3>3 DEF LifecycleInv, FlowInv
      <4> QED  BY <3>1, <4>1, ConnectFlow DEF First
    <3> QED  BY <3>2, <3>3
  <2>2. ~connected /\ ~sessionUp /\ receiver = "none"
    BY <2>1 DEF LifecycleInv, PluginInv
  <2>3. /\ FlowInv' /\ message' # ConnectSteps
        /\ \/ /\ Label' = "idle" /\ sessionUp' = TRUE /\ receiver' = "listening" /\ connected' = TRUE
           \/ Label' = "requestShutdown" /\ UNCHANGED <<sessionUp, receiver, connected>>
    <3>1. CASE /\ sessionUp' = TRUE /\ receiver' = "listening" /\ connected' = TRUE /\ message' = <<>>
      BY <2>1, <3>1, ConnectFlow DEF LifecycleInv, FlowInv, Flow, Label, First
    <3>2. CASE /\ message' = EngineShutdown \o <<"releaseLease", "reportFailure">>
               /\ UNCHANGED <<sessionUp, receiver, connected>>
      <4>1. Chain(PluginPairs, message', "requestShutdown", "reportFailure")
        BY <3>2, Operations
      <4>2. <<"reportFailure", "idle">> \in PluginPairs
        BY DEF PluginPairs
      <4>3. Flow(PluginPairs, message') /\ First(message') = "requestShutdown"
        BY <4>1, <4>2, ChainFlows
      <4> QED  BY <2>1, <3>2, <4>3, ConnectFlow DEF LifecycleInv, FlowInv, Pairs, Label
    <3> QED  BY <1>3, <3>1, <3>2 DEF StartSession
  <2>4. ActiveInv' /\ ShutdownInv'
    BY <1>3, <2>1, <2>2, <2>3 DEF StartSession, LifecycleInv, ActiveInv, ShutdownInv, StopSteps, EngineSteps
  <2>5. PluginInv'
    BY <1>3, <2>1, <2>2, <2>3 DEF StartSession, LifecycleInv, PluginInv, StopSteps
  <2> QED  BY <2>3, <2>4, <2>5 DEF LifecycleInv
<1> QED  BY <1>1, <1>2, <1>3

\* Where the message thread is when an operation has begun.
LEMMA BeginLabels ==
  /\ \A m : m = <<>> => First(m) = "idle"
  /\ Flow(AppPairs, StopAudio) /\ First(StopAudio) = "stopDevice"
  /\ Flow(AppPairs, AppShutdown) /\ First(AppShutdown) = "stopDevice"
  /\ Flow(PluginPairs, DisconnectSession) /\ First(DisconnectSession) = "disconnect"
  /\ \A last \in {"storeConfiguration", "reportRate"} :
       /\ Flow(PluginPairs, <<>> \o <<last>>) /\ First(<<>> \o <<last>>) = last
       /\ Flow(PluginPairs, DisconnectSession \o <<last>>)
       /\ First(DisconnectSession \o <<last>>) = "disconnect"
<1>1. /\ <<"stopSpectrum", "idle">> \in AppPairs /\ <<"stopEngine", "idle">> \in AppPairs
      /\ <<"releaseLease", "idle">> \in PluginPairs
      /\ \A last \in {"storeConfiguration", "reportRate"} : <<last, "idle">> \in PluginPairs
  BY DEF AppPairs, PluginPairs
<1>2. /\ Flow(AppPairs, StopAudio) /\ First(StopAudio) = "stopDevice"
      /\ Flow(AppPairs, AppShutdown) /\ First(AppShutdown) = "stopDevice"
      /\ Flow(PluginPairs, DisconnectSession) /\ First(DisconnectSession) = "disconnect"
  BY <1>1, Operations, ChainFlows
<1>3. ASSUME NEW last \in {"storeConfiguration", "reportRate"}
      PROVE  /\ Flow(PluginPairs, <<>> \o <<last>>) /\ First(<<>> \o <<last>>) = last
             /\ Flow(PluginPairs, DisconnectSession \o <<last>>)
             /\ First(DisconnectSession \o <<last>>) = "disconnect"
  <2>1. /\ Chain(PluginPairs, <<>> \o <<last>>, last, last) /\ <<last, "idle">> \in PluginPairs
        /\ Chain(PluginPairs, DisconnectSession \o <<last>>, "disconnect", last)
    BY <1>1, Operations
  <2> QED  BY <2>1, ChainFlows
<1>4. \A m : m = <<>> => First(m) = "idle"
  BY DEF First
<1> QED  BY <1>2, <1>3, <1>4

\* An operation of the plug-in begins, with the steps it takes at once.
LEMMA PluginBegins ==
  ASSUME LifecycleInv,
         ConnectSession \/ BeginDisconnect \/ EnterConfiguration \/ GetStateInformation
           \/ SetStateInformation \/ PrepareToPlay
  PROVE  LifecycleInv'
<1> USE DEF configurationVars, hostVars, sessionVars, engineVars, processVars
<1>1. host' = host /\ host = "plugin" /\ message = <<>> /\ Label = "idle"
  BY BeginLabels DEF ConnectSession, BeginDisconnect, EnterConfiguration, GetStateInformation,
       SetStateInformation, PrepareToPlay, Begin, Label
<1>2. ASSUME Flow(PluginPairs, message'), Label' \in {"idle", "disconnect", "storeConfiguration", "reportRate"},
             UNCHANGED <<sessionUp, receiver, started, shutdownRequested, active, processPc>>
      PROVE  FlowInv' /\ message' # ConnectSteps /\ ActiveInv' /\ ShutdownInv'
  BY <1>1, <1>2, ConnectFlow
     DEF LifecycleInv, FlowInv, Pairs, ActiveInv, ShutdownInv, StopSteps, EngineSteps
<1>3. CASE ConnectSession
  <2>1. UNCHANGED <<sessionUp, receiver, started, shutdownRequested, active, processPc, connected,
                    rateOk, configuration, configured>> /\ ~connected
    BY <1>3 DEF ConnectSession
  <2>2. CASE UNCHANGED <<lease, message>>
    <3>1. FlowInv' /\ message' # ConnectSteps /\ ActiveInv' /\ ShutdownInv' /\ Label' = "idle"
      BY <1>1, <1>2, <2>1, <2>2 DEF Label, Flow
    <3>2. PluginInv'
      BY <1>1, <2>1, <2>2, <3>1 DEF LifecycleInv, PluginInv, StopSteps
    <3> QED  BY <3>1, <3>2 DEF LifecycleInv
  <2>3. CASE rateOk /\ lease = "none" /\ lease' = "self" /\ message' = ConnectSteps
    <3>1. Label' = "openGate"
      BY <2>3, ConnectFlow DEF Label
    <3>2. FlowInv' /\ ActiveInv' /\ ShutdownInv'
      BY <1>1, <2>1, <2>3, <3>1 DEF LifecycleInv, FlowInv, ActiveInv, ShutdownInv, StopSteps, EngineSteps
    <3>3. PluginInv'
      BY <1>1, <2>1, <2>3, <3>1 DEF LifecycleInv, PluginInv, StopSteps
    <3> QED  BY <3>2, <3>3 DEF LifecycleInv
  <2> QED  BY <1>3, <2>2, <2>3 DEF ConnectSession, ConnectSteps
<1>4. CASE BeginDisconnect
  <2>1. Flow(PluginPairs, message') /\ Label' = "disconnect"
    BY <1>4, BeginLabels DEF BeginDisconnect, Label
  <2>2. FlowInv' /\ message' # ConnectSteps /\ ActiveInv' /\ ShutdownInv'
    BY <1>2, <1>4, <2>1 DEF BeginDisconnect
  <2>3. PluginInv'
    BY <1>1, <1>4, <2>1, <2>2 DEF BeginDisconnect, LifecycleInv, PluginInv, StopSteps
  <2> QED  BY <2>2, <2>3 DEF LifecycleInv
<1>5. ASSUME NEW c, SetConfiguration(c), UNCHANGED <<host, hostVars, sessionVars, engineVars, processVars>>
      PROVE  LifecycleInv'
  <2>1. Flow(PluginPairs, message') /\ Label' = IF connected THEN "disconnect" ELSE "storeConfiguration"
    <3>1. CASE connected
      BY <1>5, <3>1, BeginLabels DEF SetConfiguration, Label
    <3>2. CASE ~connected
      BY <1>5, <3>2, BeginLabels DEF SetConfiguration, Label
    <3> QED  BY <3>1, <3>2
  <2>2. FlowInv' /\ message' # ConnectSteps /\ ActiveInv' /\ ShutdownInv'
    BY <1>2, <1>5, <2>1
  <2>3. UNCHANGED <<configuration, configured>>
    BY <1>5 DEF SetConfiguration
  <2>4. PluginInv'
    BY <1>1, <1>5, <2>1, <2>2, <2>3 DEF LifecycleInv, PluginInv, StopSteps
  <2> QED  BY <2>2, <2>4 DEF LifecycleInv
<1>6. CASE EnterConfiguration \/ SetStateInformation
  BY <1>5, <1>6 DEF EnterConfiguration, SetStateInformation
<1>7. CASE GetStateInformation
  <2>1. Flow(PluginPairs, message') /\ Label' = "idle"
    BY <1>1, <1>7 DEF GetStateInformation, Label, Flow
  <2>2. FlowInv' /\ message' # ConnectSteps /\ ActiveInv' /\ ShutdownInv'
    BY <1>2, <1>7, <2>1 DEF GetStateInformation
  <2>3. PluginInv'
    BY <1>1, <1>7, <2>1, <2>2 DEF GetStateInformation, LifecycleInv, PluginInv, StopSteps
  <2> QED  BY <2>2, <2>3 DEF LifecycleInv
<1>8. CASE PrepareToPlay
  <2>1. PICK ok \in BOOLEAN :
          /\ rateOk' = ok
          /\ message' = (IF connected /\ ok # rateOk THEN DisconnectSession ELSE <<>>) \o <<"reportRate">>
    BY <1>8 DEF PrepareToPlay
  <2>2. /\ Flow(PluginPairs, message')
        /\ Label' = IF connected /\ rateOk' # rateOk THEN "disconnect" ELSE "reportRate"
    <3>1. CASE connected /\ ok # rateOk
      BY <2>1, <3>1, BeginLabels DEF Label
    <3>2. CASE ~(connected /\ ok # rateOk)
      BY <2>1, <3>2, BeginLabels DEF Label
    <3> QED  BY <3>1, <3>2, <2>1
  <2>3. FlowInv' /\ message' # ConnectSteps /\ ActiveInv' /\ ShutdownInv'
    BY <1>2, <1>8, <2>2 DEF PrepareToPlay
  <2>4. PluginInv'
    BY <1>1, <1>8, <2>2, <2>3 DEF PrepareToPlay, LifecycleInv, PluginInv, StopSteps
  <2> QED  BY <2>3, <2>4 DEF LifecycleInv
<1> QED  BY <1>3, <1>4, <1>6, <1>7, <1>8

\* An operation of the application begins.
LEMMA AppBegins ==
  ASSUME LifecycleInv, StartDevice \/ BeginStopDevice \/ RefreshSession \/ BeginShutdown
  PROVE  LifecycleInv'
<1> USE DEF configurationVars, hostVars, sessionVars, engineVars, processVars
<1>1. /\ host' = host /\ host = "app" /\ message = <<>>
      /\ UNCHANGED <<shutdownRequested, active, processPc>>
  BY DEF StartDevice, BeginStopDevice, RefreshSession, BeginShutdown, Begin
<1>2. message' \in {<<>>, StopAudio, AppShutdown}
  BY <1>1 DEF StartDevice, BeginStopDevice, RefreshSession, BeginShutdown
<1>3. Flow(AppPairs, message') /\ Label' \in {"idle", "stopDevice"}
  <2>1. CASE message' = <<>>
    BY <2>1, BeginLabels DEF Flow, Label
  <2>2. CASE message' = StopAudio \/ message' = AppShutdown
    BY <2>2, BeginLabels DEF Label
  <2> QED  BY <1>2, <2>1, <2>2
<1>4. FlowInv' /\ ActiveInv' /\ ShutdownInv' /\ PluginInv'
  BY <1>1, <1>3 DEF LifecycleInv, FlowInv, Pairs, ActiveInv, ShutdownInv, PluginInv, StopSteps, EngineSteps
<1> QED  BY <1>4 DEF LifecycleInv

\* The flags a plug-in shows are Booleans.
FlagsInv == connected \in BOOLEAN /\ sessionUp \in BOOLEAN

\* No step makes them anything else.
LEMMA FlagsKept ==
  ASSUME FlagsInv, [LifecycleNext]_lifecycleVars PROVE FlagsInv'
<1> USE DEF FlagsInv, hostVars, sessionVars
<1>1. CASE UNCHANGED lifecycleVars
  BY <1>1, Zenon DEF lifecycleVars
<1>2. CASE ProcessBegins \/ ProcessGoesOn
  BY <1>2, Zenon DEF ProcessBegins, ProcessGoesOn, LoadGate, EnterGate, LookAgain, CheckShutdown, Announce,
         RecheckShutdown, FinishChunk, LookUpReceiver, AskReceiver, LeaveProcess
<1>3. CASE \/ \E w \in Workers : WorkerBegins(w) \/ WorkerFinishes(w)
           \/ Deliver \/ Delivered \/ OtherInstance
  BY <1>3, Zenon DEF WorkerBegins, WorkerFinishes, Deliver, Delivered, OtherInstance
<1>4. CASE MessageBegins
  BY <1>4, Zenon DEF MessageBegins, ConnectSession, BeginDisconnect, EnterConfiguration, GetStateInformation,
       SetStateInformation, PrepareToPlay, StartDevice, BeginStopDevice, RefreshSession, BeginShutdown
<1>5. CASE Disconnect \/ EndSession \/ StartSession
  BY <1>5, Zenon DEF Disconnect, EndSession, StartSession
<1>6. CASE \/ CloseGate \/ DrainGate \/ RequestShutdown \/ AwaitCallbacks
           \/ \E w \in Workers : StopWorker(w)
           \/ StopEngine \/ OpenGate \/ ReleaseLease \/ ConfigureEngine \/ StoreConfiguration
           \/ StartEngine \/ ReportSessionFailure \/ ReportRate \/ StopDevice \/ DeviceStopped
  BY <1>6, Zenon DEF CloseGate, DrainGate, RequestShutdown, AwaitCallbacks, StopWorker, StopEngine, OpenGate,
       ReleaseLease, ConfigureEngine, StoreConfiguration, StartEngine, ReportSessionFailure,
       ReportRate, StopDevice, DeviceStopped
<1>7. CASE MessageGoesOn
  BY <1>5, <1>6, <1>7, Zenon DEF MessageGoesOn
<1> QED  BY <1>1, <1>2, <1>3, <1>4, <1>7, Zenon DEF LifecycleNext

\* Wherever the message thread is in an operation of the application or the plug-in,
\* what it relies on has been done by the steps before and kept by all other threads.
THEOREM LifecycleInvariant == LifecycleSpec => [](LifecycleInv /\ FlagsInv)
<1>1. LifecycleInit => LifecycleInv
  <2> SUFFICES ASSUME LifecycleInit PROVE LifecycleInv
    OBVIOUS
  <2>1. /\ host \in {"app", "plugin"} /\ message = <<>> /\ connected = FALSE /\ lease = "none"
        /\ (host = "plugin" => sessionUp = FALSE /\ receiver = "none" /\ started = FALSE)
        /\ processPc = "out" /\ active = 0
    BY LifecycleAssumption DEF LifecycleInit
  <2>2. Label = "idle" /\ message # ConnectSteps
    BY <2>1, BeginLabels, ConnectFlow DEF Label
  <2>3. FlowInv
    BY <2>1 DEF FlowInv, Flow
  <2>4. ActiveInv /\ ShutdownInv
    BY <2>1, <2>2 DEF ActiveInv, ShutdownInv, StopSteps, EngineSteps
  <2>5. PluginInv
    BY <2>1, <2>2 DEF PluginInv, StopSteps
  <2> QED  BY <2>3, <2>4, <2>5 DEF LifecycleInv
<1>2. LifecycleInit => FlagsInv
  BY Zenon DEF LifecycleInit, FlagsInv
<1>3. LifecycleInv /\ [LifecycleNext]_lifecycleVars => LifecycleInv'
  <2> SUFFICES ASSUME LifecycleInv, [LifecycleNext]_lifecycleVars PROVE LifecycleInv'
    OBVIOUS
  <2>1. CASE UNCHANGED lifecycleVars
    BY <2>1 DEF lifecycleVars, configurationVars, hostVars, sessionVars, engineVars, processVars,
         LifecycleInv, FlowInv, Pairs, ActiveInv, ShutdownInv, PluginInv, Label
  <2>2. CASE ProcessBegins \/ ProcessGoesOn
    BY <2>2, ProcessStep
  <2>3. CASE \/ \E w \in Workers : WorkerBegins(w) \/ WorkerFinishes(w)
             \/ Deliver \/ Delivered \/ OtherInstance
    BY <2>3, WorkerStep
  <2>4. CASE MessageBegins
    BY <2>4, PluginBegins, AppBegins DEF MessageBegins
  <2>5. CASE MessageGoesOn
    <3>1. ASSUME NEW w \in Workers, StopWorker(w) PROVE LifecycleInv'
      <4>1. CASE w \in {"recording", "transmit", "receive"}
        BY <3>1, <4>1, ShutdownStep
      <4>2. CASE w = "spectrum"
        BY <3>1, <4>2, AppStep
      <4> QED  BY <4>1, <4>2 DEF Workers
    <3> QED  BY <2>5, <3>1, ShutdownStep, PluginStep, AppStep, TurningStep DEF MessageGoesOn
  <2> QED  BY <2>1, <2>2, <2>3, <2>4, <2>5 DEF LifecycleNext
<1> QED  BY <1>1, <1>2, <1>3, FlagsKept, PTL DEF LifecycleSpec

\* JammerNetzAudioEngine::shutdown: when a worker's queue is reset the audio callback
\* is out of the engine and the network thread is gone.
THEOREM ShutdownIsQuiet == LifecycleSpec => []QueuesQuiescent
<1>1. LifecycleInv => QueuesQuiescent
  BY DEF LifecycleInv, ShutdownInv, QueuesQuiescent, At, Label, First, StopSteps, EngineSteps
<1> QED  BY <1>1, LifecycleInvariant, PTL

\* JammerNetzPluginProcessor: a plug-in that shows to be connected is so in every
\* respect, one that does not has nothing, and nothing runs without the lease.
THEOREM ConnectionIsSound == LifecycleSpec => []ConnectedIsSound
<1>1. LifecycleInv /\ FlagsInv => ConnectedIsSound
  <2> SUFFICES ASSUME LifecycleInv, FlagsInv, host = "plugin" PROVE ConnectedIsSound
    BY DEF ConnectedIsSound
  <2>1. sessionUp \/ started => lease = "self"
    BY DEF LifecycleInv, PluginInv
  <2>2. ASSUME message = <<>>
        PROVE  /\ lease = "self" <=> connected
               /\ sessionUp <=> connected
               /\ connected => configured = configuration /\ rateOk
    <3>1. Label = "idle"
      BY <2>2, BeginLabels DEF Label
    <3> QED  BY <3>1 DEF LifecycleInv, PluginInv
  <2>3. ASSUME message = <<>> PROVE (lease = "self") = connected /\ sessionUp = connected
    BY <2>2, <2>3, Zenon DEF FlagsInv
  <2> QED  BY <2>1, <2>2, <2>3 DEF ConnectedIsSound
<1> QED  BY <1>1, LifecycleInvariant, PTL
=============================================================================
