------------------------------- MODULE MCParts -------------------------------
(***************************************************************************)
(* Small instances of the smaller parts for TLC: starting and stopping the *)
(* client, the MIDI clock, recording, the sound device, the tempo, the way *)
(* of the input, path MTU discovery, the mix of the session, and the       *)
(* server's threads.  The modules share no variable, so a behaviour of all *)
(* parts together is one behaviour of each: it is enough to let one part   *)
(* move, the one that focus names, and hold the others in an initial state.*)
(***************************************************************************)
EXTENDS ClientLifecycle, MidiClock, Recording, AudioControl, Tempo, TransmitPath,
        PathMtuDiscovery, SessionMix, ServerThreads

CONSTANT Focuses   \* the parts that move in a run

ASSUME FocusAssumption ==
  Focuses \subseteq {"lifecycle", "midi", "recording", "control", "tempo", "transmit", "mtu", "mix",
                "threads"}

VARIABLE focus

MCClockTempos == {0, 2, 3}

MCBufferLists == {<<>>, <<0>>, <<1, 4, 2>>, <<4, 3, 2>>, <<1>>, <<0, 1>>, <<3, 2, 4>>}

MCSetups ==
  {[channels |-> 2, variant |-> 0], [channels |-> 2, variant |-> 1],
   [channels |-> 1, variant |-> 0], [channels |-> 0, variant |-> 0]}

MCAddresses == <<"a", "b">>

MCChannelSetups ==
  {[targets |-> <<"left", "sendRight", "mute", "sendMono">>, localMonitoring |-> FALSE],
   [targets |-> <<"mono", "sendLeft", "right">>, localMonitoring |-> TRUE]}

MCGrowthTargets == {16, 24, 64}
MCPathLimits == {15, 16, 47, 63, 64}

MCInit ==
  /\ focus \in Focuses
  /\ LifecycleInit /\ MidiInit /\ RecordingInit /\ ControlInit /\ TempoInit /\ TransmitInit
  /\ Init /\ SessionMixInit /\ ThreadsInit
  /\ focus # "lifecycle" => /\ host = CHOOSE h \in Hosts : TRUE
                          /\ configuration = DefaultConfiguration /\ sessionUp = FALSE
  /\ focus # "midi" => tempo = 0
  /\ focus # "tempo" => \A c \in Members : shown[c] = InitialBpm
  /\ focus # "mtu" => pathLimit = fallbackPayloadBytes
  /\ focus # "mix" => \A c, d \in Clients : setups[c] = setups[d] /\ setups[c].localMonitoring

MCNext ==
  /\ UNCHANGED focus
  /\ IF focus = "lifecycle" THEN LifecycleNext ELSE UNCHANGED lifecycleVars
  /\ IF focus = "midi" THEN MidiNext ELSE UNCHANGED midiClockVars
  /\ IF focus = "recording" THEN RecordingNext ELSE UNCHANGED recordingVars
  /\ IF focus = "control" THEN ControlNext ELSE UNCHANGED controlVars
  /\ IF focus = "tempo" THEN TempoNext ELSE UNCHANGED tempoVars
  /\ IF focus = "transmit" THEN TransmitNext ELSE UNCHANGED transmitVars
  /\ IF focus = "mtu" THEN Next ELSE UNCHANGED vars
  /\ IF focus = "mix" THEN SessionMixNext ELSE UNCHANGED sessionMixVars
  /\ IF focus = "threads" THEN ThreadsNext ELSE UNCHANGED threadsVars

MCVars ==
  <<focus, lifecycleVars, midiClockVars, recordingVars, controlVars, tempoVars, transmitVars, vars,
    sessionMixVars, threadsVars>>

\* Every thread of the client that has begun something goes on with it; the MIDI
\* callback and the replacement of a sender are finished.  The timer, the message
\* thread and the audio callback serve the tempo, and the network does not lose
\* every frame or every mix of a client.  MTU probes are polled with every packet,
\* and time passes.
MCFairness ==
  /\ WF_lifecycleVars(focus = "lifecycle" /\ ProcessGoesOn)
  /\ WF_lifecycleVars(focus = "lifecycle" /\ Delivered)
  /\ WF_lifecycleVars(focus = "lifecycle" /\ MessageGoesOn)
  /\ \A w \in Workers : WF_lifecycleVars(focus = "lifecycle" /\ WorkerFinishes(w))
  /\ WF_midiClockVars(focus = "midi" /\ ScheduleGoesOn)
  /\ WF_midiClockVars(focus = "midi" /\ RetirementGoesOn)
  /\ \A c \in Members :
       /\ WF_tempoVars(focus = "tempo" /\ TakeServerBpmUpdate(c))
       /\ WF_tempoVars(focus = "tempo" /\ RunAsync(c))
       /\ WF_tempoVars(focus = "tempo" /\ SliderCorrects(c))
       /\ WF_tempoVars(focus = "tempo" /\ SecondPasses(c))
       /\ WF_tempoVars(focus = "tempo" /\ SendFrame(c))
       /\ WF_tempoVars(focus = "tempo" /\ MixHeardBy(c))
       /\ SF_tempoVars(focus = "tempo" /\ MixTempoOf(c))
  /\ WF_vars(focus = "mtu" /\ TransmitWorker)
  /\ WF_vars(focus = "mtu" /\ DeadlinePasses) /\ WF_vars(focus = "mtu" /\ PauseEnds)

MCSpec == MCInit /\ [][MCNext]_MCVars

MCFairSpec == MCSpec /\ MCFairness
=============================================================================
