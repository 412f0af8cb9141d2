---------------------------- MODULE AudioControl ----------------------------
(***************************************************************************)
(* Starting and stopping the sound device of the application.  Everything  *)
(* runs on the message thread, but one start is spread over it: the button *)
(* changes AUDIO_SHOULD_RUN, 250 ms later AudioService reacts, asks for    *)
(* the permission to use the microphone, and the answer opens the device.  *)
(* The user, the mixer and the shutdown come in between.                   *)
(***************************************************************************)
EXTENDS Integers, Sequences
LOCAL INSTANCE SequencesExt

CONSTANTS
  Selections,    \* numbers of selected channels; 0 is not usable
  BufferLists,   \* the lists of buffer sizes that devices report
  Preferred,     \* SAMPLE_BUFFER_SIZE
  MaxPresses     \* bound: clicks on the start and stop button

ASSUME ControlAssumption ==
  /\ Selections \subseteq Nat /\ Preferred \in Nat \ {0} /\ MaxPresses \in Nat
  /\ \A sizes \in BufferLists : sizes \in Seq(Int)

VARIABLES
  shouldRun, running,    \* EPHEMERAL_VALUE_AUDIO_SHOULD_RUN and _AUDIO_RUNNING
  debounced,             \* the debouncer has a call pending
  requests,              \* permission callbacks still to come
  restartGeneration,     \* audioRestartGeneration_
  selection,             \* the channels selected now
  device,                \* audioDevice_: what it was opened with, or NoDevice
  engineChannels,        \* the channel setup the engine has
  serviceDown,           \* shutdown_
  touched,               \* history: the selection has changed since the device was opened
  presses

controlVars == <<shouldRun, running, debounced, requests, restartGeneration, selection, device,
                 engineChannels, serviceDown, touched, presses>>

NoDevice == [channels |-> 0, bufferSize |-> 0]

ControlInit ==
  /\ shouldRun = FALSE /\ running = FALSE /\ debounced = FALSE /\ requests = {}
  /\ restartGeneration = 0 /\ selection = 0 /\ device = NoDevice
  /\ engineChannels = 0 /\ serviceDown = FALSE /\ touched = FALSE /\ presses = 0

-----------------------------------------------------------------------------
(* AudioCorrectness *)

\* selectBufferSize: one pass over the sizes; 0 stands for none.
SelectBufferSize(sizes) ==
  LET Better(best, size) ==
        IF size <= 0 THEN best
        ELSE [largest |-> IF size > best.largest THEN size ELSE best.largest,
              fitting |-> IF size >= Preferred /\ (best.fitting = 0 \/ size < best.fitting)
                          THEN size ELSE best.fitting]
      best == FoldLeft(Better, [largest |-> 0, fitting |-> 0], sizes)
  IN  IF best.fitting # 0 THEN best.fitting ELSE best.largest

HasUsableChannelSelection(channels) == channels > 0

-----------------------------------------------------------------------------
(* AudioService *)

\* stopAudioIfRunning, without what it does to the generation
CloseDevice == running' = FALSE /\ device' = NoDevice /\ touched' = FALSE

\* reportAudioStartupFailure: the switch is off again, without a new debounce.
ReportFailure == CloseDevice /\ shouldRun' = FALSE /\ engineChannels' = 0

\* Mutant: the engine keeps the setup it had.
OpenWithoutSetup(channels) ==
  \E sizes \in BufferLists :
    /\ SelectBufferSize(sizes) # 0
    /\ device' = [channels |-> channels, bufferSize |-> SelectBufferSize(sizes)]
    /\ running' = TRUE /\ touched' = (selection # channels)
    /\ UNCHANGED <<engineChannels, shouldRun>>

\* restartAudio(input, output): the device can not be created, has no buffer
\* size, does not open, or not with the right sample rate; or it starts, and
\* the engine has the setup of the request.
OpenDevice(channels) ==
  \/ ReportFailure
  \/ \E sizes \in BufferLists :
       IF SelectBufferSize(sizes) = 0 THEN ReportFailure
       ELSE /\ device' = [channels |-> channels, bufferSize |-> SelectBufferSize(sizes)]
            /\ running' = TRUE /\ touched' = (selection # channels)
            /\ engineChannels' = channels /\ UNCHANGED shouldRun

\* restartAudio(): stop, and ask for the permission with the setup of now.
RestartAudio ==
  /\ restartGeneration' = restartGeneration + 1
  /\ IF HasUsableChannelSelection(selection)
     THEN /\ CloseDevice
          /\ requests' = requests \cup {[generation |-> restartGeneration', channels |-> selection]}
          /\ UNCHANGED <<shouldRun, engineChannels>>
     ELSE ReportFailure /\ UNCHANGED requests

\* Mutant: the device goes on and the button says it is off.
StopLeavesDevice ==
  /\ restartGeneration' = restartGeneration + 1 /\ running' = FALSE
  /\ UNCHANGED <<device, touched>>

StopAudioIfRunning == CloseDevice /\ restartGeneration' = restartGeneration + 1

\* The debounced call.
DebounceFires ==
  /\ debounced /\ debounced' = FALSE
  /\ IF serviceDown
     THEN UNCHANGED <<shouldRun, running, requests, restartGeneration, device,
                      engineChannels, touched>>
     ELSE IF shouldRun THEN RestartAudio
          ELSE StopAudioIfRunning /\ UNCHANGED <<shouldRun, requests, engineChannels>>
  /\ UNCHANGED <<selection, serviceDown, presses>>

\* The answer about the microphone: outdated, granted, or denied or restricted.
PermissionArrives ==
  \E request \in requests :
    /\ requests' = requests \ {request}
    /\ IF serviceDown \/ request.generation # restartGeneration \/ ~shouldRun
       THEN UNCHANGED <<shouldRun, running, device, engineChannels, touched>>
       ELSE OpenDevice(request.channels) \/ ReportFailure
    /\ UNCHANGED <<debounced, restartGeneration, selection, serviceDown, presses>>

ShutdownService ==
  /\ ~serviceDown /\ serviceDown' = TRUE
  /\ StopAudioIfRunning
  /\ UNCHANGED <<shouldRun, debounced, requests, selection, engineChannels, presses>>

-----------------------------------------------------------------------------
(* The user *)

\* The button of a DeviceSelector; a property that does not change tells nobody.
PressButton ==
  /\ presses < MaxPresses /\ presses' = presses + 1
  /\ shouldRun' = ~running
  /\ debounced' = (debounced \/ (shouldRun' # shouldRun /\ ~serviceDown))
  /\ UNCHANGED <<running, requests, restartGeneration, selection, device,
                 engineChannels, serviceDown, touched>>

\* A channel is switched on or off; AudioService does not react.
SelectChannels ==
  /\ \E n \in Selections : selection' = n
  /\ touched' = (running /\ (touched \/ selection' # device.channels))
  /\ UNCHANGED <<shouldRun, running, debounced, requests, restartGeneration, device,
                 engineChannels, serviceDown, presses>>

\* A fader, a target or the name: valueTreePropertyChanged hands the setup of
\* now to the engine.
MixerChanges ==
  /\ ~serviceDown /\ engineChannels' = selection
  /\ UNCHANGED <<shouldRun, running, debounced, requests, restartGeneration, selection, device,
                 serviceDown, touched, presses>>

ControlNext ==
  \/ DebounceFires \/ PermissionArrives \/ ShutdownService
  \/ PressButton \/ SelectChannels \/ MixerChanges

ControlSpec == ControlInit /\ [][ControlNext]_controlVars

-----------------------------------------------------------------------------
(* Properties *)

\* When nothing is pending, the switch, the button and the device agree; after a
\* failure all three say off, and after the shutdown nothing opens the device
\* again, whatever was pending then.
DeviceMatchesSwitch ==
  /\ running = (device # NoDevice)
  /\ ~debounced /\ requests = {} /\ ~serviceDown => shouldRun = running
  /\ serviceDown => device = NoDevice

\* As long as the selection is the one the device was opened with, the engine
\* expects as many channels as the device delivers: faders moved while the
\* permission was pending, or a selection changed and changed back before the
\* device opened, do not matter.
SetupMatchesDevice == running /\ ~touched => engineChannels = device.channels
=============================================================================
