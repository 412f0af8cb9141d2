--------------------------- MODULE ClientLifecycle ---------------------------
(***************************************************************************)
(* Starting and stopping the client while its other threads run.  The      *)
(* message thread starts and shuts down the session and the engine, either *)
(* as AudioService of the application or as JammerNetzPluginProcessor of   *)
(* the plug-in; meanwhile the audio callback passes the plug-in's process  *)
(* gate and the engine's shutdown guard, the workers of the engine use the *)
(* session, and the network thread delivers packets to the engine.         *)
(*                                                                         *)
(* message holds the steps the message thread has still to do.  Data is    *)
(* left out: a worker is busy while it holds a pointer into the session.   *)
(***************************************************************************)
EXTENDS PluginConfiguration, Sequences

CONSTANTS
  Hosts,         \* who owns the engine: "app", "plugin" or either
  GateHalf,      \* closingMask (2^31): the gate counts below, closing is the bit above
  MaxOperations  \* bound: operations of the message thread

ASSUME LifecycleAssumption ==
  Hosts \subseteq {"app", "plugin"} /\ GateHalf \in Nat /\ GateHalf > 1 /\ MaxOperations \in Nat

Workers == {"recording", "transmit", "receive", "spectrum"}

VARIABLES
  host,               \* "app" or "plugin": who owns engine and session
  message,            \* the steps the message thread has still to do
  operations,         \* operations begun so far
  connected, gate, lease, rateOk, error,         \* JammerNetzPluginProcessor
  configuration,      \* its configuration_
  given,              \* what the present setConfiguration was given
  saved,              \* the state the project of the host holds
  configured,         \* what engine and session were last configured to
  deviceRuns, closed,                                \* AudioService
  sessionUp, sender, receiver,                   \* JammerNetzSession
  started, shutdownRequested, active, worker,    \* JammerNetzAudioEngine
  processPc,         \* where the audio callback is
  seen                \* the gate as the callback read it

hostVars == <<connected, gate, lease, rateOk, error, deviceRuns, closed>>
configurationVars == <<configuration, given, saved, configured>>
sessionVars == <<sessionUp, sender, receiver>>
engineVars == <<started, shutdownRequested, active, worker>>
processVars == <<processPc, seen>>
lifecycleVars == <<host, message, operations, hostVars, configurationVars, sessionVars,
                   engineVars, processVars>>

AllStopped == [w \in Workers |-> "stopped"]

\* A new processor is idle, with its defaults or what the host has restored;
\* AudioService's constructor starts the engine, and
\* the session unless no port can be bound.
LifecycleInit ==
  /\ host \in Hosts /\ message = <<>> /\ operations = 0
  /\ connected = FALSE /\ gate = 0 /\ lease = "none" /\ rateOk = FALSE /\ error = "none"
  /\ configuration \in {DefaultConfiguration} \cup
       (IF host = "plugin" THEN {Sanitise(c) : c \in EnteredConfigurations} ELSE {})
  /\ given = configuration /\ saved = SavedState(configuration) /\ configured = configuration
  /\ deviceRuns = FALSE /\ closed = FALSE
  /\ sessionUp \in IF host = "app" THEN BOOLEAN ELSE {FALSE}
  /\ sender = sessionUp /\ receiver = IF sessionUp THEN "listening" ELSE "none"
  /\ started = (host = "app") /\ shutdownRequested = FALSE /\ active = 0
  /\ worker = IF host = "app" THEN [AllStopped EXCEPT !["recording"] = "idle",
                                                   !["transmit"] = "idle", !["receive"] = "idle"]
              ELSE AllStopped
  /\ processPc = "out" /\ seen = 0

-----------------------------------------------------------------------------
(* The process gate of the plug-in: 32 bits, the highest one says closing *)

Closing(g) == g >= GateHalf
Inside(g) == g % GateHalf
Leave(g) == (g - 1) % (2 * GateHalf)

-----------------------------------------------------------------------------
(* The audio callback *)

\* processBlock begins with the first look at connected_; the application's
\* device calls the engine directly.
ProcessBegins ==
  /\ processPc = "out"
  /\ \/ host = "plugin" /\ connected /\ processPc' = "load"
     \/ host = "app" /\ deviceRuns /\ processPc' = "check"
  /\ UNCHANGED <<host, configurationVars, message, operations, hostVars, sessionVars, engineVars, seen>>

LoadGate ==
  /\ processPc = "load" /\ processPc' = "enter" /\ seen' = gate
  /\ UNCHANGED <<host, configurationVars, message, operations, hostVars, sessionVars, engineVars>>

\* One turn of the compare-and-swap loop; a failed one reads the gate again.
EnterGate ==
  /\ processPc = "enter"
  /\ IF Closing(seen) \/ Inside(seen) = GateHalf - 1
     THEN processPc' = "out" /\ UNCHANGED <<gate, seen>>
     ELSE IF gate = seen
          THEN gate' = gate + 1 /\ processPc' = "entered" /\ UNCHANGED seen
          ELSE seen' = gate /\ UNCHANGED <<gate, processPc>>
  /\ UNCHANGED <<host, configurationVars, message, operations, connected, lease, rateOk, error, deviceRuns, closed,
                 sessionVars, engineVars>>

LookAgain ==
  /\ processPc = "entered"
  /\ processPc' = IF connected THEN "check" ELSE "leave"
  /\ UNCHANGED <<host, configurationVars, message, operations, hostVars, sessionVars, engineVars, seen>>

AfterEngine == IF host = "plugin" THEN "ask" ELSE "out"

\* process: the guard, the announcement, and the guard again.
CheckShutdown ==
  /\ processPc = "check"
  /\ processPc' = IF shutdownRequested THEN AfterEngine ELSE "announce"
  /\ UNCHANGED <<host, configurationVars, message, operations, hostVars, sessionVars, engineVars, seen>>

Announce ==
  /\ processPc = "announce" /\ processPc' = "recheck" /\ active' = active + 1
  /\ UNCHANGED <<host, configurationVars, message, operations, hostVars, sessionVars, started,
                 shutdownRequested, worker, seen>>

\* Mutant: what was true before the announcement is not looked at again.
RecheckNothing ==
  /\ processPc = "recheck" /\ processPc' = "chunk"
  /\ UNCHANGED <<host, configurationVars, message, operations, hostVars, sessionVars, engineVars, seen>>

RecheckShutdown ==
  /\ processPc = "recheck"
  /\ IF shutdownRequested THEN processPc' = AfterEngine /\ active' = active - 1
     ELSE processPc' = "chunk" /\ UNCHANGED active
  /\ UNCHANGED <<host, configurationVars, message, operations, hostVars, sessionVars, started,
                 shutdownRequested, worker, seen>>

\* Mutant: the callback leaves without saying so.
FinishChunkUncounted ==
  /\ processPc = "chunk" /\ processPc' = AfterEngine
  /\ UNCHANGED <<host, configurationVars, message, operations, hostVars, sessionVars, engineVars, seen>>

FinishChunk ==
  /\ processPc = "chunk" /\ processPc' = AfterEngine /\ active' = active - 1
  /\ UNCHANGED <<host, configurationVars, message, operations, hostVars, sessionVars, started,
                 shutdownRequested, worker, seen>>

\* A long block of the host is processed in several pieces.
NextPiece == {"check", "leave"}

\* isReceivingData: the receiver is looked up, and then asked.
LookUpReceiver ==
  /\ processPc = "ask"
  /\ processPc' \in IF receiver = "none" THEN NextPiece ELSE {"asking"}
  /\ UNCHANGED <<host, configurationVars, message, operations, hostVars, sessionVars, engineVars, seen>>

AskReceiver ==
  /\ processPc = "asking" /\ processPc' \in NextPiece
  /\ UNCHANGED <<host, configurationVars, message, operations, hostVars, sessionVars, engineVars, seen>>

LeaveProcess ==
  /\ processPc = "leave" /\ processPc' = "out" /\ seen' = 0
  /\ gate' = Leave(gate)
  /\ UNCHANGED <<host, configurationVars, message, operations, connected, lease, rateOk, error, deviceRuns, closed,
                 sessionVars, engineVars>>

\* Everything the callback does once it has begun.
ProcessGoesOn ==
  LoadGate \/ EnterGate \/ LookAgain \/ CheckShutdown \/ Announce \/ RecheckShutdown
    \/ FinishChunk \/ LookUpReceiver \/ AskReceiver \/ LeaveProcess

-----------------------------------------------------------------------------
(* The workers and the network thread *)

At(names) == message # <<>> /\ Head(message) \in names

\* The step of the message thread that signals a worker to exit and joins it.
StepOf ==
  [recording |-> "stopRecording", transmit |-> "stopTransmit", receive |-> "stopReceive",
   spectrum |-> "stopSpectrum"]

\* processFrame fetches session_.sender(), updateSessionMeter the receiver; then
\* both work with it.
WorkerBegins(w) ==
  /\ worker[w] = "idle" /\ ~At({StepOf[w]})
  /\ w = "transmit" => sender
  /\ w = "receive" => receiver # "none"
  /\ worker' = [worker EXCEPT ![w] = "busy"]
  /\ UNCHANGED <<host, configurationVars, message, operations, hostVars, sessionVars, started,
                 shutdownRequested, active, processVars>>

WorkerFinishes(w) ==
  /\ worker[w] = "busy"
  /\ worker' = [worker EXCEPT ![w] = "idle"]
  /\ UNCHANGED <<host, configurationVars, message, operations, hostVars, sessionVars, started,
                 shutdownRequested, active, processVars>>

\* The receiver hands a packet to enqueueRemoteAudio.
Deliver ==
  /\ receiver = "listening" /\ ~At({"endSession"}) /\ receiver' = "delivering"
  /\ UNCHANGED <<host, configurationVars, message, operations, hostVars, sessionUp, sender, engineVars,
                 processVars>>

Delivered ==
  /\ receiver = "delivering" /\ receiver' = "listening"
  /\ UNCHANGED <<host, configurationVars, message, operations, hostVars, sessionUp, sender, engineVars,
                 processVars>>

-----------------------------------------------------------------------------
(* The steps of the message thread *)

Step(name) == message # <<>> /\ Head(message) = name /\ message' = Tail(message)

\* The error the editor shows, by what it is about; clearError takes back the
\* error of one source only.
SetError(source) == error' = source
ClearError(source) == error' = IF error = source THEN "none" ELSE error

SessionShutdown == <<"endSession">>
EngineShutdown ==
  <<"requestShutdown", "awaitCallbacks", "stopRecording", "stopTransmit", "stopReceive",
    "stopEngine">>

DisconnectSession ==
  <<"disconnect", "closeGate", "drainGate">> \o SessionShutdown \o EngineShutdown
    \o <<"openGate", "releaseLease">>

\* stopAudioIfRunning; audioDeviceStopped releases the output tap.
StopAudio == <<"stopDevice", "deviceStopped", "stopSpectrum">>

AppShutdown == StopAudio \o SessionShutdown \o EngineShutdown

Disconnect ==
  /\ Step("disconnect") /\ connected' = FALSE
  /\ UNCHANGED <<host, configurationVars, operations, gate, lease, rateOk, error, deviceRuns, closed, sessionVars,
                 engineVars, processVars>>

CloseGate ==
  /\ Step("closeGate") /\ gate' = IF Closing(gate) THEN gate ELSE gate + GateHalf
  /\ UNCHANGED <<host, configurationVars, operations, connected, lease, rateOk, error, deviceRuns, closed,
                 sessionVars, engineVars, processVars>>

DrainGate ==
  /\ Step("drainGate") /\ Inside(gate) = 0
  /\ UNCHANGED <<host, configurationVars, operations, hostVars, sessionVars, engineVars, processVars>>

\* JammerNetzSession::shutdown waits for the network thread, then everything goes.
EndSession ==
  /\ Step("endSession") /\ receiver # "delivering"
  /\ sessionUp' = FALSE /\ sender' = FALSE /\ receiver' = "none"
  /\ UNCHANGED <<host, configurationVars, operations, hostVars, engineVars, processVars>>

RequestShutdown ==
  /\ Step("requestShutdown") /\ shutdownRequested' = TRUE
  /\ UNCHANGED <<host, configurationVars, operations, hostVars, sessionVars, started, active, worker,
                 processVars>>

\* No callback is inside any more.
AwaitCallbacks ==
  /\ Step("awaitCallbacks") /\ active = 0 /\ started' = FALSE
  /\ UNCHANGED <<host, configurationVars, operations, hostVars, sessionVars, shutdownRequested, active, worker,
                 processVars>>

\* stopThread, and the queue is reset.
StopWorker(w) ==
  /\ Step(StepOf[w]) /\ worker[w] # "busy"
  /\ worker' = [worker EXCEPT ![w] = "stopped"]
  /\ UNCHANGED <<host, configurationVars, operations, hostVars, sessionVars, started, shutdownRequested, active,
                 processVars>>

\* The MIDI sender and the recorders go last; AudioService is then done for good.
StopEngine ==
  /\ Step("stopEngine") /\ closed' = (host = "app")
  /\ UNCHANGED <<host, configurationVars, operations, connected, gate, lease, rateOk, error, deviceRuns,
                 sessionVars, engineVars, processVars>>

OpenGate ==
  /\ Step("openGate") /\ gate' = 0
  /\ UNCHANGED <<host, configurationVars, operations, connected, lease, rateOk, error, deviceRuns, closed,
                 sessionVars, engineVars, processVars>>

ReleaseLease ==
  /\ Step("releaseLease") /\ lease' = IF lease = "self" THEN "none" ELSE lease
  /\ UNCHANGED <<host, configurationVars, operations, connected, gate, rateOk, error, deviceRuns, closed,
                 sessionVars, engineVars, processVars>>

\* configureEngine and makeSessionConfiguration: everything a session is told.
ConfigureEngine ==
  /\ Step("configureEngine") /\ configured' = configuration
  /\ UNCHANGED <<host, configuration, given, saved, operations, hostVars, sessionVars, engineVars,
                 processVars>>

StoreConfiguration ==
  /\ Step("storeConfiguration") /\ configuration' = Sanitise(given) /\ given' = configuration'
  /\ UNCHANGED <<host, saved, configured, operations, hostVars, sessionVars, engineVars, processVars>>

StartEngine ==
  /\ Step("startEngine") /\ started' = TRUE /\ shutdownRequested' = FALSE
  /\ worker' = [worker EXCEPT !["transmit"] = "idle", !["receive"] = "idle"]
  /\ UNCHANGED <<host, configurationVars, operations, hostVars, sessionVars, active, processVars>>

\* session_.start succeeds, or no port can be bound and what was started is undone.
StartSession ==
  /\ message # <<>> /\ Head(message) = "startSession"
  /\ \/ /\ sessionUp' = TRUE /\ sender' = TRUE /\ receiver' = "listening"
        /\ connected' = TRUE /\ SetError("none") /\ message' = <<>>
     \/ /\ message' = EngineShutdown \o <<"releaseLease", "reportFailure">>
        /\ UNCHANGED <<sessionVars, connected, error>>
  /\ UNCHANGED <<host, configurationVars, operations, gate, lease, rateOk, deviceRuns, closed, engineVars,
                 processVars>>

ReportSessionFailure ==
  /\ Step("reportFailure") /\ SetError("session")
  /\ UNCHANGED <<host, configurationVars, operations, connected, gate, lease, rateOk, deviceRuns, closed,
                 sessionVars, engineVars, processVars>>

\* The end of prepareToPlay: the error of the sample rate comes or goes.
ReportRate ==
  /\ Step("reportRate")
  /\ IF rateOk THEN ClearError("sampleRate") ELSE SetError("sampleRate")
  /\ UNCHANGED <<host, configurationVars, operations, connected, gate, lease, rateOk, deviceRuns, closed,
                 sessionVars, engineVars, processVars>>

StopDevice ==
  /\ Step("stopDevice") /\ deviceRuns' = FALSE
  /\ UNCHANGED <<host, configurationVars, operations, connected, gate, lease, rateOk, error, closed,
                 sessionVars, engineVars, processVars>>

\* stop() of a device returns when its callback is out.
DeviceStopped ==
  /\ Step("deviceStopped") /\ processPc = "out"
  /\ UNCHANGED <<host, configurationVars, operations, hostVars, sessionVars, engineVars, processVars>>

MessageGoesOn ==
  \/ Disconnect \/ CloseGate \/ DrainGate \/ EndSession \/ RequestShutdown \/ AwaitCallbacks
  \/ \E w \in Workers : StopWorker(w)
  \/ StopEngine \/ OpenGate \/ ReleaseLease \/ ConfigureEngine \/ StoreConfiguration \/ StartEngine \/ StartSession
  \/ ReportSessionFailure \/ ReportRate
  \/ StopDevice \/ DeviceStopped

-----------------------------------------------------------------------------
(* The operations of the message thread *)

Begin(who) ==
  /\ host = who /\ message = <<>> /\ ~closed /\ operations < MaxOperations
  /\ operations' = operations + 1

\* connectSession: refused for the sample rate, a missing server name, another
\* instance's lease or a key that cannot be loaded (its lease is returned), or
\* the gate, the engine and the session are started.
ConnectSession ==
  /\ Begin("plugin") /\ ~connected
  /\ \/ SetError(IF rateOk THEN "session" ELSE "sampleRate") /\ UNCHANGED <<lease, message>>
     \/ /\ rateOk /\ configuration.serverName # NoName
        /\ lease = "none" /\ lease' = "self" /\ UNCHANGED error
        /\ message' = <<"openGate", "configureEngine", "startEngine", "startSession">>
  /\ UNCHANGED <<host, configurationVars, connected, gate, rateOk, deviceRuns, closed, sessionVars, engineVars,
                 processVars>>

\* The Disconnect button, setNonRealtime, releaseResources, the destructor.
BeginDisconnect ==
  /\ Begin("plugin") /\ message' = DisconnectSession
  /\ UNCHANGED <<host, configurationVars, hostVars, sessionVars, engineVars, processVars>>

\* Mutant: a session goes on with the configuration it has.
ConfigureWhileConnected(c) ==
  /\ given' = c /\ message' = <<"storeConfiguration">>
  /\ UNCHANGED <<configuration, saved, configured>>

\* An active session is ended before its configuration is replaced.
SetConfiguration(c) ==
  /\ given' = c
  /\ message' = (IF connected THEN DisconnectSession ELSE <<>>) \o <<"storeConfiguration">>
  /\ UNCHANGED <<configuration, saved, configured>>

\* The editor, before it connects.
EnterConfiguration ==
  /\ Begin("plugin") /\ \E c \in EnteredConfigurations : SetConfiguration(c)
  /\ UNCHANGED <<host, hostVars, sessionVars, engineVars, processVars>>

\* The host saves the project, or loads one: also one that was written before there
\* were jitter settings.
GetStateInformation ==
  /\ Begin("plugin") /\ saved' = SavedState(configuration)
  /\ UNCHANGED <<host, message, configuration, given, configured, hostVars, sessionVars, engineVars,
                 processVars>>

SetStateInformation ==
  /\ Begin("plugin")
  /\ \E state \in {saved, [serverName |-> saved.serverName]} : SetConfiguration(RestoredState(state))
  /\ UNCHANGED <<host, hostVars, sessionVars, engineVars, processVars>>

PrepareToPlay ==
  /\ Begin("plugin")
  /\ \E ok \in BOOLEAN :
       /\ rateOk' = ok
       /\ message' = (IF connected /\ ok # rateOk THEN DisconnectSession ELSE <<>>)
                       \o <<"reportRate">>
  /\ UNCHANGED <<host, configurationVars, connected, gate, lease, error, deviceRuns, closed, sessionVars, engineVars,
                 processVars>>

\* audioDeviceAboutToStart prepares the output tap, whose thread starts anew.
PrepareSpectrum == [worker EXCEPT !["spectrum"] = "idle"]

\* AudioService: a device starts and its tap with it, or stops.
StartDevice ==
  /\ Begin("app") /\ ~deviceRuns /\ deviceRuns' = TRUE /\ worker' = PrepareSpectrum
  /\ UNCHANGED <<host, configurationVars, message, connected, gate, lease, rateOk, error, closed, sessionVars,
                 started, shutdownRequested, active, processVars>>

BeginStopDevice ==
  /\ Begin("app") /\ deviceRuns /\ message' = StopAudio
  /\ UNCHANGED <<host, configurationVars, hostVars, sessionVars, engineVars, processVars>>

\* refreshSessionConfiguration starts a session that is not available.
RefreshSession ==
  /\ Begin("app") /\ ~sessionUp
  /\ sessionUp' = TRUE /\ sender' = TRUE /\ receiver' = "listening"
  /\ UNCHANGED <<host, configurationVars, message, hostVars, engineVars, processVars>>

\* AudioService::shutdown; nothing limits the number of operations before it.
BeginShutdown ==
  /\ host = "app" /\ message = <<>> /\ ~closed /\ message' = AppShutdown
  /\ UNCHANGED <<host, configurationVars, operations, hostVars, sessionVars, engineVars, processVars>>

\* Another instance of the plug-in in the same host.
OtherInstance ==
  /\ host = "plugin"
  /\ \/ lease = "none" /\ lease' = "other"
     \/ lease = "other" /\ lease' = "none"
  /\ UNCHANGED <<host, configurationVars, message, operations, connected, gate, rateOk, error, deviceRuns, closed,
                 sessionVars, engineVars, processVars>>

MessageBegins ==
  ConnectSession \/ BeginDisconnect \/ EnterConfiguration \/ GetStateInformation
    \/ SetStateInformation \/ PrepareToPlay \/ StartDevice \/ BeginStopDevice
    \/ RefreshSession \/ BeginShutdown

LifecycleNext ==
  \/ ProcessBegins \/ ProcessGoesOn
  \/ \E w \in Workers : WorkerBegins(w) \/ WorkerFinishes(w)
  \/ Deliver \/ Delivered
  \/ MessageBegins \/ MessageGoesOn \/ OtherInstance

LifecycleSpec == LifecycleInit /\ [][LifecycleNext]_lifecycleVars

-----------------------------------------------------------------------------
(* Properties *)

\* When a worker's queue is reset nobody else touches it: the callback has left
\* the engine and can not come back in, whatever it had already checked, and the
\* network thread is gone.
QueuesQuiescent ==
  /\ At({"stopTransmit", "stopReceive", "stopEngine"}) => processPc # "chunk"
  /\ At({"stopReceive"}) => receiver = "none"

\* Between two operations a plug-in that shows to be connected is so in every
\* respect: it holds the one lease of its host, the session is up, and session and
\* engine run the very configuration the editor shows, within its limits.  Whatever
\* the host restores, and whichever start is refused or fails, a disconnected one
\* has none of it, and nothing runs without the lease.
ConnectedIsSound ==
  host = "plugin" =>
    /\ message = <<>> =>
         /\ (lease = "self") = connected /\ sessionUp = connected
         /\ connected => configured = configuration /\ rateOk
    /\ sessionUp \/ started => lease = "self"

\* Workers are done with the session before it is destroyed.
NetworkOutlivesWorkers ==
  /\ worker["transmit"] = "busy" => sender
  /\ worker["receive"] = "busy" => receiver # "none"

\* "The process gate above quiesces audio": the receiver that a callback inside
\* the gate has looked up is not destroyed by disconnectSession.
GateQuiescesAudio == processPc = "asking" => receiver # "none"

\* The shutdown of the application comes to its end, with no thread left.
ShutdownEnds ==
  host = "app" /\ At({"stopDevice"}) /\ Len(message) = Len(AppShutdown)
    ~> closed /\ receiver = "none" /\ worker = AllStopped
=============================================================================
