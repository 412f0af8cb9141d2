------------------------------ MODULE Transport ------------------------------
(***************************************************************************)
(* The datagrams between a client and the servers it is configured for,    *)
(* one after the other.  The message thread changes server and key while   *)
(* the transmit worker sends; Client reads the server and the key under    *)
(* two locks, at two moments, and socketLock_ keeps one datagram from      *)
(* another.  Every server has a key; a datagram under another key is not   *)
(* read.  DataReceiveThread takes from what it can read whether it is      *)
(* receiving at all, whether the server answers MTU probes, and the        *)
(* session to show.                                                        *)
(*                                                                         *)
(* The network keeps the order and loses at most MaxLosses datagrams.      *)
(***************************************************************************)
EXTENDS Naturals, Sequences, WireFormat

CONSTANTS
  Servers,         \* the ones that run
  ServerKey,       \* the key each of them was started with
  LegacyServers,   \* without session messages and capabilities
  Configurations,  \* [server, key, useFEC]: what users configure
  MaxUpdates,      \* bound: updates of the configuration
  MaxMeanwhile,    \* bound: frames sent during one update; the worker pauses between two
  MaxLosses,       \* bound: datagrams lost
  MaxDatagrams     \* bound: datagrams under way in each direction

ASSUME TransportAssumption ==
  /\ LegacyServers \subseteq Servers /\ DOMAIN ServerKey = Servers
  /\ {MaxUpdates, MaxMeanwhile, MaxLosses, MaxDatagrams} \subseteq Nat

VARIABLES
  configuration,  \* what updateConfiguration was called with last
  updatePc,       \* what it does next
  server,         \* serverName_, serverPort_ and useLocalhost_
  senderKey,      \* Client::blowFish_
  receiverKey,    \* DataReceiveThread::blowFish_
  sending,        \* what holds socketLock_, and what it has read
  toServer,       \* the datagrams under way
  toClient,
  fecSwitch,      \* "FEC" in the configuration of every server
  turn,           \* packageCounters_ of every server, mod 2: information is due at 0
  isReceiving,
  probing,        \* setMtuDiscoverySupported
  shownSession,          \* the server whose session is currentSession_
  updates, losses,
  meanwhile,      \* frames sent during the present update
  controlLost     \* history: the control message of the last update was lost

sendSideVars == <<server, senderKey, sending, meanwhile>>
receiveSideVars == <<receiverKey, isReceiving, probing, shownSession>>
remoteVars == <<fecSwitch, turn>>
updateVars == <<configuration, updatePc, updates>>
lossVars == <<losses, controlLost>>
transportVars == <<updateVars, sendSideVars, receiveSideVars, remoteVars, toServer, toClient, lossVars>>

NoServer == "noServer"
NoKey == "noKey"
Free == [pc |-> "free", to |-> NoServer, key |-> NoKey]

TransportInit ==
  /\ configuration = [server |-> NoServer, key |-> NoKey, useFEC |-> FALSE]
  /\ updatePc = "idle" /\ updates = 0
  /\ server = NoServer /\ senderKey = NoKey /\ sending = Free /\ meanwhile = 0
  /\ receiverKey = NoKey /\ isReceiving = FALSE /\ probing = FALSE /\ shownSession = NoServer
  /\ fecSwitch = [s \in Servers |-> FALSE] /\ turn = [s \in Servers |-> 0]
  /\ toServer = <<>> /\ toClient = <<>>
  /\ losses = 0 /\ controlLost = FALSE

-----------------------------------------------------------------------------
(* JammerNetzSession::updateConfiguration, by the message thread *)

\* Mutant: the FEC switch is sent before the new key is set.
FecBeforeKey(pc) ==
  CASE pc = "idle" -> "fec" [] pc = "fec" -> "senderKey"
    [] pc = "senderKey" -> "receiverKey" [] pc = "receiverKey" -> "idle"

\* The order of its calls.
AfterCall(pc) ==
  CASE pc = "idle" -> "senderKey" [] pc = "senderKey" -> "fec"
    [] pc = "fec" -> "receiverKey" [] pc = "receiverKey" -> "idle"

\* refreshSessionConfiguration has read a configuration: setServer.
SetServer ==
  /\ updatePc = "idle" /\ updates < MaxUpdates /\ updates' = updates + 1
  /\ configuration' \in Configurations /\ server' = configuration'.server
  /\ updatePc' = AfterCall(updatePc) /\ controlLost' = FALSE /\ meanwhile' = 0
  /\ UNCHANGED <<senderKey, sending, receiveSideVars, remoteVars, toServer, toClient, losses>>

\* Client::setCryptoKey; a probe is encrypted and sent under the same lock.
SetSenderKey ==
  /\ updatePc = "senderKey" /\ sending.pc # "probeEncrypted"
  /\ senderKey' = configuration.key /\ updatePc' = AfterCall(updatePc)
  /\ UNCHANGED <<configuration, updates, server, sending, meanwhile, receiveSideVars, remoteVars, toServer,
                 toClient, lossVars>>

\* setUseFEC: sendControl waits for socketLock_.
BeginControl ==
  /\ updatePc = "fec" /\ sending = Free
  /\ sending' = [Free EXCEPT !.pc = "control", !.to = server]
  /\ UNCHANGED <<updateVars, server, senderKey, meanwhile, receiveSideVars, remoteVars, toServer, toClient, lossVars>>

SendControl ==
  /\ sending.pc = "control" /\ Len(toServer) < MaxDatagrams
  /\ toServer' = Append(toServer, [to |-> sending.to, key |-> senderKey,
                                   bytes |-> serialize(Control([FEC |-> configuration.useFEC]))])
  /\ sending' = Free /\ updatePc' = AfterCall(updatePc)
  /\ UNCHANGED <<configuration, updates, server, senderKey, meanwhile, receiveSideVars, remoteVars, toClient, lossVars>>

\* DataReceiveThread::setCryptoKey
SetReceiverKey ==
  /\ updatePc = "receiverKey" /\ receiverKey' = configuration.key
  /\ updatePc' = AfterCall(updatePc)
  /\ UNCHANGED <<configuration, updates, sendSideVars, isReceiving, probing, shownSession, remoteVars,
                 toServer, toClient, lossVars>>

UpdateGoesOn == SetSenderKey \/ BeginControl \/ SendControl \/ SetReceiverKey

-----------------------------------------------------------------------------
(* Client::sendData, by the transmit worker *)

\* What of an audio message matters here is only who sent it, and its version.
AudioToSend(protocolVersion) ==
  NewAudioData(0, "none", ChannelSetup(FALSE, <<>>), <<>>, protocolVersion)

\* sendBufferToServer, up to the end of serverLock_
BeginAudio ==
  /\ sending = Free /\ server # NoServer
  /\ updatePc # "idle" => meanwhile < MaxMeanwhile
  /\ meanwhile' = IF updatePc = "idle" THEN 0 ELSE meanwhile + 1
  /\ sending' = [Free EXCEPT !.pc = "audio", !.to = server]
  /\ UNCHANGED <<updateVars, server, senderKey, receiveSideVars, remoteVars, toServer, toClient, lossVars>>

\* The rest of it; then maybeSendMtuProbe, which may have nothing to send.
SendAudio ==
  /\ sending.pc = "audio" /\ Len(toServer) < MaxDatagrams
  /\ toServer' = Append(toServer, [to |-> sending.to, key |-> senderKey,
                          bytes |-> serialize(AudioToSend(Current))])
  /\ \/ sending' = Free
     \/ probing /\ sending' = [Free EXCEPT !.pc = "probe"]
  /\ UNCHANGED <<updateVars, server, senderKey, meanwhile, receiveSideVars, remoteVars, toClient, lossVars>>

\* sendMtuProbe takes the key first and reads the server while it holds the lock.
EncryptProbe ==
  /\ sending.pc = "probe" /\ sending' = [Free EXCEPT !.pc = "probeEncrypted", !.key = senderKey]
  /\ UNCHANGED <<updateVars, server, senderKey, meanwhile, receiveSideVars, remoteVars, toServer, toClient, lossVars>>

SendProbeDatagram ==
  /\ sending.pc = "probeEncrypted" /\ Len(toServer) < MaxDatagrams /\ sending' = Free
  /\ toServer' = Append(toServer, [to |-> server, key |-> sending.key,
                                   bytes |-> serialize(Control([mtu_probe_v1 |-> "size"]))])
  /\ UNCHANGED <<updateVars, server, senderKey, meanwhile, receiveSideVars, remoteVars, toClient, lossVars>>

WorkerSends == BeginAudio \/ SendAudio \/ EncryptProbe \/ SendProbeDatagram

-----------------------------------------------------------------------------
(* AcceptThread, and in short what follows in the other threads of a server *)

\* A datagram is read with the key of the reader; anything else is garbage.
Decrypted(datagram, key) ==
  deserialize(IF datagram.key = key THEN datagram.bytes ELSE [type |-> "garbage"])

VersionOf(s) == IF s \in LegacyServers THEN Legacy ELSE Current
CapabilitiesOf(s) == IF s \in LegacyServers THEN {} ELSE {MtuProbeV1}

\* SendThread::run: the mix, and information with every other one.  Client information
\* is sent at all because the stream of this client has packets in its queue.
AnswersToAudio(s) ==
  <<[AudioToSend(VersionOf(s)) EXCEPT !.legacySession = {s}]>> \o
    (IF turn[s] # 0 THEN <<>>
     ELSE <<ClientInfo({s}, CapabilitiesOf(s))>> \o
            (IF supportsSplitSessionInfo(VersionOf(s)) THEN <<SessionInfo({s}, CapabilitiesOf(s))>>
             ELSE <<>>))

\* processAudioMessage, processControlMessage with sendMtuAcknowledgement
Answers(s, message) ==
  CASE message.type = "AUDIODATA" -> AnswersToAudio(s)
    [] message.type = "GENERIC_JSON" /\ "mtu_probe_v1" \in DOMAIN message.json
         /\ s \notin LegacyServers -> <<Control([mtu_ack_v1 |-> "size"])>>
    [] OTHER -> <<>>

\* One turn of AcceptThread::run; nobody may be there to take the datagram.
ServerReceives ==
  /\ toServer # <<>> /\ toServer' = Tail(toServer)
  /\ LET s == Head(toServer).to
     IN  IF s \notin Servers THEN UNCHANGED <<toClient, remoteVars>>
         ELSE LET message == Decrypted(Head(toServer), ServerKey[s])
                  answers == Answers(s, message)
              IN  /\ Len(toClient) < MaxDatagrams
                  /\ toClient' = toClient \o [i \in DOMAIN answers |->
                       [key |-> ServerKey[s], bytes |-> serialize(answers[i])]]
                  /\ turn' = IF message.type = "AUDIODATA" THEN [turn EXCEPT ![s] = 1 - @] ELSE turn
                  /\ fecSwitch' = IF message.type = "GENERIC_JSON" /\ "FEC" \in DOMAIN message.json
                                  THEN [fecSwitch EXCEPT ![s] = message.json.FEC] ELSE fecSwitch
  /\ UNCHANGED <<updateVars, sendSideVars, receiveSideVars, lossVars>>

-----------------------------------------------------------------------------
(* DataReceiveThread::run *)

\* A message, from whichever server: an error or garbage changes nothing.
ClientReceives ==
  /\ toClient # <<>> /\ toClient' = Tail(toClient)
  /\ LET message == Decrypted(Head(toClient), receiverKey)
     IN  /\ isReceiving' = (isReceiving \/ message # NoMessage)
         /\ shownSession' = CASE message.type = "AUDIODATA" /\ ~supportsSplitSessionInfo(message.version)
                            -> CHOOSE s \in message.legacySession : TRUE
                       [] message.type = "SESSIONSETUP" -> CHOOSE s \in message.channels : TRUE
                       [] OTHER -> shownSession
         /\ probing' = IF message.type \in {"CLIENTINFO", "SESSIONSETUP"}
                       THEN supportsCapability(message, MtuProbeV1) ELSE probing
  /\ UNCHANGED <<updateVars, sendSideVars, receiverKey, remoteVars, toServer, lossVars>>

\* Mutant: only an error ends the reception.
TimeoutIgnored ==
  /\ toClient = <<>> /\ UNCHANGED transportVars

\* Nothing has come for 500 ms.
ReceiveTimeout ==
  /\ toClient = <<>> /\ isReceiving' = FALSE
  /\ UNCHANGED <<updateVars, sendSideVars, receiverKey, probing, shownSession, remoteVars, toServer, toClient,
                 lossVars>>

-----------------------------------------------------------------------------
(* The network *)

Without(q, i) == SubSeq(q, 1, i - 1) \o SubSeq(q, i + 1, Len(q))

IsFecControl(datagram) ==
  datagram.bytes.type = "GENERIC_JSON" /\ "FEC" \in DOMAIN datagram.bytes.controlMessageJson

Lose ==
  /\ losses < MaxLosses /\ losses' = losses + 1
  /\ \/ \E i \in DOMAIN toServer : /\ toServer' = Without(toServer, i)
                                   /\ controlLost' = (controlLost \/ IsFecControl(toServer[i]))
                                   /\ UNCHANGED toClient
     \/ \E i \in DOMAIN toClient : toClient' = Without(toClient, i) /\ UNCHANGED <<toServer, controlLost>>
  /\ UNCHANGED <<updateVars, sendSideVars, receiveSideVars, remoteVars>>

TransportNext ==
  \/ SetServer \/ UpdateGoesOn \/ WorkerSends
  \/ ServerReceives \/ ClientReceives \/ ReceiveTimeout \/ Lose

TransportSpec == TransportInit /\ [][TransportNext]_transportVars

-----------------------------------------------------------------------------
(* Properties *)

Reachable(c) == c.server \in Servers /\ ServerKey[c.server] = c.key

\* After an update the server it names has the FEC switch of the configuration, once
\* the control message is through: it was sent to this server, under this key,
\* although the worker was sending all the time.
ControlReachesServer ==
  /\ updatePc = "idle" /\ Reachable(configuration)
  /\ ~controlLost /\ \A i \in DOMAIN toServer : ~IsFecControl(toServer[i])
  => fecSwitch[configuration.server] = configuration.useFEC

\* Once its users leave the configuration alone, what the client shows of its
\* connection comes to agree with it, whatever is still under way from the server
\* before: the session is this server's and it probes only if this server answers
\* probes, and it reports to be receiving again and again, or no more if nobody reads
\* what it sends.
ClientSettles ==
  /\ <>[](IF Reachable(configuration)
          THEN /\ shownSession = configuration.server
               /\ probing = (configuration.server \notin LegacyServers)
          ELSE ~isReceiving)
  /\ []<>(Reachable(configuration) => isReceiving)
=============================================================================
