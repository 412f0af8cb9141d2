----------------------------- MODULE WireFormat -----------------------------
(***************************************************************************)
(* The messages as they cross the network: what of a message the sender    *)
(* writes and what of it the receiver reads.  A datagram that is not one   *)
(* of these (wrong key, no magic) is read as NoMessage.  Names, volumes,   *)
(* levels and the 16 bit of a sample are left out; the length and the      *)
(* reduced rate of a redundant block are kept.                             *)
(***************************************************************************)
EXTENDS Naturals, Sequences

Legacy == 0             \* implicit version of 2.3.0-rc4 and older
SplitSessionInfo == 1
Current == SplitSessionInfo

supportsSplitSessionInfo(protocolVersion) == protocolVersion >= SplitSessionInfo

MtuProbeV1 == "mtu-probe-v1"

SampleRate == 48000
FecReduction == 2       \* FEC_SAMPLERATE_REDUCTION

MessageType == {"AUDIODATA", "CLIENTINFO", "SESSIONSETUP", "GENERIC_JSON"}

NoMessage == [type |-> "nullptr"]

-----------------------------------------------------------------------------
(* Audio messages *)

ChannelSetup(localMonitoring, targets) == [targets |-> targets, localMonitoring |-> localMonitoring]

AudioBlock(counter, time, signal, setup, audio) ==
  [counter |-> counter, time |-> time, signal |-> signal, setup |-> setup, audio |-> audio]

\* One channel: every reductionFactor-th sample, as many as fit.
appendAudioBuffer(buffer, reductionFactor) ==
  [i \in 1..Len(buffer) \div reductionFactor |-> buffer[(i - 1) * reductionFactor + 1]]

\* Every sample is held for upsampleRate samples.
readAudioBytes(samples, upsampleRate) ==
  [i \in 1..Len(samples) * upsampleRate |-> samples[(i - 1) \div upsampleRate + 1]]

serializeAudioBlock(src, reductionFactor) ==
  [messageCounter |-> src.counter, serverTime |-> src.time, midiSignal |-> src.signal,
   channelSetup |-> src.setup.targets, wantEcho |-> ~src.setup.localMonitoring,
   sampleRate |-> SampleRate \div reductionFactor,
   channels |-> appendAudioBuffer(src.audio, reductionFactor)]

\* wantEcho is written and not read: the setup that arrives asks for the echo.
readChannelSetup(channels) == ChannelSetup(FALSE, channels)

readAudioHeaderAndBytes(block) ==
  AudioBlock(block.messageCounter, block.serverTime, block.midiSignal,
             readChannelSetup(block.channelSetup),
             readAudioBytes(block.channels,
               IF block.sampleRate # 0 THEN SampleRate \div block.sampleRate ELSE SampleRate))

\* A message holds its block, and the redundant block or none (a sequence).
AudioData(block, fecBlocks, protocolVersion, legacySession) ==
  [type |-> "AUDIODATA", block |-> block, fec |-> fecBlocks, version |-> protocolVersion,
   legacySession |-> legacySession]

\* The message of a client: the server has still to give it its time.
NewAudioData(counter, signal, setup, audio, protocolVersion) ==
  AudioData(AudioBlock(counter, 0, signal, setup, audio), <<>>, protocolVersion, {})

SerializedAudio(message) ==
  [type |-> "AUDIODATA", protocolVersion |-> message.version, allChannels |-> message.legacySession,
   audioBlocks |-> <<serializeAudioBlock(message.block, 1)>> \o
     [i \in DOMAIN message.fec |-> serializeAudioBlock(message.fec[i], FecReduction)]]

\* A third block is an error.
ReadAudio(bytes) ==
  LET blocks == [i \in DOMAIN bytes.audioBlocks |-> readAudioHeaderAndBytes(bytes.audioBlocks[i])]
  IN  IF Len(blocks) > 2 THEN NoMessage
      ELSE AudioData(blocks[1], Tail(blocks), bytes.protocolVersion, bytes.allChannels)

-----------------------------------------------------------------------------
(* The other messages *)

SessionInfo(channels, capabilities) ==
  [type |-> "SESSIONSETUP", channels |-> channels, capabilities |-> capabilities]

SerializedSessionInfo(message) ==
  [type |-> "SESSIONSETUP", allChannels |-> message.channels, capabilities |-> message.capabilities]

ReadSessionInfo(bytes) == SessionInfo(bytes.allChannels, bytes.capabilities)

\* The streams that have packets, without their statistics.
ClientInfo(streams, capabilities) ==
  [type |-> "CLIENTINFO", streams |-> streams, capabilities |-> capabilities]

SerializedClientInfo(message) ==
  [type |-> "CLIENTINFO", clientInfos |-> message.streams, capabilities |-> message.capabilities]

ReadClientInfo(bytes) == ClientInfo(bytes.clientInfos, bytes.capabilities)

Control(json) == [type |-> "GENERIC_JSON", json |-> json]

SerializedControl(message) == [type |-> "GENERIC_JSON", controlMessageJson |-> message.json]

ReadControl(bytes) == Control(bytes.controlMessageJson)

supportsCapability(message, capability) == capability \in message.capabilities

-----------------------------------------------------------------------------
(* Any message *)

serialize(message) ==
  CASE message.type = "AUDIODATA"    -> SerializedAudio(message)
    [] message.type = "CLIENTINFO"   -> SerializedClientInfo(message)
    [] message.type = "SESSIONSETUP" -> SerializedSessionInfo(message)
    [] message.type = "GENERIC_JSON" -> SerializedControl(message)

deserialize(bytes) ==
  CASE bytes.type \notin MessageType -> NoMessage
    [] bytes.type = "AUDIODATA"    -> ReadAudio(bytes)
    [] bytes.type = "CLIENTINFO"   -> ReadClientInfo(bytes)
    [] bytes.type = "SESSIONSETUP" -> ReadSessionInfo(bytes)
    [] bytes.type = "GENERIC_JSON" -> ReadControl(bytes)
=============================================================================
