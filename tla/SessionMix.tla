------------------------------ MODULE SessionMix ------------------------------
(***************************************************************************)
(* From the clients' packets to what the clients hear and show.  The       *)
(* server mixes one packet of every client into one block per client,      *)
(* queues the blocks, and SendThread sends each of them with the previous  *)
(* block to the same client as forward error correction, and every so      *)
(* often a session message.  Datagrams are lost; a client fills the gaps   *)
(* when the next block arrives.                                            *)
(*                                                                         *)
(* A block is what a property tells apart: its counter, the server's time  *)
(* (in blocks) and the transport signal.  Which channel is heard on which  *)
(* side is kept for the last mix.  Every client sends blocks of the same   *)
(* length, with as many channels as its setup has; volumes, levels and     *)
(* samples are left out.                                                   *)
(***************************************************************************)
EXTENDS Naturals, Sequences, FiniteSets, WireFormat, RingOfAudioBuffers

CONSTANTS
  Addresses,      \* the clients in the order of their addresses, a sequence
  LegacyClients,  \* the ones that do not support SplitSessionInfo
  ChannelSetups,  \* [targets, localMonitoring]: what users configure
  BlockSamples,   \* SAMPLE_BUFFER_SIZE (128)
  FecRingSize,    \* FEC_RINGBUFFER_SIZE (16)
  InfoPeriod,     \* 100: a session message with every so many packages
  MaxMixes,       \* bound: mixes of the server
  MaxQueued,      \* bound: packages in the queue before another mix
  MaxChanges      \* bound: signals, skipped counters, changes of a setup and of the FEC switch

Clients == {Addresses[i] : i \in DOMAIN Addresses}
Signals == {"none", "start", "stop"}
ChannelTargets == {"mute", "left", "right", "mono", "sendMono", "sendLeft", "sendRight"}

ASSUME SessionAssumption ==
  /\ Addresses \in Seq(Clients)
  /\ \A i, j \in DOMAIN Addresses : Addresses[i] = Addresses[j] => i = j
  /\ LegacyClients \subseteq Clients /\ {InfoPeriod, BlockSamples} \subseteq Nat \ {0}
  /\ BlockSamples % FecReduction = 0 /\ FecRingSize \in Nat \ {0, 1}
  /\ {MaxMixes, MaxQueued, MaxChanges} \subseteq Nat
  /\ ChannelSetups \subseteq [targets : Seq(ChannelTargets), localMonitoring : BOOLEAN]

VARIABLES
  setups,      \* the channel setup each client sends
  mixTime,     \* serverTime_, in blocks
  outgoing,    \* the queue between MixerThread and SendThread
  fec,         \* "FEC" of serverConfiguration_
  fecData,     \* fecData_: a ring for every target
  packageCounters,
  received,    \* what each client's queue has given out
  session,     \* currentSession_ of each client
  lastMix,     \* history: packets, signal and routing of a mix, until the next step
  produced,    \* history: all packages for every client
  arrived,     \* history: the counters that arrived, and those before them if FEC was on
  lostInfos,   \* history: session messages lost since the last one that arrived
  changes

serverVars == <<mixTime, outgoing, fecData, packageCounters>>
heardVars == <<received, session, arrived, lostInfos>>
sessionMixVars == <<setups, fec, changes, serverVars, heardVars, lastMix, produced>>

NoMix == [packets |-> <<>>, signal |-> "none", heard |-> <<>>]

SessionMixInit ==
  /\ setups \in [Clients -> ChannelSetups] /\ fec = FALSE /\ changes = 0
  /\ mixTime = 0 /\ outgoing = <<>> /\ fecData = [c \in Clients |-> EmptyRing(FecRingSize)]
  /\ packageCounters = [c \in Clients |-> 0]
  /\ received = [c \in Clients |-> <<>>]
  /\ session = [c \in Clients |-> {}]
  /\ produced = [c \in Clients |-> <<>>]
  /\ arrived = [c \in Clients |-> [first |-> {}, redundant |-> {}]]
  /\ lostInfos = [c \in Clients |-> 0]
  /\ lastMix = NoMix

-----------------------------------------------------------------------------
(* Filling a gap *)

\* Mutant: the signal of the later packet is repeated.
FillInRepeating(packet, counter) ==
  IF packet.fec # <<>> /\ packet.fec[1].counter = counter THEN packet.fec[1]
  ELSE [packet.block EXCEPT !.counter = counter,
                            !.time = packet.block.time - (packet.block.counter - counter)]

\* createFillInPackage, on the first packet after the gap: the redundant block if it
\* is the missing one, or the packet itself, with an earlier time and no signal.
FillIn(packet, counter) ==
  IF packet.fec # <<>> /\ packet.fec[1].counter = counter THEN packet.fec[1]
  ELSE LET missing == packet.block.counter - counter
       IN  [packet.block EXCEPT !.counter = counter, !.signal = "none",
              !.time = IF packet.block.time >= missing THEN packet.block.time - missing ELSE 0]

Silence == [i \in 1..BlockSamples |-> <<>>]
Silenced(block) == [block EXCEPT !.audio = Silence]

\* What try_pop gives out, from the last block given out to this packet, when nothing
\* else arrives: a fill-in for the first missing block, and one with silence for the
\* last.  A fill-in that repeats the packet shares its audio buffer, so that clearing
\* the second one clears the packet as well.
GivenOut(last, packet) ==
  LET gap    == packet.block.counter - last.counter - 1
      second == FillIn(packet, packet.block.counter - 1)
      shared == packet.fec = <<>> \/ packet.fec[1].counter # second.counter
  IN  CASE gap = 0 -> <<packet.block>>
        [] gap = 1 -> <<FillIn(packet, last.counter + 1), packet.block>>
        [] OTHER   -> <<FillIn(packet, last.counter + 1), Silenced(second),
                        IF shared THEN Silenced(packet.block) ELSE packet.block>>

-----------------------------------------------------------------------------
(* ServerMixerCore *)

\* Mutant: a target that is only sent is also returned to its sender.
SidesWithReturn(target, isForSender, wantsEcho) ==
  IF isForSender /\ ~wantsEcho THEN {}
  ELSE CASE target \in {"left", "sendLeft"}   -> {"l"}
         [] target \in {"right", "sendRight"} -> {"r"}
         [] target \in {"mono", "sendMono"}   -> {"l", "r"}
         [] target = "mute"                   -> {}

\* The switch of bufferMixdown: the sides of the output a channel is added to.
Sides(target, isForSender, wantsEcho) ==
  LET echoed == ~isForSender \/ wantsEcho
      Left   == IF echoed THEN {"l"} ELSE {}
      Right  == IF echoed THEN {"r"} ELSE {}
  IN  CASE target = "mute"      -> {}
        [] target = "sendLeft"  -> IF isForSender THEN {} ELSE Left
        [] target = "left"      -> Left
        [] target = "sendRight" -> IF isForSender THEN {} ELSE Right
        [] target = "right"     -> Right
        [] target = "sendMono"  -> IF isForSender THEN {} ELSE Left \cup Right
        [] target = "mono"      -> Left \cup Right

\* bufferMixdown of every client into the output of one receiver.
Heard(packets, receiver) ==
  UNION {LET setup == packets[c].setup
         IN  UNION {{[from |-> c, channel |-> i, side |-> s] :
                       s \in Sides(setup.targets[i], c = receiver, ~setup.localMonitoring)} :
                    i \in DOMAIN setup.targets} :
         c \in DOMAIN packets}

\* calcLocalMonitoring: what a client adds to its own output.
LocallyHeard(setup) ==
  IF ~setup.localMonitoring THEN {}
  ELSE UNION {{[channel |-> i, side |-> s] :
                 s \in CASE setup.targets[i] = "left"  -> {"l"}
                        [] setup.targets[i] = "right" -> {"r"}
                        [] setup.targets[i] = "mono"  -> {"l", "r"}
                        [] OTHER                      -> {}} : i \in DOMAIN setup.targets}

\* The channels of everybody else.
SessionSetup(packets, receiver) ==
  {[client |-> c, targets |-> packets[c].setup.targets] : c \in DOMAIN packets \ {receiver}}

\* The clients of a mix in the order of their addresses: the one such sequence.
Before(c, d) == \E i, j \in DOMAIN Addresses : i < j /\ Addresses[i] = c /\ Addresses[j] = d

InOrder(mixed) ==
  {order \in [1..Cardinality(mixed) -> mixed] :
     \A i, j \in DOMAIN order : i < j => Before(order[i], order[j])}

\* The signal of a mix, one client after the other.
MixedSignal(packets, order) ==
  LET signal[i \in Nat] ==
        IF i = 0 THEN "none"
        ELSE IF packets[order[i]].signal = "stop" THEN "stop"
        ELSE IF packets[order[i]].signal = "start" /\ signal[i - 1] = "none" THEN "start"
        ELSE signal[i - 1]
  IN  signal[Len(order)]

\* The counter of a client's latest packet; the first one is 1.
Latest(c) == IF produced[c] = <<>> THEN 0 ELSE produced[c][Len(produced[c])].block.counter

Audio(c, counter) == [i \in 1..BlockSamples |-> <<c, counter, i>>]

\* The audio message of a client, as the server reads it.
Uplink(c, signal) ==
  deserialize(serialize(NewAudioData(Latest(c) + 1, signal, setups[c], <<>>,
                                     IF c \in LegacyClients THEN Legacy ELSE Current))).block

\* The outgoing package for a client.
Package(packets, order, c, counter) ==
  [target  |-> c,
   block   |-> AudioBlock(counter, mixTime + 1, MixedSignal(packets, order),
                          ChannelSetup(FALSE, <<"left", "right">>), Audio(c, counter)),
   session |-> SessionSetup(packets, c)]

\* mix: one package for every client in it, queued in their order.
MixOf(mixed, signals, skips, order) ==
  LET packets == [c \in mixed |-> Uplink(c, signals[c])]
      package == [c \in mixed |-> Package(packets, order, c, Latest(c) + 1 + skips[c])]
  IN  /\ outgoing' = outgoing \o [i \in DOMAIN order |-> package[order[i]]]
      /\ produced' = [c \in Clients |-> IF c \in mixed THEN Append(produced[c], package[c])
                                        ELSE produced[c]]
      /\ lastMix' = [packets |-> [c \in mixed |-> [setup |-> setups[c], signal |-> signals[c]]],
                     signal |-> MixedSignal(packets, order),
                     heard |-> [c \in mixed |-> Heard(packets, c)]]

\* A package has the counter of the receiver's own packet, which skips those that a
\* fast-forward or a long gap left out.
Mix ==
  /\ mixTime < MaxMixes /\ Len(outgoing) <= MaxQueued
  /\ \E mixed \in SUBSET Clients \ {{}} :
       \E signals \in [mixed -> Signals], skips \in [mixed -> 0..1], order \in InOrder(mixed) :
         /\ changes' = changes + Cardinality({c \in mixed : signals[c] # "none"})
                               + Cardinality({c \in mixed : skips[c] = 1})
         /\ changes' <= MaxChanges
         /\ MixOf(mixed, signals, skips, order)
  /\ mixTime' = mixTime + 1
  /\ UNCHANGED <<setups, fec, fecData, packageCounters, heardVars>>

-----------------------------------------------------------------------------
(* SendThread, the network and DataReceiveThread *)

SupportsSplitSessionInfo(c) ==
  supportsSplitSessionInfo(IF c \in LegacyClients THEN Legacy ELSE Current)

\* sendAudioBlock: the block, the one that went to this target before, and the
\* session for a client that knows no session messages.
AudioFor(package) ==
  AudioData(package.block,
            IF fec /\ ~isEmpty(fecData[package.target]) THEN <<getLast(fecData[package.target])>>
            ELSE <<>>,
            Current, IF SupportsSplitSessionInfo(package.target) THEN {} ELSE package.session)

\* Mutant: a session message only with the first package of a client.
InfoOnlyOnce(c) == packageCounters[c] = 0

InfoDue(c) == packageCounters[c] % InfoPeriod = 0

\* DataReceiveThread::run and the client's queue on an audio message.
HearAudio(c, message) ==
  /\ received' = [received EXCEPT ![c] = IF @ = <<>> THEN <<message.block>>
                                         ELSE @ \o GivenOut(@[Len(@)], message)]
  /\ arrived' = [arrived EXCEPT ![c] =
       [first     |-> @.first \cup {message.block.counter},
        redundant |-> IF fec /\ packageCounters[c] > 0
                      THEN @.redundant \cup {produced[c][packageCounters[c]].block.counter}
                      ELSE @.redundant]]

\* One turn of SendThread::run.  The audio message arrives or is lost, and so is the
\* session message (for client info messages see Transport).  A legacy client takes
\* the session from the audio.
SendNext ==
  /\ outgoing # <<>> /\ outgoing' = Tail(outgoing)
  /\ LET package == Head(outgoing)
         c       == package.target
         split   == SupportsSplitSessionInfo(c)
         audio   == deserialize(serialize(AudioFor(package)))
         info    == deserialize(serialize(SessionInfo(package.session, {MtuProbeV1})))
     IN  /\ fecData' = [fecData EXCEPT ![c] = push(@, package.block)]
         /\ packageCounters' = [packageCounters EXCEPT ![c] = @ + 1]
         /\ \E audioArrives, infoArrives \in BOOLEAN :
              LET sendsInfo == split => InfoDue(c)
                  learns    == sendsInfo /\ (IF split THEN infoArrives ELSE audioArrives)
              IN  /\ IF audioArrives THEN HearAudio(c, audio) ELSE UNCHANGED <<received, arrived>>
                  /\ session' = [session EXCEPT ![c] = IF ~learns THEN @ ELSE IF split
                                                       THEN info.channels ELSE audio.legacySession]
                  /\ lostInfos' = [lostInfos EXCEPT ![c] = IF learns THEN 0
                                                           ELSE IF sendsInfo THEN @ + 1 ELSE @]
  /\ lastMix' = NoMix
  /\ UNCHANGED <<setups, fec, changes, mixTime, produced>>

-----------------------------------------------------------------------------
(* The users *)

\* A client changes its channels, or switches FEC on or off for the whole server
\* (setUseFEC, processControlMessage).
ChangeSetup ==
  /\ changes < MaxChanges /\ changes' = changes + 1
  /\ \E c \in Clients, setup \in ChannelSetups : setups' = [setups EXCEPT ![c] = setup]
  /\ lastMix' = NoMix
  /\ UNCHANGED <<fec, serverVars, heardVars, produced>>

SetUseFEC ==
  /\ changes < MaxChanges /\ changes' = changes + 1 /\ fec' = ~fec
  /\ lastMix' = NoMix
  /\ UNCHANGED <<setups, serverVars, heardVars, produced>>

SessionMixNext == Mix \/ SendNext \/ ChangeSetup \/ SetUseFEC

SessionMixSpec == SessionMixInit /\ [][SessionMixNext]_sessionMixVars

-----------------------------------------------------------------------------
(* Properties *)

\* What a client plays for a block is that block, or a stand-in that invents no
\* transport signal; the signal is there whenever the block has arrived, or with FEC the
\* next packet to this client.  After a block that arrived itself the audio is
\* right too, every second sample if it is the redundant one.  While a client was in
\* every mix and skipped nothing the time is exact as well, so that the MIDI clock
\* runs on through a gap.
PlayedIsHonest ==
  \A c \in Clients : \A k \in DOMAIN received[c] :
    LET got       == received[c][k]
        originals == {produced[c][i].block : i \in DOMAIN produced[c]}
        regular   == Len(produced[c]) = mixTime /\ Latest(c) = mixTime
    IN  /\ k > 1 => got.counter > received[c][k - 1].counter
        /\ got.signal # "none" => \E b \in originals : b.counter = got.counter
        /\ \A b \in originals : b.counter = got.counter =>
             /\ got.signal \in {b.signal, "none"}
             /\ got.counter \in arrived[c].first \cup arrived[c].redundant => got.signal = b.signal
             /\ \/ k > 1 /\ received[c][k - 1].counter \notin arrived[c].first
                \/ IF got.counter \in arrived[c].first THEN got.audio = b.audio
                   ELSE got.counter \in arrived[c].redundant =>
                          \A i \in 1..BlockSamples :
                            got.audio[i] = b.audio[i - ((i - 1) % FecReduction)]
        /\ regular => got.time = got.counter

\* "Great, no gap, and the correct data has been retrieved": a block that has arrived
\* is played with its own audio, also after a gap.
ArrivedIsHeard ==
  \A c \in Clients : \A k \in DOMAIN received[c] :
    received[c][k].counter \in arrived[c].first =>
      received[c][k].audio = Audio(c, received[c][k].counter)

\* The session a client shows is not older than one period of packages, or one
\* more for every session message that was lost; a legacy client has it with
\* every packet that arrives.
SessionIsRecent ==
  \A c \in Clients :
    LET period == IF SupportsSplitSessionInfo(c) THEN InfoPeriod ELSE 1
        n      == packageCounters[c]
    IN  n > period * lostInfos[c] =>
          \E i \in 1..n : i > n - period * (lostInfos[c] + 1)
                          /\ session[c] = produced[c][i].session

\* What a musician hears in all, in the mix that the server returns and in the
\* monitoring of the client itself: of the others every channel on its side, muted
\* ones nowhere; of the own channels those that are to be heard, from one of the two,
\* and never one that is sent only, whether the client monitors locally or not (that
\* nothing is heard from both is EchoAsRequested).  And a Stop of anyone beats every
\* Start, whatever the order of the addresses.
NobodyIsMissed ==
  LET packets == lastMix.packets
      On(side, target) == target \in {"mono", "sendMono"} \cup
                            (IF side = "l" THEN {"left", "sendLeft"} ELSE {"right", "sendRight"})
      Sent(s) == \E c \in DOMAIN packets : packets[c].signal = s
  IN  /\ lastMix.signal = IF Sent("stop") THEN "stop" ELSE IF Sent("start") THEN "start"
                          ELSE "none"
      /\ \A c, d \in DOMAIN packets : \A i \in DOMAIN packets[d].setup.targets, s \in {"l", "r"} :
           LET target  == packets[d].setup.targets[i]
               inMix   == [from |-> d, channel |-> i, side |-> s] \in lastMix.heard[c]
               locally == c = d /\ [channel |-> i, side |-> s] \in LocallyHeard(packets[d].setup)
           IN  inMix \/ locally <=> On(s, target) /\ (c = d => target \in {"left", "right", "mono"})

\* A client that monitors itself locally hears none of its channels a second time,
\* later, in the mix that the server returns.
EchoAsRequested ==
  \A c \in DOMAIN lastMix.packets : \A h \in lastMix.heard[c] :
    h.from = c => [channel |-> h.channel, side |-> h.side] \notin
                    LocallyHeard(lastMix.packets[c].setup)
=============================================================================
