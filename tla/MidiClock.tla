------------------------------ MODULE MidiClock ------------------------------
(***************************************************************************)
(* The MIDI clock of the client.  The audio callback turns every frame it  *)
(* plays into clock pulses and transport commands and hands them to the    *)
(* current MidiSendThread through a raw pointer; the message thread        *)
(* replaces that sender whenever the MIDI outputs change, or removes it    *)
(* with the engine, and may destroy the old one only when no callback can  *)
(* still use it (a hazard pointer).                                        *)
(*                                                                         *)
(* Time is counted in samples of the server.  A pulse number p is due at   *)
(* sample p * PulseSamples / Tempo.                                        *)
(***************************************************************************)
EXTENDS Integers, Sequences, FiniteSets

CONSTANTS
  MaxSenders,      \* bound: calls of restartClock
  MaxFrames,       \* bound: frames of the server
  FrameLength,     \* SAMPLE_BUFFER_SIZE
  PulseSamples,    \* SAMPLE_RATE * 60 / 24: samples per pulse at one beat per minute
  ClockTempos,          \* beats per minute of the session; 0 is no tempo
  MaximumPulses,   \* maximumPulsesPerFrame
  MidiQueueCapacity    \* of midiMessages

ASSUME MidiAssumption ==
  /\ MaxSenders \in Nat /\ MaxFrames \in Nat /\ MaximumPulses \in Nat /\ MidiQueueCapacity \in Nat
  /\ FrameLength \in Nat \ {0} /\ PulseSamples \in Nat \ {0}
  /\ \A bpm \in ClockTempos : bpm \in Nat /\ FrameLength * bpm <= PulseSamples * MaximumPulses

Senders == 1..MaxSenders
NoSender == 0

VARIABLES
  tempo,       \* the session's tempo
  frame,       \* the frame the callback plays next
  publishedSender,   \* realtimeMidiSender_
  hazard,      \* realtimeMidiSenderHazard_
  owner,       \* midiSendThread_
  senderState,      \* the state of every sender
  items,       \* midiMessages of every sender
  lastSent,        \* the messages that went to the MIDI outputs last
  clockPc, held,          \* scheduleMidiForPlayout and its local pointer
  midiPc, fresh, retiring,   \* restartClock, shutdown and their local pointers
  ticks,       \* history: the pulses handed to a sender, in order
  played       \* history: the frames scheduled with a sender

clockVars == <<tempo, frame, ticks, played>>
senderVars == <<senderState, items, lastSent>>
midiVars == <<midiPc, fresh, retiring>>
midiClockVars == <<clockVars, publishedSender, hazard, owner, senderVars, clockPc, held, midiVars>>

MidiInit ==
  /\ tempo \in ClockTempos /\ frame = 0 /\ ticks = <<>> /\ played = {}
  /\ publishedSender = NoSender /\ hazard = NoSender /\ owner = NoSender
  /\ senderState = [s \in Senders |-> "none"] /\ items = [s \in Senders |-> <<>>] /\ lastSent = <<>>
  /\ clockPc = "idle" /\ held = NoSender
  /\ midiPc = "idle" /\ fresh = NoSender /\ retiring = NoSender

-----------------------------------------------------------------------------
(* What a frame sends *)

CeilDiv(a, b) == (a + b - 1) \div b

\* Mutant: a pulse on the boundary of two frames belongs to neither.
PulsesAfterStart(f, bpm) ==
  IF bpm = 0 THEN <<>>
  ELSE LET first == (f * FrameLength * bpm) \div PulseSamples + 1
           due   == {p \in first..(first + MaximumPulses - 1) :
                       p * PulseSamples < (f + 1) * FrameLength * bpm}
       IN  [i \in 1..Cardinality(due) |-> first + i - 1]

\* scheduleMidiFrame: the pulses that are due within frame f, at most so many.
Pulses(f, bpm) ==
  IF bpm = 0 THEN <<>>
  ELSE LET first == CeilDiv(f * FrameLength * bpm, PulseSamples)
           due   == {p \in first..(first + MaximumPulses - 1) :
                       p * PulseSamples < (f + 1) * FrameLength * bpm}
       IN  [i \in 1..Cardinality(due) |-> first + i - 1]

\* createOutputMessages: a transport command, with the tempo for a Boss looper
\* if there is one, or a clock.
OutputMessages(item) ==
  IF item = "clock" THEN <<"clock">>
  ELSE IF tempo > 0 THEN <<item, "boss">> ELSE <<item>>

\* enqueueAt: a full queue drops the item.
Enqueued(q, item) == IF Len(q) < MidiQueueCapacity THEN Append(q, item) ELSE q

\* The queue of a sender after frame f: its command, then its pulses.
Scheduled(q, f, signal) ==
  LET withSignal == IF signal = "none" THEN q ELSE Enqueued(q, signal)
      clocks     == [i \in 1..Len(Pulses(f, tempo)) |-> "clock"]
      room       == MidiQueueCapacity - Len(withSignal)
  IN  withSignal \o SubSeq(clocks, 1, IF room < Len(clocks) THEN room ELSE Len(clocks))

-----------------------------------------------------------------------------
(* The audio callback: scheduleMidiForPlayout *)

LoadSender ==
  /\ clockPc \in {"idle", "load"} /\ frame < MaxFrames
  /\ clockPc' = "protect" /\ held' = publishedSender
  /\ UNCHANGED <<clockVars, publishedSender, hazard, owner, senderVars, midiVars>>

ProtectSender ==
  /\ clockPc = "protect" /\ clockPc' = "validate" /\ hazard' = held
  /\ UNCHANGED <<clockVars, publishedSender, owner, senderVars, held, midiVars>>

\* Mutant: the pointer is trusted once it is protected.
TrustSender ==
  /\ clockPc = "validate" /\ clockPc' = "use"
  /\ UNCHANGED <<clockVars, publishedSender, hazard, owner, senderVars, held, midiVars>>

\* The pointer counts only if it is still the published one.
ValidateSender ==
  /\ clockPc = "validate"
  /\ clockPc' = IF held = publishedSender THEN "use" ELSE "load"
  /\ UNCHANGED <<clockVars, publishedSender, hazard, owner, senderVars, held, midiVars>>

\* Mutant: the hazard pointer is left standing.
UseAndKeepHazard ==
  /\ clockPc = "use" /\ clockPc' = "idle" /\ held' = NoSender /\ frame' = frame + 1
  /\ UNCHANGED <<tempo, ticks, played, publishedSender, hazard, owner, senderVars, midiVars>>

\* The markers of the block are scheduled, with a sender or not.  Frames may be
\* missing before this one: the stream was reset or skipped ahead.
UseSender ==
  /\ clockPc = "use" /\ clockPc' = "idle"
  /\ \E f \in frame..(MaxFrames - 1), signal \in {"none", "start", "stop"} :
       /\ frame' = f + 1
       /\ IF held = NoSender THEN UNCHANGED <<items, ticks, played>>
          ELSE /\ items' = [items EXCEPT ![held] = Scheduled(@, f, signal)]
               /\ ticks' = ticks \o Pulses(f, tempo)
               /\ played' = played \cup {f}
  /\ hazard' = NoSender /\ held' = NoSender
  /\ UNCHANGED <<tempo, publishedSender, owner, senderState, lastSent, midiVars>>

ScheduleGoesOn == ProtectSender \/ ValidateSender \/ UseSender
                    \/ (clockPc = "load" /\ LoadSender)

-----------------------------------------------------------------------------
(* The message thread: restartClock, and the end of shutdown *)

\* A new sender is started and owned; the old one will be retired.
RestartClock ==
  /\ midiPc = "idle"
  /\ \E s \in Senders :
       /\ senderState[s] = "none" /\ \A t \in 1..(s - 1) : senderState[t] # "none"
       /\ senderState' = [senderState EXCEPT ![s] = "running"]
       /\ fresh' = s /\ owner' = s
  /\ retiring' = owner /\ midiPc' = "publish"
  /\ UNCHANGED <<clockVars, publishedSender, hazard, items, lastSent, clockPc, held>>

\* JammerNetzAudioEngine::shutdown, when no callback is inside any more.
ShutdownClock ==
  /\ midiPc = "idle" /\ clockPc = "idle" /\ owner # NoSender
  /\ fresh' = NoSender /\ owner' = NoSender /\ retiring' = owner /\ midiPc' = "publish"
  /\ UNCHANGED <<clockVars, publishedSender, hazard, senderVars, clockPc, held>>

PublishSender ==
  /\ midiPc = "publish" /\ publishedSender' = fresh /\ fresh' = NoSender
  /\ midiPc' = IF retiring = NoSender THEN "idle" ELSE "disable"
  /\ UNCHANGED <<clockVars, hazard, owner, senderVars, clockPc, held, retiring>>

DisableOutput ==
  /\ midiPc = "disable" /\ midiPc' = "await"
  /\ senderState' = [senderState EXCEPT ![retiring] = "disabled"]
  /\ UNCHANGED <<clockVars, publishedSender, hazard, owner, items, lastSent, clockPc, held, fresh,
                 retiring>>

\* The hazard is clear: the thread is joined and the object destroyed.
DestroySender ==
  /\ midiPc = "await" /\ hazard # retiring /\ midiPc' = "idle" /\ retiring' = NoSender
  /\ senderState' = [senderState EXCEPT ![retiring] = "destroyed"]
  /\ items' = [items EXCEPT ![retiring] = <<>>]
  /\ UNCHANGED <<clockVars, publishedSender, hazard, owner, lastSent, clockPc, held, fresh>>

RetirementGoesOn == PublishSender \/ DisableOutput \/ DestroySender

-----------------------------------------------------------------------------
(* MidiSendThread::run: the next item is sent when it is due, unless disabled *)

SendItem(s) ==
  /\ senderState[s] \in {"running", "disabled"} /\ items[s] # <<>>
  /\ items' = [items EXCEPT ![s] = Tail(@)]
  /\ lastSent' = IF senderState[s] = "running" THEN OutputMessages(Head(items[s])) ELSE lastSent
  /\ UNCHANGED <<clockVars, publishedSender, hazard, owner, senderState, clockPc, held, midiVars>>

MidiNext ==
  \/ LoadSender \/ ScheduleGoesOn
  \/ RestartClock \/ ShutdownClock \/ RetirementGoesOn
  \/ \E s \in Senders : SendItem(s)

MidiSpec == MidiInit /\ [][MidiNext]_midiClockVars

-----------------------------------------------------------------------------
(* Properties *)

\* The sender the callback works with is not destroyed under it, however the
\* replacement and the callback interleave.
UsedSenderLives ==
  clockPc = "use" /\ held # NoSender => senderState[held] \in {"running", "disabled"}

\* Over all frames played, with gaps or without, every pulse that is due in one
\* of them is handed over exactly once and in order: nothing is lost or doubled
\* at the boundary of two frames.
EveryPulseOnce ==
  LET due == {p \in 0..(MaxFrames * MaximumPulses) :
                \E f \in played : /\ f * FrameLength * tempo <= p * PulseSamples
                                  /\ p * PulseSamples < (f + 1) * FrameLength * tempo}
  IN  /\ {ticks[i] : i \in 1..Len(ticks)} = IF tempo = 0 THEN {} ELSE due
      /\ \A i \in 1..(Len(ticks) - 1) : ticks[i] < ticks[i + 1]

\* A replaced sender is destroyed eventually: a callback never keeps it for good.
RetirementEnds == \A s \in Senders : retiring = s ~> senderState[s] = "destroyed"
=============================================================================
