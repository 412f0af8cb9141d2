--------------------------- MODULE DeliveryProofs ---------------------------
(***************************************************************************)
(* What the client promises about everything it passes on: transport       *)
(* commands leave in order and at most once, every MIDI clock pulse is     *)
(* scheduled once and on time, and recordings are complete and separate.   *)
(* Each proof rests on an inductive invariant of its own; the parts share  *)
(* no state.                                                               *)
(***************************************************************************)
EXTENDS TransmitPath, Recording, MidiClock, FiniteSetTheorems, TLAPS

-----------------------------------------------------------------------------
(* TransmitPath *)

\* How many of the accepted commands have left midiSignalsToSend_.
Taken == issued - Len(commands)

Frame == [channels : Nat, command : Nat]

\* The types of what the proof is about.
TransportData ==
  /\ issued \in Nat /\ commands \in Seq(Nat) /\ Len(commands) <= issued
  /\ frames \in Seq(Frame) /\ sent \in Seq(Nat) /\ givenUp \subseteq 1..Taken

\* midiSignalsToSend_ holds the last commands, in order; what is in a queued frame
\* is newer than what the worker has dealt with and older than what waits, again in
\* order; nothing was both sent and given up; and everything taken is somewhere.
TransportInv ==
  /\ TransportData
  /\ \A i \in 1..Len(commands) : commands[i] = Taken + i
  /\ \A i \in 1..Len(frames) : frames[i].command <= Taken
  /\ \A i, j \in 1..Len(frames) :
       i < j /\ frames[i].command # 0 /\ frames[j].command # 0 =>
         frames[i].command < frames[j].command
  /\ \A i \in 1..Len(sent) : sent[i] \in 1..Taken
  /\ \A i \in 1..Len(sent), j \in 1..Len(frames) :
       frames[j].command # 0 => sent[i] < frames[j].command
  /\ \A i \in 1..(Len(sent) - 1) : sent[i] < sent[i + 1]
  /\ \A g \in givenUp, j \in 1..Len(frames) :
       frames[j].command # 0 => g < frames[j].command
  /\ \A i \in 1..Len(sent) : sent[i] \notin givenUp
  /\ \A c \in 1..Taken : \/ \E i \in 1..Len(frames) : frames[i].command = c
                         \/ \E i \in 1..Len(sent) : sent[i] = c
                         \/ c \in givenUp

\* A command the user gives is the newest and waits.
LEMMA SetSignalInv ==
  ASSUME TransportInv, SetMidiSignalToSend
  PROVE  TransportInv'
<1> USE DEF TransportInv, TransportData
<1>1. /\ issued' = issued + 1 /\ commands' = Append(commands, issued + 1)
      /\ UNCHANGED <<frames, sent, givenUp>>
  BY DEF SetMidiSignalToSend, frameVars
<1>2. /\ commands' \in Seq(Nat) /\ Len(commands') = Len(commands) + 1 /\ Taken' = Taken
  BY <1>1 DEF Taken
<1>3. \A i \in 1..Len(commands') : commands'[i] = Taken' + i
  <2> SUFFICES ASSUME NEW i \in 1..Len(commands') PROVE commands'[i] = Taken' + i
    OBVIOUS
  <2>1. CASE i = Len(commands) + 1
    BY <1>1, <1>2, <2>1 DEF Taken
  <2>2. CASE i # Len(commands) + 1
    <3>1. i \in 1..Len(commands) /\ commands'[i] = commands[i]
      BY <1>1, <1>2, <2>2
    <3> QED  BY <1>2, <3>1
  <2> QED  BY <2>1, <2>2
<1>4. TransportData'
  BY <1>1, <1>2
<1> HIDE DEF TransportData
<1> QED  BY <1>1, <1>2, <1>3, <1>4

\* A frame that is queued takes the oldest waiting command, if there is one; a
\* frame without room takes none.
LEMMA CutFrameInv ==
  ASSUME TransportInv, CutFrame
  PROVE  TransportInv'
<1>1. UNCHANGED <<issued, sent, givenUp>>
  BY DEF CutFrame, commandVars
<1>2. CASE UNCHANGED <<commands, frames>>
  BY <1>1, <1>2 DEF TransportInv, TransportData, Taken
<1>3. CASE frames' = Append(frames, [channels |-> DeviceChannels, command |-> NextCommand])
           /\ commands' = AfterTaking
  <2> DEFINE f == [channels |-> DeviceChannels, command |-> NextCommand]
  <2>1. /\ issued \in Nat /\ commands \in Seq(Nat) /\ Len(commands) <= issued /\ Taken \in Nat
        /\ frames \in Seq(Frame) /\ Len(frames) \in Nat
    BY DEF TransportInv, TransportData, Taken
  <2>2. /\ NextCommand \in Nat /\ NextCommand <= Taken' /\ Taken' \in Nat
        /\ NextCommand # 0 => NextCommand = Taken + 1 /\ Taken' = Taken + 1
        /\ NextCommand = 0 => Taken' = Taken
        /\ commands' \in Seq(Nat) /\ Len(commands') <= issued'
        /\ \A i \in 1..Len(commands') : commands'[i] = Taken' + i
    <3>1. CASE commands = <<>>
      BY <1>1, <1>3, <2>1, <3>1 DEF NextCommand, AfterTaking, NoCommand, Taken
    <3>2. CASE commands # <<>>
      <4>1. /\ commands[1] = Taken + 1 /\ Len(commands) \in Nat \ {0}
            /\ \A i \in 1..Len(commands) : commands[i] = Taken + i
        BY <2>1, <3>2 DEF TransportInv
      <4>2. /\ commands' \in Seq(Nat) /\ Len(commands') = Len(commands) - 1
            /\ \A i \in 1..Len(commands') : commands'[i] = commands[i + 1]
        BY <1>3, <2>1, <3>2 DEF AfterTaking
      <4>3. NextCommand = Taken + 1
        BY <2>1, <3>2, <4>1 DEF NextCommand
      <4>4. Taken' = Taken + 1
        BY <1>1, <2>1, <4>2 DEF Taken
      <4>5. \A i \in 1..Len(commands') : commands'[i] = Taken' + i
        BY <2>1, <4>1, <4>2, <4>4
      <4> QED  BY <1>1, <2>1, <4>1, <4>2, <4>3, <4>4, <4>5
    <3> QED  BY <3>1, <3>2
  <2>3. /\ f \in Frame /\ f.command = NextCommand
    BY <2>2, TransmitAssumption DEF Frame
  <2> HIDE DEF f
  <2>4. /\ frames' \in Seq(Frame) /\ Len(frames') = Len(frames) + 1
        /\ \A i \in 1..Len(frames) : frames'[i] = frames[i]
        /\ frames'[Len(frames) + 1] = f
    BY <1>3, <2>1, <2>3 DEF f
  <2>5. \A i \in 1..Len(frames') : i \in 1..Len(frames) \/ i = Len(frames) + 1
    BY <2>1, <2>4
  <2>6. \A i \in 1..Len(frames) : frames[i].command \in Nat /\ frames[i].command <= Taken
    <3>1. \A i \in 1..Len(frames) : frames[i] \in Frame
      BY <2>1
    <3>2. \A i \in 1..Len(frames) : frames[i].command <= Taken
      BY DEF TransportInv
    <3> QED  BY <3>1, <3>2 DEF Frame
  <2>7. TransportData'
    BY <1>1, <2>1, <2>2, <2>4 DEF TransportInv, TransportData
  <2>8. \A i \in 1..Len(frames') : frames'[i].command <= Taken'
    <3> SUFFICES ASSUME NEW i \in 1..Len(frames') PROVE frames'[i].command <= Taken'
      OBVIOUS
    <3>1. CASE i \in 1..Len(frames)
      <4>1. frames'[i].command \in Nat /\ frames'[i].command <= Taken
        BY <2>4, <2>6, <3>1
      <4> QED  BY <2>1, <2>2, <4>1
    <3>2. CASE i = Len(frames) + 1
      BY <2>2, <2>3, <2>4, <3>2
    <3> QED  BY <2>5, <3>1, <3>2
  <2>9. \A i, j \in 1..Len(frames') :
          i < j /\ frames'[i].command # 0 /\ frames'[j].command # 0 =>
            frames'[i].command < frames'[j].command
    <3> SUFFICES ASSUME NEW i \in 1..Len(frames'), NEW j \in 1..Len(frames'), i < j,
                        frames'[i].command # 0, frames'[j].command # 0
                 PROVE  frames'[i].command < frames'[j].command
      OBVIOUS
    <3>1. i \in 1..Len(frames) /\ frames'[i] = frames[i]
      BY <2>1, <2>4
    <3>2. CASE j \in 1..Len(frames)
      BY <2>4, <3>1, <3>2 DEF TransportInv
    <3>3. CASE j = Len(frames) + 1
      BY <2>1, <2>2, <2>3, <2>4, <2>6, <3>1, <3>3
    <3> QED  BY <2>5, <3>2, <3>3
  <2>10. \A i \in 1..Len(sent) : sent[i] \in 1..Taken /\ sent[i] \in 1..Taken'
    BY <2>1, <2>2 DEF TransportInv
  <2>11. \A i \in 1..Len(sent), j \in 1..Len(frames') :
           frames'[j].command # 0 => sent[i] < frames'[j].command
    <3> SUFFICES ASSUME NEW i \in 1..Len(sent), NEW j \in 1..Len(frames'), frames'[j].command # 0
                 PROVE  sent[i] < frames'[j].command
      OBVIOUS
    <3>1. CASE j \in 1..Len(frames)
      BY <2>4, <3>1 DEF TransportInv
    <3>2. CASE j = Len(frames) + 1
      BY <2>1, <2>2, <2>3, <2>4, <2>10, <3>2
    <3> QED  BY <2>5, <3>1, <3>2
  <2>12. ASSUME NEW c \in 1..Taken'
         PROVE  \/ \E i \in 1..Len(frames') : frames'[i].command = c
                \/ \E i \in 1..Len(sent) : sent[i] = c
                \/ c \in givenUp
    <3>1. CASE c \in 1..Taken
      <4>1. \A i \in 1..Len(frames) : i \in 1..Len(frames')
        BY <2>1, <2>4
      <4> QED  BY <2>4, <3>1, <4>1 DEF TransportInv
    <3>2. CASE c \notin 1..Taken
      <4>1. c = NextCommand
        BY <2>1, <2>2, <3>2
      <4>2. Len(frames) + 1 \in 1..Len(frames')
        BY <2>1, <2>4
      <4> QED  BY <2>3, <2>4, <4>1, <4>2
    <3> QED  BY <3>1, <3>2
  <2>13. \A g \in givenUp, j \in 1..Len(frames') :
           frames'[j].command # 0 => g < frames'[j].command
    <3> SUFFICES ASSUME NEW g \in givenUp, NEW j \in 1..Len(frames'), frames'[j].command # 0
                 PROVE  g < frames'[j].command
      OBVIOUS
    <3>1. g \in 1..Taken
      BY DEF TransportInv, TransportData
    <3>2. CASE j \in 1..Len(frames)
      BY <2>4, <3>2 DEF TransportInv
    <3>3. CASE j = Len(frames) + 1
      BY <2>1, <2>2, <2>3, <2>4, <3>1, <3>3
    <3> QED  BY <2>5, <3>2, <3>3
  <2>14. /\ \A i \in 1..(Len(sent) - 1) : sent[i] < sent[i + 1]
         /\ \A i \in 1..Len(sent) : sent[i] \notin givenUp
    BY DEF TransportInv
  <2> QED  BY <1>1, <2>2, <2>7, <2>8, <2>9, <2>10, <2>11, <2>12, <2>13, <2>14 DEF TransportInv
<1> QED  BY <1>2, <1>3 DEF CutFrame, commandVars, EnqueueFrom

\* The worker takes the oldest frame; its command is newer than all that were
\* sent and older than those still queued.
LEMMA ProcessFrameInv ==
  ASSUME TransportInv, ProcessFrame
  PROVE  TransportInv'
<1>1. /\ issued \in Nat /\ commands \in Seq(Nat) /\ Taken \in Nat /\ Taken' = Taken
      /\ frames \in Seq(Frame) /\ Len(frames) \in Nat \ {0} /\ sent \in Seq(Nat)
      /\ UNCHANGED <<commands, issued>>
  BY DEF TransportInv, TransportData, Taken, ProcessFrame, commandVars
<1>2. /\ frames' \in Seq(Frame) /\ Len(frames') = Len(frames) - 1
      /\ \A i \in 1..Len(frames') : frames'[i] = frames[i + 1]
      /\ Head(frames) = frames[1] /\ 1 \in 1..Len(frames)
  BY <1>1 DEF ProcessFrame
<1>3. \A i \in 1..Len(frames') : i + 1 \in 1..Len(frames) /\ 1 < i + 1
  BY <1>1, <1>2
<1> DEFINE c == frames[1].command
<1>4. /\ \A i \in 1..Len(frames) : frames[i].command \in Nat
      /\ \A i \in 1..Len(frames) : frames[i].command <= Taken
  <2>1. \A i \in 1..Len(frames) : frames[i] \in Frame
    BY <1>1
  <2> QED  BY <2>1 DEF TransportInv, Frame
<1>5. c \in 0..Taken
  BY <1>1, <1>2, <1>4
<1>6. /\ \A i \in 1..Len(frames') : frames'[i].command <= Taken'
      /\ \A i, j \in 1..Len(frames') :
           i < j /\ frames'[i].command # 0 /\ frames'[j].command # 0 =>
             frames'[i].command < frames'[j].command
      /\ \A j \in 1..Len(frames') : c # 0 /\ frames'[j].command # 0 => c < frames'[j].command
  <2>1. \A i \in 1..Len(frames') : frames'[i].command <= Taken'
    BY <1>1, <1>2, <1>3, <1>4
  <2>2. \A i, j \in 1..Len(frames) :
          i < j /\ frames[i].command # 0 /\ frames[j].command # 0 =>
            frames[i].command < frames[j].command
    BY DEF TransportInv
  <2>3. \A i, j \in 1..Len(frames') : i < j => i + 1 < j + 1
    OBVIOUS
  <2>4. \A i, j \in 1..Len(frames') :
           i < j /\ frames'[i].command # 0 /\ frames'[j].command # 0 =>
             frames'[i].command < frames'[j].command
    BY <1>2, <1>3, <2>2, <2>3
  <2>5. \A j \in 1..Len(frames') : c # 0 /\ frames'[j].command # 0 => c < frames'[j].command
    BY <1>2, <1>3, <2>2
  <2> QED  BY <2>1, <2>4, <2>5
<1>7. \A i \in 1..Len(sent) : sent[i] \in 1..Taken /\ (c # 0 => sent[i] < c)
  BY <1>2 DEF TransportInv
<1>8. \A i \in 1..Len(sent), j \in 1..Len(frames') :
        frames'[j].command # 0 => sent[i] < frames'[j].command
  <2>1. \A i \in 1..Len(sent), j \in 1..Len(frames) :
          frames[j].command # 0 => sent[i] < frames[j].command
    BY DEF TransportInv
  <2> QED  BY <1>2, <1>3, <2>1
<1>9. /\ \A g \in givenUp : g \in 1..Taken /\ (c # 0 => g < c)
      /\ \A g \in givenUp, j \in 1..Len(frames') :
           frames'[j].command # 0 => g < frames'[j].command
  <2>1. /\ givenUp \subseteq 1..Taken
        /\ \A g \in givenUp, j \in 1..Len(frames) :
             frames[j].command # 0 => g < frames[j].command
    BY DEF TransportInv, TransportData
  <2> QED  BY <1>2, <1>3, <2>1
<1>10. \A i \in 1..Len(sent) : sent[i] \notin givenUp
  BY DEF TransportInv
<1>11. ASSUME NEW d \in 1..Taken
      PROVE  \/ \E i \in 1..Len(frames') : frames'[i].command = d
             \/ d = c
             \/ \E i \in 1..Len(sent) : sent[i] = d
             \/ d \in givenUp
  <2>1. CASE \E i \in 1..Len(frames) : frames[i].command = d
    <3>1. PICK i \in 1..Len(frames) : frames[i].command = d
      BY <2>1
    <3>2. CASE i = 1
      BY <3>1, <3>2
    <3>3. CASE i # 1
      <4>1. i - 1 \in 1..Len(frames') /\ (i - 1) + 1 = i
        BY <1>1, <1>2, <3>3
      <4>2. frames'[i - 1].command = d
        BY <1>2, <3>1, <4>1
      <4> QED  BY <4>1, <4>2
    <3> QED  BY <3>2, <3>3
  <2> QED  BY <2>1 DEF TransportInv
<1> HIDE DEF c
<1>12. CASE c # 0 /\ sent' = Append(sent, c) /\ UNCHANGED givenUp
  <2>1. /\ sent' \in Seq(Nat) /\ Len(sent') = Len(sent) + 1 /\ Len(sent) \in Nat
        /\ \A i \in 1..Len(sent) : sent'[i] = sent[i]
        /\ sent'[Len(sent) + 1] = c
    BY <1>1, <1>5, <1>12
  <2>2. \A i \in 1..Len(sent') : i \in 1..Len(sent) \/ i = Len(sent) + 1
    BY <2>1
  <2>3. TransportData'
    BY <1>1, <1>2, <1>12, <2>1 DEF TransportInv, TransportData
  <2>4. \A i \in 1..Len(sent') : sent'[i] \in 1..Taken'
    BY <1>1, <1>5, <1>7, <1>12, <2>1, <2>2
  <2>5. \A i \in 1..Len(sent'), j \in 1..Len(frames') :
          frames'[j].command # 0 => sent'[i] < frames'[j].command
    BY <1>6, <1>8, <1>12, <2>1, <2>2
  <2>6. \A i \in 1..(Len(sent') - 1) : sent'[i] < sent'[i + 1]
    <3> SUFFICES ASSUME NEW i \in 1..(Len(sent') - 1) PROVE sent'[i] < sent'[i + 1]
      OBVIOUS
    <3>1. CASE i = Len(sent)
      BY <1>7, <1>12, <2>1, <3>1
    <3>2. CASE i # Len(sent)
      <4>1. i \in 1..(Len(sent) - 1) /\ i \in 1..Len(sent) /\ i + 1 \in 1..Len(sent)
        BY <2>1, <3>2
      <4> QED  BY <2>1, <4>1 DEF TransportInv
    <3> QED  BY <3>1, <3>2
  <2>7. Len(sent) + 1 \in 1..Len(sent') /\ \A i \in 1..Len(sent) : i \in 1..Len(sent')
    BY <2>1
  <2>8. \A d \in 1..Taken' : \/ \E i \in 1..Len(frames') : frames'[i].command = d
                             \/ \E i \in 1..Len(sent') : sent'[i] = d
                             \/ d \in givenUp'
    BY <1>1, <1>11, <1>12, <2>1, <2>7
  <2>9. \A i \in 1..Len(commands') : commands'[i] = Taken' + i
    BY <1>1 DEF TransportInv
  <2>10. \A i \in 1..Len(sent') : sent'[i] \notin givenUp'
    <3>1. c \notin givenUp
      BY <1>5, <1>12, <1>9
    <3> QED  BY <1>12, <1>10, <2>1, <2>2, <3>1
  <2>11. \A g \in givenUp', j \in 1..Len(frames') :
           frames'[j].command # 0 => g < frames'[j].command
    BY <1>12, <1>9
  <2> QED  BY <1>6, <2>3, <2>4, <2>5, <2>6, <2>8, <2>9, <2>10, <2>11 DEF TransportInv
<1>13. CASE UNCHANGED sent /\ (\/ UNCHANGED givenUp /\ c = 0
                               \/ givenUp' = givenUp \cup ({c} \ {0}))
  <2>1. TransportData'
    <3>1. givenUp \subseteq 1..Taken
      BY DEF TransportInv, TransportData
    <3>2. {c} \ {0} \subseteq 1..Taken
      BY <1>1, <1>5
    <3>3. givenUp' \subseteq 1..Taken'
      BY <1>1, <1>13, <3>1, <3>2
    <3> QED  BY <1>1, <1>2, <1>13, <3>3 DEF TransportInv, TransportData
  <2>2. \A d \in 1..Taken' : \/ \E i \in 1..Len(frames') : frames'[i].command = d
                             \/ \E i \in 1..Len(sent') : sent'[i] = d
                             \/ d \in givenUp'
    BY <1>1, <1>11, <1>13, SMTT(30)
  <2>3. \A i \in 1..Len(commands') : commands'[i] = Taken' + i
    BY <1>1 DEF TransportInv
  <2>4. /\ \A i \in 1..Len(sent') : sent'[i] \in 1..Taken'
        /\ \A i \in 1..(Len(sent') - 1) : sent'[i] < sent'[i + 1]
    BY <1>1, <1>13 DEF TransportInv
  <2>5. \A i \in 1..Len(sent') : sent'[i] \notin givenUp'
    <3>1. \A i \in 1..Len(sent) : sent[i] \notin {c} \ {0}
      BY <1>1, <1>5, <1>7
    <3> QED  BY <1>13, <1>10, <3>1
  <2>6. \A g \in givenUp', j \in 1..Len(frames') :
          frames'[j].command # 0 => g < frames'[j].command
    <3> SUFFICES ASSUME NEW g \in givenUp', NEW j \in 1..Len(frames'), frames'[j].command # 0
                 PROVE  g < frames'[j].command
      OBVIOUS
    <3>1. g \in givenUp \/ (g = c /\ c # 0)
      BY <1>13
    <3> QED  BY <1>6, <1>9, <3>1
  <2> QED  BY <1>6, <1>8, <1>13, <2>1, <2>2, <2>3, <2>4, <2>5, <2>6 DEF TransportInv
<1>14. \/ c # 0 /\ sent' = Append(sent, c) /\ UNCHANGED givenUp
       \/ UNCHANGED sent /\ (\/ UNCHANGED givenUp /\ c = 0
                             \/ givenUp' = givenUp \cup ({c} \ {0}))
  BY <1>2 DEF ProcessFrame, NoCommand, c
<1> QED  BY <1>12, <1>13, <1>14

\* The invariant of the transport commands, for every capacity of the queues and
\* every sequence of channel setups.
THEOREM TransportInvariant == TransmitSpec => []TransportInv
<1>1. TransmitInit => TransportInv
  BY DEF TransmitInit, TransportInv, TransportData, Taken
<1>2. TransportInv /\ [TransmitNext]_transmitVars => TransportInv'
  <2> SUFFICES ASSUME TransportInv, [TransmitNext]_transmitVars PROVE TransportInv'
    OBVIOUS
  <2>1. CASE UNCHANGED <<commandVars, frameVars>>
    BY <2>1 DEF commandVars, frameVars, TransportInv, TransportData, Taken
  <2>2. \/ SetMidiSignalToSend \/ CutFrame \/ ProcessFrame \/ UNCHANGED <<commandVars, frameVars>>
    BY DEF TransmitNext, SetChannelSetup, RetireInputState, PublishInputState, ChunkBegins,
           IngestBlock, ChunkEnds, transmitVars
  <2> QED  BY <2>1, <2>2, SetSignalInv, CutFrameInv, ProcessFrameInv
<1> QED  BY <1>1, <1>2, PTL DEF TransmitSpec

\* Start and Stop of the user are neither reordered nor repeated on their way to the
\* network, and none is lost before the worker has taken its frame, however full the
\* queues are.
THEOREM TransportIsAccounted == TransmitSpec => []TransportAccounted
<1>1. TransportInv => TransportAccounted
  <2> SUFFICES ASSUME TransportInv PROVE TransportAccounted
    OBVIOUS
  <2> DEFINE waiting == {commands[i] : i \in DOMAIN commands}
             queued  == {frames[i].command : i \in DOMAIN frames} \ {NoCommand}
             left    == {sent[i] : i \in DOMAIN sent}
  <2>1. /\ issued \in Nat /\ commands \in Seq(Nat) /\ Len(commands) <= issued /\ Taken \in Nat
        /\ frames \in Seq(Frame) /\ sent \in Seq(Nat) /\ givenUp \subseteq 1..Taken
        /\ Len(commands) \in Nat /\ issued = Taken + Len(commands)
    BY DEF TransportInv, TransportData, Taken
  <2>2. /\ DOMAIN commands = 1..Len(commands) /\ DOMAIN frames = 1..Len(frames)
        /\ DOMAIN sent = 1..Len(sent)
    BY <2>1
  <2>3. \A n : n \in waiting <=> n \in Nat /\ Taken < n /\ n <= issued
    <3>1. \A i \in 1..Len(commands) : commands[i] = Taken + i
      BY DEF TransportInv
    <3>2. ASSUME NEW n \in waiting PROVE n \in Nat /\ Taken < n /\ n <= issued
      <4>1. PICK i \in 1..Len(commands) : n = commands[i]
        BY <2>2, <3>2
      <4> QED  BY <2>1, <3>1, <4>1
    <3>3. ASSUME NEW n \in Nat, Taken < n, n <= issued PROVE n \in waiting
      <4>1. n - Taken \in 1..Len(commands) /\ Taken + (n - Taken) = n
        BY <2>1, <3>3
      <4>2. commands[n - Taken] = n
        BY <3>1, <4>1
      <4> QED  BY <2>2, <4>1, <4>2
    <3> QED  BY <3>2, <3>3
  <2>4. \A i \in 1..Len(frames) : frames[i].command \in Nat
    <3>1. \A i \in 1..Len(frames) : frames[i] \in Frame
      BY <2>1
    <3> QED  BY <3>1 DEF Frame
  <2>5. queued \subseteq 1..Taken
    BY <2>1, <2>2, <2>4 DEF TransportInv, NoCommand
  <2>6. left \subseteq 1..Taken
    BY <2>2 DEF TransportInv
  <2>7. ASSUME NEW c \in 1..Taken PROVE c \in queued \/ c \in left \/ c \in givenUp
    <3>1. c # NoCommand
      BY <2>1 DEF NoCommand
    <3> QED  BY <2>2, <3>1 DEF TransportInv
  <2>8. 1..issued = waiting \cup queued \cup left \cup givenUp
    <3> HIDE DEF waiting, queued, left
    <3>1. ASSUME NEW n \in 1..issued PROVE n \in waiting \cup queued \cup left \cup givenUp
      <4>1. n \in 1..Taken \/ (n \in Nat /\ Taken < n /\ n <= issued)
        BY <2>1
      <4> QED  BY <2>3, <2>7, <4>1
    <3>2. 1..Taken \subseteq 1..issued /\ waiting \subseteq 1..issued
      BY <2>1, <2>3
    <3> QED  BY <2>1, <2>5, <2>6, <3>1, <3>2
  <2>9. \A c \in left \cup givenUp, q \in queued : c < q
    BY <2>2 DEF TransportInv, NoCommand
  <2>10. \A i \in 1..(Len(sent) - 1) : sent[i] < sent[i + 1]
    BY DEF TransportInv
  <2>11. \A c \in left \cup givenUp \cup queued, w \in waiting : c < w
    <3> HIDE DEF waiting, queued, left
    <3> SUFFICES ASSUME NEW c \in left \cup givenUp \cup queued, NEW w \in waiting PROVE c < w
      OBVIOUS
    <3>1. c \in 1..Taken /\ w \in Nat /\ Taken < w
      BY <2>1, <2>3, <2>5, <2>6
    <3> QED  BY <2>1, <3>1
  <2>12. left \cap givenUp = {}
    BY <2>2 DEF TransportInv
  <2> QED  BY <2>8, <2>9, <2>10, <2>11, <2>12 DEF TransportAccounted
<1> QED  BY <1>1, TransportInvariant, PTL

-----------------------------------------------------------------------------
(* MidiClock: the pulses *)

\* A product grows with its first factor.
LEMMA TimesMonotone ==
  ASSUME NEW m \in Nat, NEW n \in Nat, NEW k \in Nat, m <= n
  PROVE  m * k <= n * k
  OBVIOUS

\* And the other way round.
LEMMA TimesReflects ==
  ASSUME NEW m \in Nat, NEW n \in Nat, NEW k \in Nat, m * k < n * k
  PROVE  m < n
  OBVIOUS

\* The rounded quotient is the first multiple that is not too small.
LEMMA CeilDivBounds ==
  ASSUME NEW a \in Nat, NEW b \in Nat \ {0}
  PROVE  /\ CeilDiv(a, b) \in Nat
         /\ a <= CeilDiv(a, b) * b
         /\ CeilDiv(a, b) * b < a + b
<1> DEFINE q == (a + b - 1) \div b
           r == (a + b - 1) % b
<1>1. q \in Nat /\ r \in 0..(b - 1) /\ a + b - 1 = b * q + r
  OBVIOUS
<1> QED  BY <1>1 DEF CeilDiv

\* The sample of the server at which frame f begins, times the tempo: the unit
\* in which the code compares it with pulse numbers times PulseSamples.
FrameStart(f, bpm) == f * FrameLength * bpm

\* It grows with the frame, by one frame's worth at a time.
LEMMA FrameStartGrows ==
  ASSUME NEW f \in Nat, NEW bpm \in Nat
  PROVE  /\ FrameStart(f, bpm) \in Nat
         /\ FrameStart(f + 1, bpm) = FrameStart(f, bpm) + FrameLength * bpm
         /\ \A g \in Nat : f <= g => FrameStart(f, bpm) <= FrameStart(g, bpm)
<1> USE MidiAssumption DEF FrameStart
<1>1. f * FrameLength \in Nat /\ FrameLength * bpm \in Nat
  OBVIOUS
<1>2. FrameStart(f, bpm) \in Nat
  BY <1>1
<1>3. FrameStart(f + 1, bpm) = FrameStart(f, bpm) + FrameLength * bpm
  OBVIOUS
<1>4. ASSUME NEW g \in Nat, f <= g
      PROVE  FrameStart(f, bpm) <= FrameStart(g, bpm)
  <2>1. f * FrameLength <= g * FrameLength
    BY <1>4, TimesMonotone
  <2>2. g * FrameLength \in Nat
    OBVIOUS
  <2> QED  BY <1>1, <2>1, <2>2, TimesMonotone
<1> QED  BY <1>2, <1>3, <1>4

\* The number of the first pulse that is due in frame f or later.
FirstPulse(f, bpm) == CeilDiv(FrameStart(f, bpm), PulseSamples)

\* A pulse is before FirstPulse exactly if it is due before the frame.
LEMMA FirstPulseSplits ==
  ASSUME NEW f \in Nat, NEW bpm \in Nat
  PROVE  /\ FirstPulse(f, bpm) \in Nat
         /\ \A p \in Nat : p >= FirstPulse(f, bpm) <=> p * PulseSamples >= FrameStart(f, bpm)
<1> DEFINE q == FirstPulse(f, bpm)
           a == FrameStart(f, bpm)
<1>1. PulseSamples \in Nat \ {0} /\ a \in Nat
  BY MidiAssumption, FrameStartGrows
<1>2. q \in Nat /\ a <= q * PulseSamples /\ q * PulseSamples < a + PulseSamples
  BY <1>1, CeilDivBounds DEF FirstPulse
<1> HIDE DEF q, a
<1>3. ASSUME NEW p \in Nat, p >= q PROVE p * PulseSamples >= a
  BY <1>1, <1>2, <1>3
<1>4. ASSUME NEW p \in Nat, p < q PROVE p * PulseSamples < a
  BY <1>1, <1>2, <1>4
<1> QED  BY <1>2, <1>3, <1>4, <1>1 DEF q, a

\* scheduleMidiFrame yields the pulses from the first of this frame up to the
\* first of the next: maximumPulsesPerFrame cuts nothing off.
LEMMA PulsesAre ==
  ASSUME NEW f \in Nat, NEW bpm \in ClockTempos, bpm # 0
  PROVE  /\ FirstPulse(f, bpm) <= FirstPulse(f + 1, bpm)
         /\ Pulses(f, bpm) = [i \in 1..(FirstPulse(f + 1, bpm) - FirstPulse(f, bpm)) |->
                                FirstPulse(f, bpm) + i - 1]
<1> DEFINE first == FirstPulse(f, bpm)
           next  == FirstPulse(f + 1, bpm)
           due   == {p \in first..(first + MaximumPulses - 1) :
                       p * PulseSamples < (f + 1) * FrameLength * bpm}
<1>1. /\ bpm \in Nat /\ FrameLength * bpm <= PulseSamples * MaximumPulses
      /\ PulseSamples \in Nat \ {0} /\ MaximumPulses \in Nat /\ FrameLength \in Nat
  BY MidiAssumption
<1>2. f + 1 \in Nat
  OBVIOUS
<1>3. /\ FrameStart(f, bpm) \in Nat /\ FrameStart(f + 1, bpm) \in Nat
      /\ FrameStart(f + 1, bpm) = FrameStart(f, bpm) + FrameLength * bpm
  BY <1>1, <1>2, FrameStartGrows
<1>4. first \in Nat /\ next \in Nat
  BY <1>1, <1>2, FirstPulseSplits
<1>5. /\ \A p \in Nat : p >= first <=> p * PulseSamples >= FrameStart(f, bpm)
      /\ \A p \in Nat : p >= next <=> p * PulseSamples >= FrameStart(f + 1, bpm)
  BY <1>1, <1>2, FirstPulseSplits
<1> HIDE DEF first, next, due
<1>6. first <= next
  <2>1. FrameStart(f, bpm) <= FrameStart(f + 1, bpm)
    BY <1>1, <1>2, FrameStartGrows
  <2>2. next * PulseSamples >= FrameStart(f + 1, bpm) /\ next * PulseSamples \in Nat
    BY <1>1, <1>4, <1>5
  <2>3. next * PulseSamples >= FrameStart(f, bpm)
    BY <1>3, <2>1, <2>2
  <2> QED  BY <1>4, <1>5, <2>3
<1>7. \A p \in Nat : p < next => p < first + MaximumPulses
  <2> SUFFICES ASSUME NEW p \in Nat, p < next PROVE p < first + MaximumPulses
    OBVIOUS
  <2>1. p * PulseSamples < FrameStart(f, bpm) + PulseSamples * MaximumPulses
    BY <1>1, <1>3, <1>4, <1>5
  <2>2. FrameStart(f, bpm) <= first * PulseSamples
    BY <1>1, <1>3, <1>4, <1>5
  <2>3. p * PulseSamples < (first + MaximumPulses) * PulseSamples
    BY <1>1, <1>3, <1>4, <2>1, <2>2
  <2> QED  BY <1>1, <1>4, <2>3, TimesReflects
<1>8. due = first..(next - 1)
  <2>1. \A p \in Nat : p * PulseSamples < (f + 1) * FrameLength * bpm <=> p < next
    BY <1>1, <1>3, <1>4, <1>5 DEF FrameStart
  <2>2. \A p : p \in due <=> p \in Nat /\ first <= p /\ p < next
    BY <1>1, <1>4, <1>7, <2>1 DEF due
  <2>3. \A p : p \in first..(next - 1) <=> p \in Nat /\ first <= p /\ p < next
    BY <1>4
  <2> QED  BY <2>2, <2>3
<1>9. Cardinality(due) = next - first
  <2>1. Cardinality(first..(next - 1)) = IF first > next - 1 THEN 0 ELSE (next - 1) - first + 1
    BY <1>4, FS_Interval
  <2> QED  BY <1>4, <1>6, <1>8, <2>1
<1>10. Pulses(f, bpm) = [i \in 1..Cardinality(due) |-> first + i - 1]
  BY DEF Pulses, FirstPulse, FrameStart, first, due
<1> QED  BY <1>6, <1>9, <1>10 DEF first, next

\* The pulses of a frame are those due in it, in order.
LEMMA PulsesAreDue ==
  ASSUME NEW f \in Nat, NEW bpm \in ClockTempos
  PROVE  /\ Pulses(f, bpm) \in Seq(Nat)
         /\ \A i \in 1..(Len(Pulses(f, bpm)) - 1) : Pulses(f, bpm)[i] < Pulses(f, bpm)[i + 1]
         /\ \A p \in Nat :
              (\E i \in 1..Len(Pulses(f, bpm)) : Pulses(f, bpm)[i] = p)
                <=> /\ bpm # 0
                    /\ FrameStart(f, bpm) <= p * PulseSamples
                    /\ p * PulseSamples < FrameStart(f + 1, bpm)
<1>1. CASE bpm = 0
  BY <1>1 DEF Pulses
<1>2. CASE bpm # 0
  <2> DEFINE first == FirstPulse(f, bpm)
             next  == FirstPulse(f + 1, bpm)
             s     == Pulses(f, bpm)
  <2>1. bpm \in Nat /\ f + 1 \in Nat /\ PulseSamples \in Nat
    BY MidiAssumption
  <2>2. FrameStart(f, bpm) \in Nat /\ FrameStart(f + 1, bpm) \in Nat
    BY <2>1, FrameStartGrows
  <2>3. first \in Nat /\ next \in Nat
    BY <2>1, FirstPulseSplits
  <2>4. /\ \A p \in Nat : p >= first <=> p * PulseSamples >= FrameStart(f, bpm)
        /\ \A p \in Nat : p >= next <=> p * PulseSamples >= FrameStart(f + 1, bpm)
    BY <2>1, FirstPulseSplits
  <2>5. first <= next /\ s = [i \in 1..(next - first) |-> first + i - 1]
    BY <1>2, PulsesAre
  <2> HIDE DEF first, next, s
  <2>6. s \in Seq(Nat) /\ Len(s) = next - first
    BY <2>3, <2>5
  <2>7. \A i \in 1..(Len(s) - 1) : s[i] < s[i + 1]
    BY <2>3, <2>5, <2>6
  <2>8. \A p \in Nat : (\E i \in 1..Len(s) : s[i] = p) <=> first <= p /\ p < next
    <3>1. ASSUME NEW p \in Nat, first <= p, p < next PROVE \E i \in 1..Len(s) : s[i] = p
      <4>1. p - first + 1 \in 1..Len(s) /\ s[p - first + 1] = p
        BY <2>3, <2>5, <2>6, <3>1
      <4> QED  BY <4>1
    <3>2. \A i \in 1..Len(s) : first <= s[i] /\ s[i] < next
      BY <2>3, <2>5, <2>6
    <3> QED  BY <3>1, <3>2
  <2>9. \A p \in Nat : first <= p /\ p < next
          <=> FrameStart(f, bpm) <= p * PulseSamples /\ p * PulseSamples < FrameStart(f + 1, bpm)
    BY <2>1, <2>2, <2>3, <2>4
  <2> QED  BY <1>2, <2>6, <2>7, <2>8, <2>9 DEF s
<1> QED  BY <1>1, <1>2

\* The pulses handed over so far are those due in the frames played so far, all
\* of which lie before the next frame.
PulseInv ==
  /\ tempo \in ClockTempos /\ frame \in 0..MaxFrames
  /\ \A f \in played : f \in Nat /\ f < frame
  /\ ticks \in Seq(Nat)
  /\ \A p \in Nat :
       (\E i \in 1..Len(ticks) : ticks[i] = p)
         <=> /\ tempo # 0
             /\ \E f \in played : /\ FrameStart(f, tempo) <= p * PulseSamples
                                  /\ p * PulseSamples < FrameStart(f + 1, tempo)
  /\ \A i \in 1..(Len(ticks) - 1) : ticks[i] < ticks[i + 1]

\* A frame that is played, with a gap before it or without, keeps it so: its
\* pulses come after all the earlier ones.
LEMMA UseSenderPulses ==
  ASSUME PulseInv, UseSender
  PROVE  PulseInv'
<1>1. PICK f \in frame..(MaxFrames - 1) :
        /\ frame' = f + 1
        /\ \/ UNCHANGED <<ticks, played>>
           \/ ticks' = ticks \o Pulses(f, tempo) /\ played' = played \cup {f}
  BY DEF UseSender
<1>2. UNCHANGED tempo
  BY DEF UseSender
<1>3. /\ f \in Nat /\ f + 1 \in 0..MaxFrames /\ tempo \in ClockTempos /\ tempo \in Nat
      /\ frame \in Nat /\ frame <= f /\ frame < f + 1
  BY MidiAssumption DEF PulseInv
<1>4. frame' \in 0..MaxFrames /\ \A g \in played' : g \in Nat /\ g < frame'
  BY <1>1, <1>3 DEF PulseInv
<1>5. CASE UNCHANGED <<ticks, played>>
  BY <1>2, <1>4, <1>5 DEF PulseInv
<1>6. CASE ticks' = ticks \o Pulses(f, tempo) /\ played' = played \cup {f}
  <2> DEFINE s == Pulses(f, tempo)
             Due(g, p) == /\ FrameStart(g, tempo) <= p * PulseSamples
                          /\ p * PulseSamples < FrameStart(g + 1, tempo)
  <2>1. /\ s \in Seq(Nat)
        /\ \A i \in 1..(Len(s) - 1) : s[i] < s[i + 1]
        /\ \A p \in Nat : (\E i \in 1..Len(s) : s[i] = p) <=> tempo # 0 /\ Due(f, p)
    BY <1>3, PulsesAreDue
  <2>2. /\ ticks \in Seq(Nat)
        /\ \A i \in 1..(Len(ticks) - 1) : ticks[i] < ticks[i + 1]
        /\ \A p \in Nat : (\E i \in 1..Len(ticks) : ticks[i] = p)
                             <=> tempo # 0 /\ \E g \in played : Due(g, p)
        /\ \A g \in played : g \in Nat /\ g < frame
    BY DEF PulseInv
  <2>3. \A i \in 1..Len(ticks), j \in 1..Len(s) : ticks[i] < s[j]
    <3> SUFFICES ASSUME NEW i \in 1..Len(ticks), NEW j \in 1..Len(s) PROVE ticks[i] < s[j]
      OBVIOUS
    <3>1. ticks[i] \in Nat /\ s[j] \in Nat /\ PulseSamples \in Nat
      BY <2>1, <2>2, MidiAssumption
    <3>2. Due(f, s[j])
      BY <2>1, <3>1
    <3>3. PICK g \in played : Due(g, ticks[i])
      BY <2>2, <3>1
    <3>4. g + 1 \in Nat /\ g + 1 <= f
      BY <1>3, <2>2
    <3>5. /\ FrameStart(g + 1, tempo) <= FrameStart(f, tempo)
          /\ FrameStart(g + 1, tempo) \in Nat /\ FrameStart(f, tempo) \in Nat
      BY <1>3, <3>4, FrameStartGrows
    <3>6. ticks[i] * PulseSamples \in Nat /\ s[j] * PulseSamples \in Nat
      BY <3>1
    <3>7. ticks[i] * PulseSamples < s[j] * PulseSamples
      BY <3>2, <3>3, <3>5, <3>6
    <3> QED  BY <3>1, <3>7, TimesReflects
  <2> HIDE DEF s, Due
  <2>4. /\ ticks' \in Seq(Nat) /\ Len(ticks') = Len(ticks) + Len(s)
        /\ \A i \in 1..Len(ticks) : ticks'[i] = ticks[i]
        /\ \A i \in 1..Len(s) : ticks'[Len(ticks) + i] = s[i]
        /\ Len(ticks) \in Nat /\ Len(s) \in Nat
    BY <1>6, <2>1, <2>2 DEF s
  <2>5. \A i \in 1..(Len(ticks') - 1) : ticks'[i] < ticks'[i + 1]
    <3> SUFFICES ASSUME NEW i \in 1..(Len(ticks') - 1) PROVE ticks'[i] < ticks'[i + 1]
      OBVIOUS
    <3>1. CASE i < Len(ticks)
      <4>1. i \in 1..(Len(ticks) - 1) /\ i \in 1..Len(ticks) /\ i + 1 \in 1..Len(ticks)
        BY <2>4, <3>1
      <4> QED  BY <2>2, <2>4, <4>1
    <3>2. CASE i = Len(ticks)
      <4>1. i \in 1..Len(ticks) /\ 1 \in 1..Len(s) /\ i + 1 = Len(ticks) + 1
        BY <2>4, <3>2
      <4> QED  BY <2>3, <2>4, <4>1
    <3>3. CASE i > Len(ticks)
      <4>1. PICK k \in 1..(Len(s) - 1) : i = Len(ticks) + k
        <5>1. i - Len(ticks) \in 1..(Len(s) - 1) /\ i = Len(ticks) + (i - Len(ticks))
          BY <2>4, <3>3
        <5> QED  BY <5>1
      <4>2. k \in 1..Len(s) /\ k + 1 \in 1..Len(s) /\ i + 1 = Len(ticks) + (k + 1)
        BY <2>4, <4>1
      <4>3. ticks'[i] = s[k] /\ ticks'[i + 1] = s[k + 1]
        BY <2>4, <4>1, <4>2
      <4> QED  BY <2>1, <4>3
    <3> QED  BY <2>4, <3>1, <3>2, <3>3
  <2>6. ASSUME NEW p \in Nat
        PROVE  (\E i \in 1..Len(ticks') : ticks'[i] = p)
                  <=> (\E i \in 1..Len(ticks) : ticks[i] = p) \/ (\E i \in 1..Len(s) : s[i] = p)
    <3>1. ASSUME NEW i \in 1..Len(ticks'), ticks'[i] = p
          PROVE  (\E k \in 1..Len(ticks) : ticks[k] = p) \/ (\E k \in 1..Len(s) : s[k] = p)
      <4>1. CASE i <= Len(ticks)
        BY <2>4, <3>1, <4>1
      <4>2. CASE i > Len(ticks)
        <5>1. i - Len(ticks) \in 1..Len(s) /\ i = Len(ticks) + (i - Len(ticks))
          BY <2>4, <4>2
        <5> QED  BY <2>4, <3>1, <5>1
      <4> QED  BY <2>4, <4>1, <4>2
    <3>2. ASSUME NEW i \in 1..Len(ticks) PROVE i \in 1..Len(ticks') /\ ticks'[i] = ticks[i]
      BY <2>4
    <3>3. ASSUME NEW i \in 1..Len(s)
          PROVE  Len(ticks) + i \in 1..Len(ticks') /\ ticks'[Len(ticks) + i] = s[i]
      BY <2>4
    <3> QED  BY <3>1, <3>2, <3>3
  <2>7. \A p \in Nat : (\E i \in 1..Len(ticks') : ticks'[i] = p)
                          <=> tempo # 0 /\ \E g \in played' : Due(g, p)
    BY <1>6, <2>1, <2>2, <2>6
  <2> QED  BY <1>2, <1>3, <1>4, <2>4, <2>5, <2>7 DEF PulseInv, Due
<1> QED  BY <1>1, <1>5, <1>6

\* The invariant of the pulses, for every tempo, frame length and number of frames.
THEOREM PulsesInvariant == MidiSpec => []PulseInv
<1>1. MidiInit => PulseInv
  BY MidiAssumption DEF MidiInit, PulseInv
<1>2. PulseInv /\ [MidiNext]_midiClockVars => PulseInv'
  <2> SUFFICES ASSUME PulseInv, [MidiNext]_midiClockVars PROVE PulseInv'
    OBVIOUS
  <2>1. CASE UseSender
    BY <2>1, UseSenderPulses
  <2>2. CASE UNCHANGED clockVars
    BY <2>2 DEF clockVars, PulseInv
  <2>3. UseSender \/ UNCHANGED clockVars
    BY DEF MidiNext, ScheduleGoesOn, LoadSender, ProtectSender, ValidateSender, RestartClock,
           ShutdownClock, RetirementGoesOn, PublishSender, DisableOutput, DestroySender, SendItem,
           midiClockVars
  <2> QED  BY <2>1, <2>2, <2>3
<1> QED  BY <1>1, <1>2, PTL DEF MidiSpec

\* However the frames that are played are chosen, no pulse due in one of them is
\* lost, doubled or out of order.
THEOREM PulsesExact == MidiSpec => []EveryPulseOnce
<1>1. PulseInv => EveryPulseOnce
  <2> SUFFICES ASSUME PulseInv PROVE EveryPulseOnce
    OBVIOUS
  <2> DEFINE due == {p \in 0..(MaxFrames * MaximumPulses) :
                       \E f \in played : /\ f * FrameLength * tempo <= p * PulseSamples
                                         /\ p * PulseSamples < (f + 1) * FrameLength * tempo}
             handed == {ticks[i] : i \in 1..Len(ticks)}
  <2>1. \A p \in handed : p \in Nat /\ \E i \in 1..Len(ticks) : ticks[i] = p
    BY DEF PulseInv
  <2>2. CASE tempo = 0
    <3>1. handed = {}
      BY <2>1, <2>2 DEF PulseInv
    <3> QED  BY <2>2, <3>1 DEF PulseInv, EveryPulseOnce
  <2>3. CASE tempo # 0
    <3>1. ASSUME NEW f \in played, NEW p \in Nat, p * PulseSamples < FrameStart(f + 1, tempo)
          PROVE  p \in 0..(MaxFrames * MaximumPulses)
      <4>1. /\ f + 1 \in Nat /\ f + 1 <= MaxFrames /\ tempo \in Nat /\ MaxFrames \in Nat
            /\ FrameLength * tempo <= PulseSamples * MaximumPulses
            /\ FrameLength \in Nat /\ PulseSamples \in Nat /\ MaximumPulses \in Nat
        BY MidiAssumption DEF PulseInv
      <4>2. FrameStart(f + 1, tempo) <= FrameStart(MaxFrames, tempo)
            /\ FrameStart(f + 1, tempo) \in Nat /\ FrameStart(MaxFrames, tempo) \in Nat
        BY <4>1, FrameStartGrows
      <4>3. (FrameLength * tempo) * MaxFrames <= (PulseSamples * MaximumPulses) * MaxFrames
        BY <4>1
      <4>4. FrameStart(MaxFrames, tempo) <= (MaxFrames * MaximumPulses) * PulseSamples
        BY <4>1, <4>3 DEF FrameStart
      <4>5. p * PulseSamples < (MaxFrames * MaximumPulses) * PulseSamples
        BY <3>1, <4>1, <4>2, <4>4
      <4>6. MaxFrames * MaximumPulses \in Nat
        BY <4>1
      <4>7. p < MaxFrames * MaximumPulses
        BY <4>1, <4>5, <4>6, TimesReflects
      <4> QED  BY <4>6, <4>7
    <3>2. \A p : p \in due <=> /\ p \in Nat
                               /\ \E f \in played : /\ FrameStart(f, tempo) <= p * PulseSamples
                                                    /\ p * PulseSamples < FrameStart(f + 1, tempo)
      <4>1. \A p : p \in due => p \in Nat
        OBVIOUS
      <4> QED  BY <3>1, <4>1 DEF FrameStart
    <3>3. handed = due
      BY <2>1, <2>3, <3>2 DEF PulseInv
    <3> QED  BY <2>3, <3>3 DEF PulseInv, EveryPulseOnce
  <2> QED  BY <2>2, <2>3
<1> QED  BY <1>1, PulsesInvariant, PTL

-----------------------------------------------------------------------------
(* Counting in sequences *)

\* How often x occurs in s.
Occurrences(s, x) == {i \in 1..Len(s) : s[i] = x}
Count(s, x) == Cardinality(Occurrences(s, x))

\* A count is a natural number.
LEMMA CountType ==
  ASSUME NEW S, NEW s \in Seq(S), NEW x
  PROVE  IsFiniteSet(Occurrences(s, x)) /\ Count(s, x) \in Nat
<1>1. Len(s) \in Nat
  OBVIOUS
<1>2. IsFiniteSet(1..Len(s))
  BY <1>1, FS_Interval
<1>3. Occurrences(s, x) \in SUBSET (1..Len(s))
  BY DEF Occurrences
<1>4. IsFiniteSet(Occurrences(s, x))
  BY <1>2, <1>3, FS_Subset
<1> QED  BY <1>4, FS_CardinalityType DEF Count

\* Appending x counts once, appending something else does not.
LEMMA CountAppend ==
  ASSUME NEW S, NEW s \in Seq(S), NEW y \in S, NEW x
  PROVE  Count(Append(s, y), x) = IF y = x THEN Count(s, x) + 1 ELSE Count(s, x)
<1> DEFINE n == Len(s) + 1
           u == Append(s, y)
<1>1. /\ Len(s) \in Nat /\ Len(u) = n /\ u[n] = y
      /\ \A i \in 1..Len(s) : u[i] = s[i]
  OBVIOUS
<1>2. \A i : i \in 1..n <=> i \in 1..Len(s) \/ i = n
  BY <1>1
<1> HIDE DEF u, n
<1>3. CASE y = x
  <2>1. Occurrences(u, x) = Occurrences(s, x) \cup {n}
    BY <1>1, <1>2, <1>3 DEF Occurrences
  <2>2. n \notin Occurrences(s, x)
    BY <1>1 DEF Occurrences, n
  <2> QED  BY <1>3, <2>1, <2>2, CountType, FS_AddElement DEF Count, u
<1>4. CASE y # x
  <2>1. Occurrences(u, x) = Occurrences(s, x)
    BY <1>1, <1>2, <1>4 DEF Occurrences
  <2> QED  BY <1>4, <2>1 DEF Count, u
<1> QED  BY <1>3, <1>4

\* Taking the head off counts down exactly if it is x.
LEMMA CountTail ==
  ASSUME NEW S, NEW s \in Seq(S), s # <<>>, NEW x
  PROVE  Count(Tail(s), x) = IF Head(s) = x THEN Count(s, x) - 1 ELSE Count(s, x)
<1> DEFINE u == Tail(s)
           A == Occurrences(s, x) \ {1}
           B == Occurrences(u, x)
<1>1. /\ Len(s) \in Nat \ {0} /\ u \in Seq(S) /\ Len(u) = Len(s) - 1 /\ Head(s) = s[1]
      /\ \A i \in 1..Len(u) : u[i] = s[i + 1]
  OBVIOUS
<1> HIDE DEF u
<1>2. \A i \in B : i \in Nat /\ i + 1 \in A
  BY <1>1 DEF Occurrences
<1>3. \A j \in A : j - 1 \in B /\ (j - 1) + 1 = j
  BY <1>1 DEF Occurrences
<1>4. ExistsBijection(B, A)
  <2> DEFINE f == [i \in B |-> i + 1]
  <2>1. f \in [B -> A]
    BY <1>2
  <2>2. \A i, j \in B : f[i] = f[j] => i = j
    BY <1>2
  <2>3. \A j \in A : \E i \in B : f[i] = j
    BY <1>3
  <2>4. f \in Bijection(B, A)
    BY <2>1, <2>2, <2>3 DEF Bijection, Injection, Surjection, IsInjective
  <2> QED  BY <2>4 DEF ExistsBijection
<1>5. IsFiniteSet(B) /\ IsFiniteSet(Occurrences(s, x))
  BY <1>1, CountType
<1>6. Cardinality(A) = Cardinality(B)
  BY <1>4, <1>5, FS_Bijection
<1>7. Cardinality(A) = IF 1 \in Occurrences(s, x) THEN Count(s, x) - 1 ELSE Count(s, x)
  BY <1>5, FS_RemoveElement DEF Count
<1>8. 1 \in Occurrences(s, x) <=> Head(s) = x
  BY <1>1 DEF Occurrences
<1> QED  BY <1>6, <1>7, <1>8 DEF Count, u

\* Nothing occurs in the empty sequence.
LEMMA CountEmpty ==
  ASSUME NEW x
  PROVE  Count(<<>>, x) = 0
<1>1. Occurrences(<<>>, x) = {}
  BY DEF Occurrences
<1> QED  BY <1>1, FS_EmptySet DEF Count

-----------------------------------------------------------------------------
(* Recording *)

Block == [target : Targets, generation : Recordings]

\* The types of what the proof is about.
RecordingData ==
  /\ recorder \in [Targets -> [writing : BOOLEAN, generation : Nat, started : 0..MaxRecordings]]
  /\ queue \in Seq(Block)
  /\ accepted \in [Targets -> [Recordings -> Int]]
  /\ file \in [Targets -> [Recordings -> Seq(Nat)]]

\* A recorder that writes has its newest generation, another one has none.
RecorderInv ==
  \A t \in Targets :
    IF recorder[t].writing
    THEN recorder[t].generation = recorder[t].started /\ recorder[t].started # 0
    ELSE recorder[t].generation = 0

\* Nothing is known of recordings that were not started yet.
FutureInv ==
  /\ \A i \in 1..Len(queue) : queue[i].generation <= recorder[queue[i].target].started
  /\ \A t \in Targets, g \in Recordings :
       g > recorder[t].started => file[t][g] = <<>> /\ accepted[t][g] = 0

\* A block that has passed the check may be outdated when it is saved, but then
\* nothing was saved to any newer file.
CheckedInv ==
  Busy => /\ queue # <<>>
          /\ \A g \in Recordings : g > queue[1].generation => file[queue[1].target][g] = <<>>

\* While a recording is on, all that was accepted for it is in its file or queued.
AcceptedInv ==
  \A t \in Targets :
    LET g == recorder[t].generation
    IN  g # 0 => Count(file[t][g], g) + Count(queue, [target |-> t, generation |-> g])
                   = accepted[t][g]

\* The callback is gone when the worker is asked to leave.
LeavingInv ==
  /\ recordingPc \in {"leaving", "savingLast", "exited"} => blocks = MaxBlocks
  /\ recordingPc = "exited" => queue = <<>>

RecordingInv ==
  /\ RecordingData /\ RecorderInv /\ FutureInv /\ CheckedInv /\ AcceptedInv /\ LeavingInv
  /\ FilesAreSeparate

\* What is known of a recorder and of the first block of the queue.
LEMMA RecorderFacts ==
  ASSUME RecordingInv, NEW t \in Targets
  PROVE  /\ recorder[t].started \in Nat /\ recorder[t].started <= MaxRecordings
         /\ recorder[t].generation = 0 \/ recorder[t].generation = recorder[t].started
         /\ recorder[t].generation # 0 => recorder[t].writing
         /\ recorder[t].writing => /\ recorder[t].started \in Recordings
                                   /\ recorder[t].generation = recorder[t].started
         /\ recorder[t].generation # 0 => recorder[t].generation \in Recordings
  BY RecordingAssumption DEF RecordingInv, RecordingData, RecorderInv, Recordings

\* A recording that starts is new: nothing has been given to it or written for it.
LEMMA StartRecordingInv ==
  ASSUME RecordingInv, NEW t \in Targets, StartRecording(t)
  PROVE  RecordingInv'
<1> DEFINE n == recorder[t].started + 1
<1>1. /\ ~recorder[t].writing /\ recorder[t].started < MaxRecordings
      /\ recorder' = [recorder EXCEPT ![t] = [writing |-> TRUE, generation |-> n, started |-> n]]
      /\ UNCHANGED <<queue, recordingPc, blocks, accepted, file>>
  BY DEF StartRecording, LaunchWriter
<1>2. /\ recorder[t].started \in Nat /\ n \in Recordings /\ n \in Nat /\ n # 0 /\ MaxRecordings \in Nat
      /\ recorder[t].started < n
  BY <1>1, RecorderFacts, RecordingAssumption DEF Recordings
<1> HIDE DEF n
<1>3. /\ recorder'[t] = [writing |-> TRUE, generation |-> n, started |-> n]
      /\ \A u \in Targets : u # t => recorder'[u] = recorder[u]
  BY <1>1 DEF RecordingInv, RecordingData
<1>4. RecordingData'
  BY <1>1, <1>2 DEF RecordingInv, RecordingData, Recordings
<1>5. RecorderInv'
  BY <1>2, <1>3 DEF RecordingInv, RecorderInv
<1>6. \A u \in Targets : recorder[u].started \in Nat /\ recorder[u].started <= recorder'[u].started
  BY <1>2, <1>3, RecorderFacts
<1>7. FutureInv'
  <2>1. \A i \in 1..Len(queue) : queue[i] \in Block
    BY DEF RecordingInv, RecordingData
  <2>2. \A i \in 1..Len(queue) : queue[i].generation <= recorder'[queue[i].target].started
    <3> SUFFICES ASSUME NEW i \in 1..Len(queue)
                 PROVE  queue[i].generation <= recorder'[queue[i].target].started
      OBVIOUS
    <3>1. queue[i].target \in Targets /\ queue[i].generation \in Nat
      BY <2>1 DEF Block, Recordings
    <3>2. queue[i].generation <= recorder[queue[i].target].started
      BY DEF RecordingInv, FutureInv
    <3>3. recorder'[queue[i].target].started \in Nat
      BY <1>2, <1>3, <1>6, <3>1
    <3> QED  BY <1>6, <3>1, <3>2, <3>3
  <2>3. ASSUME NEW u \in Targets, NEW g \in Recordings, g > recorder'[u].started
        PROVE  file[u][g] = <<>> /\ accepted[u][g] = 0
    <3>1. g > recorder[u].started
      BY <1>2, <1>3, <1>6, <2>3 DEF Recordings
    <3> QED  BY <3>1 DEF RecordingInv, FutureInv
  <2> QED  BY <1>1, <2>2, <2>3 DEF FutureInv
<1>8. CheckedInv' /\ LeavingInv' /\ FilesAreSeparate'
  BY <1>1 DEF RecordingInv, CheckedInv, LeavingInv, FilesAreSeparate, Busy
<1>9. AcceptedInv'
  <2> SUFFICES ASSUME NEW u \in Targets, recorder'[u].generation # 0
               PROVE  Count(file[u][recorder'[u].generation], recorder'[u].generation)
                        + Count(queue, [target |-> u, generation |-> recorder'[u].generation])
                        = accepted[u][recorder'[u].generation]
    BY <1>1 DEF AcceptedInv
  <2>1. CASE u # t
    BY <1>3, <2>1 DEF RecordingInv, AcceptedInv
  <2>2. CASE u = t
    <3>1. file[t][n] = <<>> /\ accepted[t][n] = 0
      BY <1>2 DEF RecordingInv, FutureInv
    <3>2. Count(file[t][n], n) = 0
      BY <3>1, CountEmpty
    <3>3. Occurrences(queue, [target |-> t, generation |-> n]) = {}
      <4> SUFFICES ASSUME NEW i \in 1..Len(queue), queue[i] = [target |-> t, generation |-> n]
                   PROVE  FALSE
        BY DEF Occurrences
      <4>1. n <= recorder[t].started
        BY DEF RecordingInv, FutureInv
      <4> QED  BY <1>2, <4>1
    <3>4. Count(queue, [target |-> t, generation |-> n]) = 0
      BY <3>3, FS_EmptySet DEF Count
    <3> QED  BY <1>3, <2>2, <3>1, <3>2, <3>4
  <2> QED  BY <2>1, <2>2
<1> QED  BY <1>4, <1>5, <1>7, <1>8, <1>9 DEF RecordingInv

\* A recorder that stops leaves its queued blocks behind; the worker will skip them.
LEMMA StopRecordingInv ==
  ASSUME RecordingInv, NEW t \in Targets, StopRecording(t)
  PROVE  RecordingInv'
<1>1. /\ recorder' = [recorder EXCEPT ![t] = [recorder[t] EXCEPT !.writing = FALSE, !.generation = 0]]
      /\ UNCHANGED <<queue, recordingPc, blocks, accepted, file>>
  BY DEF StopRecording, StoppedRecorder
<1>2. /\ recorder'[t].writing = FALSE /\ recorder'[t].generation = 0
      /\ recorder'[t].started = recorder[t].started
      /\ \A u \in Targets : u # t => recorder'[u] = recorder[u]
  BY <1>1 DEF RecordingInv, RecordingData
<1>3. RecordingData'
  BY <1>1 DEF RecordingInv, RecordingData
<1>4. RecorderInv'
  BY <1>2 DEF RecordingInv, RecorderInv
<1>5. \A u \in Targets : recorder'[u].started = recorder[u].started
  BY <1>2
<1>6. FutureInv'
  <2>1. \A i \in 1..Len(queue) : queue[i].target \in Targets
    <3>1. \A i \in 1..Len(queue) : queue[i] \in Block
      BY DEF RecordingInv, RecordingData
    <3> QED  BY <3>1 DEF Block
  <2> QED  BY <1>1, <1>5, <2>1 DEF RecordingInv, FutureInv
<1>7. CheckedInv' /\ LeavingInv' /\ FilesAreSeparate'
  BY <1>1 DEF RecordingInv, CheckedInv, LeavingInv, FilesAreSeparate, Busy
<1>8. AcceptedInv'
  BY <1>1, <1>2 DEF RecordingInv, AcceptedInv
<1> QED  BY <1>3, <1>4, <1>6, <1>7, <1>8 DEF RecordingInv

\* A block the audio callback queues is counted for the recording that is on.
LEMMA EnqueueInv ==
  ASSUME RecordingInv, NEW t \in Targets, Enqueue(t)
  PROVE  RecordingInv'
<1> DEFINE g == recorder[t].generation
           b == [target |-> t, generation |-> g]
<1>1. /\ UNCHANGED <<recorder, recordingPc, file>>
      /\ recordingPc \notin {"leaving", "savingLast", "exited"}
  <2>1. blocks # MaxBlocks
    BY RecordingAssumption DEF Enqueue
  <2> QED  BY <2>1 DEF Enqueue, RecordingInv, LeavingInv
<1>2. CASE UNCHANGED <<queue, accepted>>
  BY <1>1, <1>2 DEF RecordingInv, RecordingData, RecorderInv, FutureInv, CheckedInv, Busy,
                    AcceptedInv, LeavingInv, FilesAreSeparate
<1>3. CASE /\ g # 0 /\ queue' = Append(queue, b)
           /\ accepted' = [accepted EXCEPT ![t][g] = @ + 1]
  <2>1. /\ queue \in Seq(Block) /\ Len(queue) \in Nat /\ g \in Recordings /\ g = recorder[t].started
        /\ b \in Block
    BY <1>3, RecorderFacts DEF RecordingInv, RecordingData, Block
  <2>2. /\ queue' \in Seq(Block) /\ Len(queue') = Len(queue) + 1
        /\ \A i \in 1..Len(queue) : queue'[i] = queue[i]
        /\ queue'[Len(queue) + 1] = b
        /\ \A i \in 1..Len(queue') : i \in 1..Len(queue) \/ i = Len(queue) + 1
    BY <1>3, <2>1
  <2>3. /\ accepted' \in [Targets -> [Recordings -> Int]]
        /\ accepted'[t][g] = accepted[t][g] + 1
        /\ \A u \in Targets, h \in Recordings : u # t \/ h # g => accepted'[u][h] = accepted[u][h]
    BY <1>3, <2>1 DEF RecordingInv, RecordingData
  <2>4. RecordingData' /\ RecorderInv'
    BY <1>1, <2>2, <2>3 DEF RecordingInv, RecordingData, RecorderInv
  <2>5. FutureInv'
    <3>1. \A i \in 1..Len(queue') : queue'[i].generation <= recorder'[queue'[i].target].started
      <4> SUFFICES ASSUME NEW i \in 1..Len(queue')
                   PROVE  queue'[i].generation <= recorder[queue'[i].target].started
        BY <1>1
      <4>1. CASE i \in 1..Len(queue)
        BY <2>2, <4>1 DEF RecordingInv, FutureInv
      <4>2. CASE i = Len(queue) + 1
        BY <2>1, <2>2, <4>2, RecorderFacts
      <4> QED  BY <2>2, <4>1, <4>2
    <3>2. ASSUME NEW u \in Targets, NEW h \in Recordings, h > recorder[u].started
          PROVE  file[u][h] = <<>> /\ accepted'[u][h] = 0
      <4>1. u # t \/ h # g
        BY <2>1, <3>2, RecorderFacts DEF Recordings
      <4> QED  BY <2>3, <3>2, <4>1 DEF RecordingInv, FutureInv
    <3> QED  BY <1>1, <3>1, <3>2 DEF FutureInv
  <2>6. CheckedInv'
    <3>1. queue # <<>> => queue' # <<>> /\ queue'[1] = queue[1]
      BY <2>1, <2>2
    <3> QED  BY <1>1, <3>1 DEF RecordingInv, CheckedInv, Busy
  <2>7. AcceptedInv'
    <3> SUFFICES ASSUME NEW u \in Targets, recorder[u].generation # 0
                 PROVE  Count(file[u][recorder[u].generation], recorder[u].generation)
                          + Count(queue', [target |-> u, generation |-> recorder[u].generation])
                          = accepted'[u][recorder[u].generation]
      BY <1>1 DEF AcceptedInv
    <3> DEFINE h == recorder[u].generation
               x == [target |-> u, generation |-> h]
    <3>1. /\ h \in Recordings
          /\ Count(file[u][h], h) + Count(queue, x) = accepted[u][h]
      BY RecorderFacts DEF RecordingInv, AcceptedInv
    <3>2. Count(queue', x) = IF b = x THEN Count(queue, x) + 1 ELSE Count(queue, x)
      BY <1>3, <2>1, CountAppend
    <3>3. Count(queue, x) \in Nat /\ Count(file[u][h], h) \in Nat
      <4>1. file[u][h] \in Seq(Nat)
        BY <3>1 DEF RecordingInv, RecordingData
      <4> QED  BY <2>1, <4>1, CountType
    <3>4. CASE u = t
      BY <2>3, <3>1, <3>2, <3>3, <3>4
    <3>5. CASE u # t
      <4>1. b # x
        BY <3>5
      <4> QED  BY <2>3, <3>1, <3>2, <3>5, <4>1
    <3> QED  BY <3>4, <3>5
  <2>8. LeavingInv' /\ FilesAreSeparate'
    BY <1>1 DEF RecordingInv, LeavingInv, FilesAreSeparate
  <2> QED  BY <2>4, <2>5, <2>6, <2>7, <2>8 DEF RecordingInv
<1> QED  BY <1>2, <1>3 DEF Enqueue

\* What taking the first block off the queue leaves.
LEMMA QueueTail ==
  ASSUME RecordingInv, queue # <<>>, queue' = Tail(queue)
  PROVE  /\ queue \in Seq(Block) /\ Head(queue) = queue[1] /\ queue[1] \in Block
         /\ queue[1].target \in Targets /\ queue[1].generation \in Recordings
         /\ queue[1].generation <= recorder[queue[1].target].started
         /\ queue' \in Seq(Block)
         /\ \A i \in 1..Len(queue') : queue'[i].generation <= recorder[queue'[i].target].started
         /\ \A x : Count(queue', x) = IF queue[1] = x THEN Count(queue, x) - 1 ELSE Count(queue, x)
         /\ \A x : Count(queue, x) \in Nat
<1>1. queue \in Seq(Block) /\ Len(queue) \in Nat \ {0} /\ Head(queue) = queue[1]
  BY DEF RecordingInv, RecordingData
<1>2. /\ queue' \in Seq(Block) /\ Len(queue') = Len(queue) - 1
      /\ \A i \in 1..Len(queue') : queue'[i] = queue[i + 1]
  BY <1>1
<1>3. \A i \in 1..Len(queue') : i + 1 \in 1..Len(queue)
  BY <1>1, <1>2
<1>4. 1 \in 1..Len(queue) /\ queue[1] \in Block
  BY <1>1
<1>5. \A i \in 1..Len(queue) : queue[i].generation <= recorder[queue[i].target].started
  BY DEF RecordingInv, FutureInv
<1>6. \A i \in 1..Len(queue') : queue'[i].generation <= recorder[queue'[i].target].started
  BY <1>2, <1>3, <1>5
<1>7. \A x : Count(queue', x) = IF queue[1] = x THEN Count(queue, x) - 1 ELSE Count(queue, x)
  BY <1>1, CountTail
<1>8. \A x : Count(queue, x) \in Nat
  BY <1>1, CountType
<1> QED  BY <1>1, <1>2, <1>4, <1>5, <1>6, <1>7, <1>8 DEF Block

\* The worker looks at the oldest block without taking it.
LEMMA CheckBlockInv ==
  ASSUME RecordingInv, CheckBlock
  PROVE  RecordingInv'
<1>1. /\ recordingPc \in {"idle", "leaving"} /\ queue # <<>>
      /\ UNCHANGED <<recorder, blocks, refusals, accepted, file>>
  BY DEF CheckBlock
<1>2. queue[1] = Head(queue) /\ queue[1].target \in Targets /\ queue[1].generation \in Recordings
  <2>1. queue \in Seq(Block) /\ Len(queue) \in Nat \ {0}
    BY <1>1 DEF RecordingInv, RecordingData
  <2>2. queue[1] = Head(queue) /\ queue[1] \in Block
    BY <2>1
  <2> QED  BY <2>2 DEF Block
<1>3. CASE queue[1].generation = recorder[queue[1].target].generation
  <2>1. /\ UNCHANGED queue
        /\ recordingPc' = IF recordingPc = "idle" THEN "saving" ELSE "savingLast"
    BY <1>2, <1>3 DEF CheckBlock
  <2>2. recordingPc' \in {"saving", "savingLast"} /\ (recordingPc' = "savingLast" => recordingPc = "leaving")
    BY <1>1, <2>1
  <2>3. RecordingData' /\ RecorderInv' /\ FutureInv' /\ AcceptedInv' /\ FilesAreSeparate'
    BY <1>1, <2>1 DEF RecordingInv, RecordingData, RecorderInv, FutureInv, AcceptedInv,
                      FilesAreSeparate
  <2>4. queue[1].generation = recorder[queue[1].target].started
    BY <1>2, <1>3, RecorderFacts, RecordingAssumption DEF Recordings
  <2>5. CheckedInv'
    BY <1>1, <1>2, <2>1, <2>4 DEF RecordingInv, FutureInv, CheckedInv
  <2>6. LeavingInv'
    BY <1>1, <2>1, <2>2 DEF RecordingInv, LeavingInv
  <2> QED  BY <2>3, <2>5, <2>6 DEF RecordingInv
<1>4. CASE queue[1].generation # recorder[queue[1].target].generation
  <2>1. queue' = Tail(queue) /\ UNCHANGED recordingPc
    BY <1>2, <1>4 DEF CheckBlock
  <2>2. RecordingData' /\ RecorderInv' /\ FutureInv' /\ FilesAreSeparate'
    BY <1>1, <2>1, QueueTail DEF RecordingInv, RecordingData, RecorderInv, FutureInv,
                                 FilesAreSeparate
  <2>3. CheckedInv' /\ LeavingInv'
    BY <1>1, <2>1 DEF RecordingInv, CheckedInv, LeavingInv, Busy
  <2>4. AcceptedInv'
    <3> SUFFICES ASSUME NEW u \in Targets, recorder[u].generation # 0
                 PROVE  Count(file[u][recorder[u].generation], recorder[u].generation)
                          + Count(queue', [target |-> u, generation |-> recorder[u].generation])
                          = accepted[u][recorder[u].generation]
      BY <1>1 DEF AcceptedInv
    <3>1. queue[1] # [target |-> u, generation |-> recorder[u].generation]
      BY <1>4
    <3>2. Count(queue', [target |-> u, generation |-> recorder[u].generation])
            = Count(queue, [target |-> u, generation |-> recorder[u].generation])
      BY <1>1, <2>1, <3>1, QueueTail
    <3> QED  BY <3>2 DEF RecordingInv, AcceptedInv
  <2> QED  BY <2>2, <2>3, <2>4 DEF RecordingInv
<1> QED  BY <1>3, <1>4

\* The worker writes the block it holds to the file of its own recording, or drops
\* it if that recording is over.
LEMMA SaveBlockInv ==
  ASSUME RecordingInv, SaveBlock
  PROVE  RecordingInv'
<1> DEFINE t == queue[1].target
           g == queue[1].generation
           n == recorder[t].started
<1>1. /\ Busy /\ queue # <<>> /\ queue' = Tail(queue) /\ UNCHANGED <<recorder, blocks>>
      /\ recordingPc' = IF recordingPc = "saving" THEN "idle" ELSE "leaving"
  BY DEF SaveBlock, RecordingInv, CheckedInv
<1>2. /\ t \in Targets /\ g \in Recordings /\ g <= n /\ Head(queue) = queue[1]
      /\ queue[1] = [target |-> t, generation |-> g]
      /\ \A x : Count(queue', x) = IF queue[1] = x THEN Count(queue, x) - 1 ELSE Count(queue, x)
      /\ \A x : Count(queue, x) \in Nat
  BY <1>1, QueueTail DEF Block
<1>3. \A h \in Recordings : h > g => file[t][h] = <<>>
  BY <1>1 DEF RecordingInv, CheckedInv
<1>4. /\ queue' \in Seq(Block)
      /\ \A i \in 1..Len(queue') : queue'[i].generation <= recorder[queue'[i].target].started
  BY <1>1, QueueTail
<1>5. /\ n \in Nat /\ (recorder[t].writing => n \in Recordings /\ recorder[t].generation = n)
      /\ recorder[t].generation # 0 => recorder[t].writing
  BY <1>2, RecorderFacts
<1>6. \/ UNCHANGED <<file, accepted>> /\ ~recorder[t].writing
      \/ recorder[t].writing /\ UNCHANGED accepted /\ file' = [file EXCEPT ![t][n] = Append(@, g)]
      \/ recorder[t].writing /\ UNCHANGED file /\ accepted' = [accepted EXCEPT ![t][g] = @ - 1]
  BY <1>2 DEF SaveBlock
<1> HIDE DEF t, g, n
<1>7. CheckedInv' /\ LeavingInv' /\ RecorderInv'
  BY <1>1 DEF RecordingInv, CheckedInv, LeavingInv, RecorderInv, Busy
<1>8. file \in [Targets -> [Recordings -> Seq(Nat)]] /\ accepted \in [Targets -> [Recordings -> Int]]
  BY DEF RecordingInv, RecordingData
<1>9. ASSUME NEW u \in Targets, recorder[u].generation # 0
      PROVE  /\ recorder[u].generation \in Recordings
             /\ Count(file[u][recorder[u].generation], recorder[u].generation) \in Nat
             /\ Count(file[u][recorder[u].generation], recorder[u].generation)
                  + Count(queue, [target |-> u, generation |-> recorder[u].generation])
                  = accepted[u][recorder[u].generation]
  <2>1. recorder[u].generation \in Recordings
    BY <1>9, RecorderFacts
  <2>2. file[u][recorder[u].generation] \in Seq(Nat)
    BY <1>8, <2>1
  <2> QED  BY <1>9, <2>1, <2>2, CountType DEF RecordingInv, AcceptedInv
<1>10. (\A u \in Targets : recorder[u].generation # 0 =>
          Count(file'[u][recorder[u].generation], recorder[u].generation)
            + Count(queue', [target |-> u, generation |-> recorder[u].generation])
            = accepted'[u][recorder[u].generation]) => AcceptedInv'
  BY <1>1 DEF AcceptedInv
<1>11. CASE UNCHANGED <<file, accepted>> /\ ~recorder[t].writing
  <2>1. RecordingData' /\ FutureInv' /\ FilesAreSeparate'
    BY <1>1, <1>4, <1>11 DEF RecordingInv, RecordingData, FutureInv, FilesAreSeparate
  <2>2. ASSUME NEW u \in Targets, recorder[u].generation # 0
        PROVE  Count(file'[u][recorder[u].generation], recorder[u].generation)
                 + Count(queue', [target |-> u, generation |-> recorder[u].generation])
                 = accepted'[u][recorder[u].generation]
    <3>1. u # t
      BY <1>5, <1>11, <2>2
    <3>2. queue[1] # [target |-> u, generation |-> recorder[u].generation]
      BY <1>2, <3>1
    <3> QED  BY <1>2, <1>9, <1>11, <2>2, <3>2
  <2> QED  BY <1>7, <1>10, <2>1, <2>2 DEF RecordingInv
<1>12. CASE recorder[t].writing /\ UNCHANGED accepted /\ file' = [file EXCEPT ![t][n] = Append(@, g)]
  <2>1. n \in Recordings /\ g \in Nat /\ file[t][n] \in Seq(Nat)
    <3>1. n \in Recordings
      BY <1>5, <1>12
    <3>2. g \in Nat
      BY <1>2 DEF Recordings
    <3> QED  BY <1>2, <1>8, <3>1, <3>2
  <2>2. /\ file' \in [Targets -> [Recordings -> Seq(Nat)]]
        /\ file'[t][n] = Append(file[t][n], g)
        /\ \A u \in Targets, h \in Recordings : u # t \/ h # n => file'[u][h] = file[u][h]
    BY <1>2, <1>8, <1>12, <2>1
  <2>3. RecordingData'
    BY <1>1, <1>4, <1>12, <2>2 DEF RecordingInv, RecordingData
  <2>4. FutureInv'
    <3>1. ASSUME NEW u \in Targets, NEW h \in Recordings, h > recorder[u].started
          PROVE  file'[u][h] = <<>> /\ accepted[u][h] = 0
      <4>1. u # t \/ h # n
        BY <1>5, <3>1 DEF n
      <4> QED  BY <2>2, <3>1, <4>1 DEF RecordingInv, FutureInv
    <3> QED  BY <1>1, <1>4, <1>12, <3>1 DEF FutureInv
  <2>5. FilesAreSeparate'
    <3> SUFFICES ASSUME NEW u \in Targets, NEW h \in Recordings, NEW i \in 1..Len(file'[u][h])
                 PROVE  file'[u][h][i] = h \/ (i = 1 /\ file'[u][h][i] < h)
      BY DEF FilesAreSeparate
    <3>1. CASE u # t \/ h # n
      BY <2>2, <3>1 DEF RecordingInv, FilesAreSeparate
    <3>2. CASE u = t /\ h = n
      <4>1. /\ Len(file[t][n]) \in Nat /\ Len(file'[t][n]) = Len(file[t][n]) + 1
            /\ file'[t][n][Len(file[t][n]) + 1] = g
            /\ \A j \in 1..Len(file[t][n]) : file'[t][n][j] = file[t][n][j]
        BY <2>1, <2>2
      <4>2. CASE i \in 1..Len(file[t][n])
        BY <1>2, <2>1, <3>2, <4>1, <4>2 DEF RecordingInv, FilesAreSeparate
      <4>3. CASE i = Len(file[t][n]) + 1 /\ g = n
        BY <3>2, <4>1, <4>3
      <4>4. CASE i = Len(file[t][n]) + 1 /\ g # n
        <5>1. g < n
          BY <1>2, <2>1, <4>4 DEF Recordings
        <5>2. n > g
          BY <1>5, <2>1, <5>1
        <5>3. file[t][n] = <<>>
          BY <1>3, <2>1, <5>2
        <5>4. Len(file[t][n]) = 0
          BY <5>3
        <5>5. i = 1
          BY <4>4, <5>4
        <5>6. file'[t][n][i] = g
          BY <4>1, <4>4
        <5>7. file'[u][h][i] = g /\ g < h
          BY <3>2, <5>1, <5>6, Zenon
        <5> QED  BY <5>5, <5>7
      <4>5. i \in 1..Len(file[t][n]) \/ i = Len(file[t][n]) + 1
        <5> DEFINE l == Len(file[t][n])
        <5>1. l \in Nat /\ i \in 1..(l + 1)
          BY <3>2, <4>1
        <5> HIDE DEF l
        <5>2. i \in 1..l \/ i = l + 1
          BY <5>1
        <5> QED  BY <5>2 DEF l
      <4> QED  BY <4>2, <4>3, <4>4, <4>5, Zenon
    <3> QED  BY <3>1, <3>2
  <2>6. ASSUME NEW u \in Targets, recorder[u].generation # 0
        PROVE  Count(file'[u][recorder[u].generation], recorder[u].generation)
                 + Count(queue', [target |-> u, generation |-> recorder[u].generation])
                 = accepted'[u][recorder[u].generation]
    <3>1. CASE u # t
      <4>1. queue[1] # [target |-> u, generation |-> recorder[u].generation]
        BY <1>2, <3>1
      <4> QED  BY <1>2, <1>9, <1>12, <2>2, <2>6, <3>1, <4>1
    <3>2. CASE u = t
      <4> DEFINE x == [target |-> t, generation |-> n]
      <4>1. recorder[u].generation = n
        BY <1>5, <1>12, <3>2
      <4>2. Count(file'[t][n], n) = IF g = n THEN Count(file[t][n], n) + 1 ELSE Count(file[t][n], n)
        BY <2>1, <2>2, CountAppend
      <4>3. Count(queue', x) = IF g = n THEN Count(queue, x) - 1 ELSE Count(queue, x)
        BY <1>2
      <4>4. /\ Count(file[t][n], n) \in Nat /\ Count(queue, x) \in Nat
            /\ Count(file[t][n], n) + Count(queue, x) = accepted[t][n]
        BY <1>2, <1>9, <2>6, <3>2, <4>1
      <4> HIDE DEF x
      <4>5. Count(file'[t][n], n) + Count(queue', x) = accepted[t][n]
        BY <4>2, <4>3, <4>4
      <4> QED  BY <1>12, <3>2, <4>1, <4>5 DEF x
    <3> QED  BY <3>1, <3>2
  <2> QED  BY <1>7, <1>10, <2>3, <2>4, <2>5, <2>6 DEF RecordingInv
<1>13. CASE recorder[t].writing /\ UNCHANGED file /\ accepted' = [accepted EXCEPT ![t][g] = @ - 1]
  <2>1. /\ accepted' \in [Targets -> [Recordings -> Int]]
        /\ accepted'[t][g] = accepted[t][g] - 1 /\ accepted[t][g] \in Int
        /\ \A u \in Targets, h \in Recordings : u # t \/ h # g => accepted'[u][h] = accepted[u][h]
    BY <1>2, <1>8, <1>13
  <2>2. RecordingData' /\ FilesAreSeparate'
    BY <1>1, <1>4, <1>13, <2>1, SMTT(30) DEF RecordingInv, RecordingData, FilesAreSeparate
  <2>3. FutureInv'
    <3>1. ASSUME NEW u \in Targets, NEW h \in Recordings, h > recorder[u].started
          PROVE  file[u][h] = <<>> /\ accepted'[u][h] = 0
      <4>1. u # t \/ h # g
        BY <1>2, <1>5, <3>1 DEF n, Recordings
      <4> QED  BY <2>1, <3>1, <4>1 DEF RecordingInv, FutureInv
    <3> QED  BY <1>1, <1>4, <1>13, <3>1 DEF FutureInv
  <2>4. ASSUME NEW u \in Targets, recorder[u].generation # 0
        PROVE  Count(file'[u][recorder[u].generation], recorder[u].generation)
                 + Count(queue', [target |-> u, generation |-> recorder[u].generation])
                 = accepted'[u][recorder[u].generation]
    <3> DEFINE h == recorder[u].generation
               x == [target |-> u, generation |-> h]
    <3>1. /\ h \in Recordings /\ Count(file[u][h], h) \in Nat /\ Count(queue, x) \in Nat
          /\ Count(file[u][h], h) + Count(queue, x) = accepted[u][h]
      BY <1>2, <1>9, <2>4
    <3>2. CASE u # t \/ h # g
      <4>1. queue[1] # x
        BY <1>2, <3>2
      <4>2. Count(queue', x) = Count(queue, x)
        BY <1>2, <4>1
      <4> QED  BY <1>13, <2>1, <3>1, <3>2, <4>2
    <3>3. CASE u = t /\ h = g
      <4>1. Count(queue', x) = Count(queue, x) - 1
        BY <1>2, <3>3
      <4> QED  BY <1>13, <2>1, <3>1, <3>3, <4>1
    <3> QED  BY <3>2, <3>3
  <2> QED  BY <1>7, <1>10, <2>2, <2>3, <2>4 DEF RecordingInv
<1> QED  BY <1>6, <1>11, <1>12, <1>13 DEF t, g, n

\* The invariant of recording, for any number of recorders, recordings and blocks
\* and any capacity of the queue.
THEOREM RecordingInvariant == RecordingSpec => []RecordingInv
<1>1. RecordingInit => RecordingInv
  <2> SUFFICES ASSUME RecordingInit PROVE RecordingInv
    OBVIOUS
  <2>1. \A t \in Targets : recorder[t] = [writing |-> FALSE, generation |-> 0, started |-> 0]
    BY DEF RecordingInit, NewRecorder
  <2>2. RecordingData
    BY RecordingAssumption DEF RecordingInit, NewRecorder, RecordingData
  <2>3. RecorderInv /\ AcceptedInv /\ CheckedInv /\ LeavingInv
    BY <2>1 DEF RecordingInit, RecorderInv, AcceptedInv, CheckedInv, LeavingInv, Busy
  <2>4. FutureInv /\ FilesAreSeparate
    BY DEF RecordingInit, FutureInv, FilesAreSeparate
  <2> QED  BY <2>2, <2>3, <2>4 DEF RecordingInv
<1>2. RecordingInv /\ [RecordingNext]_recordingVars => RecordingInv'
  <2> SUFFICES ASSUME RecordingInv, [RecordingNext]_recordingVars PROVE RecordingInv'
    OBVIOUS
  <2>1. CASE \E t \in Targets : StartRecording(t) \/ StopRecording(t) \/ Enqueue(t)
    BY <2>1, StartRecordingInv, StopRecordingInv, EnqueueInv
  <2>2. CASE SignalExit
    BY <2>2 DEF SignalExit, RecordingInv, RecordingData, RecorderInv, FutureInv, CheckedInv, Busy,
                AcceptedInv, LeavingInv, FilesAreSeparate
  <2>3. CASE Exit
    BY <2>3 DEF Exit, RecordingInv, RecordingData, RecorderInv, FutureInv, CheckedInv, Busy,
                AcceptedInv, LeavingInv, FilesAreSeparate
  <2>4. CASE UNCHANGED recordingVars
    BY <2>4 DEF recordingVars, RecordingInv, RecordingData, RecorderInv, FutureInv, CheckedInv, Busy,
                AcceptedInv, LeavingInv, FilesAreSeparate
  <2> QED  BY <2>1, <2>2, <2>3, <2>4, CheckBlockInv, SaveBlockInv DEF RecordingNext
<1> QED  BY <1>1, <1>2, PTL DEF RecordingSpec

\* Recorder: a file holds blocks of its own recording, after at most one that the
\* worker had checked for the recording before.
THEOREM RecordingsAreSeparate == RecordingSpec => []FilesAreSeparate
<1>1. RecordingInv => FilesAreSeparate
  BY DEF RecordingInv
<1> QED  BY <1>1, RecordingInvariant, PTL

\* RecorderWorker: when the worker is gone every block queued for a recording still
\* on is in its file, if the disk writer took it.
THEOREM NoBlockLostAtExit == RecordingSpec => []NothingLostAtExit
<1>1. RecordingInv => NothingLostAtExit
  <2> SUFFICES ASSUME RecordingInv, recordingPc = "exited", NEW t \in Targets,
                      recorder[t].generation # 0
               PROVE  Count(file[t][recorder[t].generation], recorder[t].generation)
                        = accepted[t][recorder[t].generation]
    BY DEF NothingLostAtExit, Count, Occurrences
  <2> DEFINE g == recorder[t].generation
  <2>1. Count(queue, [target |-> t, generation |-> g]) = 0
    BY CountEmpty DEF RecordingInv, LeavingInv
  <2>2. Count(file[t][g], g) + Count(queue, [target |-> t, generation |-> g]) = accepted[t][g]
    BY DEF RecordingInv, AcceptedInv
  <2>3. Count(file[t][g], g) \in Nat
    <3>1. g \in Recordings
      BY RecorderFacts
    <3>2. file[t][g] \in Seq(Nat)
      BY <3>1 DEF RecordingInv, RecordingData
    <3> QED  BY <3>2, CountType
  <2> QED  BY <2>1, <2>2, <2>3
<1> QED  BY <1>1, RecordingInvariant, PTL
=============================================================================
