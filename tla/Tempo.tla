-------------------------------- MODULE Tempo --------------------------------
(***************************************************************************)
(* One tempo for the session.  Every user may move the slider of his       *)
(* client; the frame that the audio callback sends next carries the value  *)
(* once, the server keeps the last one it got and puts it into every mix,  *)
(* and the clients show what the mixes say.  A client that shows a tempo   *)
(* of the server must not send it back, and one whose slider has just      *)
(* moved does not listen for a second.                                     *)
(*                                                                         *)
(* A tempo is a number, 0 is none.  Only tempos are used that survive the  *)
(* conversions between float, double and the steps of the slider, such as  *)
(* whole beats per minute; 1 stands for the lowest one.                    *)
(***************************************************************************)
EXTENDS Naturals, Sequences

CONSTANTS
  Members,      \* the clients of the session
  Tempos,       \* what the slider can be moved to
  InitialBpm,   \* lastBpm_ of a new server, 120
  MaxMoves,     \* bound: moves of a slider and of other faders
  MaxInFlight   \* bound: frames with a tempo of a client that are on their way

ASSUME TempoAssumption ==
  /\ 1 \in Tempos /\ Tempos \subseteq Nat \ {0} /\ InitialBpm \in Tempos
  /\ MaxMoves \in Nat /\ MaxInFlight \in Nat \ {0}

VARIABLES
  shown,        \* VALUE_SERVER_BPM: the tempo the slider shows
  mailbox,      \* clientBpm_, 0 is empty
  expected,     \* pendingServerBpm_, 0 unless ignoreNextServerBpmChange_
  listening,    \* the slider has not moved for a second
  pending,      \* callAsync calls that will set VALUE_SERVER_BPM
  update,       \* serverBpmPending_ and latestServerBpm_
  wire,         \* the tempos in frames on their way to the server
  lastBpm,      \* lastBpm_ of the server
  moves

clientTempo == <<shown, mailbox, expected, listening, pending>>
tempoVars == <<clientTempo, update, wire, lastBpm, moves>>

NoUpdate == [present |-> FALSE, bpm |-> 0]
NoExpectation == [ignore |-> FALSE, bpm |-> 0]

\* The constructor of AudioService hands the stored tempo to the engine; before
\* the first use none is stored.
TempoInit ==
  /\ shown \in [Members -> Tempos \cup {0}] /\ mailbox = shown
  /\ expected = [c \in Members |-> NoExpectation] /\ listening = [c \in Members |-> FALSE]
  /\ pending = [c \in Members |-> <<>>] /\ update = [c \in Members |-> NoUpdate]
  /\ wire = [c \in Members |-> <<>>] /\ lastBpm = InitialBpm /\ moves = 0

-----------------------------------------------------------------------------
(* The message thread of client c *)

\* Mutant: what the server says is sent back to it.
SetClientBpmAlways(c, bpm) ==
  /\ mailbox' = [mailbox EXCEPT ![c] = bpm]
  /\ listening' = [listening EXCEPT ![c] = FALSE]
  /\ UNCHANGED expected

\* setClientBpm: the change that the server's tempo has caused is ignored, once.
SetClientBpm(c, bpm) ==
  /\ expected' = [expected EXCEPT ![c].ignore = FALSE]
  /\ IF expected[c].ignore /\ expected[c].bpm = bpm THEN UNCHANGED <<mailbox, listening>>
     ELSE /\ mailbox' = [mailbox EXCEPT ![c] = bpm]
          /\ listening' = [listening EXCEPT ![c] = FALSE]

\* The property changes and AudioService hears of it, unless it has this value.
Show(c, bpm) ==
  /\ shown' = [shown EXCEPT ![c] = bpm]
  /\ IF bpm = shown[c] THEN UNCHANGED <<mailbox, expected, listening>>
     ELSE SetClientBpm(c, bpm)

MoveSlider(c) ==
  /\ moves < MaxMoves /\ moves' = moves + 1
  /\ \E bpm \in Tempos : Show(c, bpm)
  /\ UNCHANGED <<pending, update, wire, lastBpm>>

\* Any other control: refreshEngineConfiguration passes the tempo on as well.
MoveFader(c) ==
  /\ moves < MaxMoves /\ moves' = moves + 1
  /\ SetClientBpm(c, shown[c])
  /\ UNCHANGED <<shown, pending, update, wire, lastBpm>>

\* takeServerBpmUpdate, called by the timer of AudioCallback.
TakeServerBpmUpdate(c) ==
  /\ update[c].present /\ update' = [update EXCEPT ![c].present = FALSE]
  /\ IF listening[c]
     THEN /\ expected' = [expected EXCEPT ![c] = [ignore |-> TRUE, bpm |-> update[c].bpm]]
          /\ listening' = [listening EXCEPT ![c] = FALSE]
          /\ pending' = [pending EXCEPT ![c] = Append(@, update[c].bpm)]
     ELSE UNCHANGED <<expected, listening, pending>>
  /\ UNCHANGED <<shown, mailbox, wire, lastBpm, moves>>

RunAsync(c) ==
  /\ pending[c] # <<>> /\ pending' = [pending EXCEPT ![c] = Tail(@)]
  /\ Show(c, Head(pending[c]))
  /\ UNCHANGED <<update, wire, lastBpm, moves>>

\* The slider can not show 0 and corrects the property to its lowest value.
SliderCorrects(c) ==
  /\ shown[c] = 0 /\ Show(c, 1)
  /\ UNCHANGED <<pending, update, wire, lastBpm, moves>>

\* A second has passed since the slider moved: longer than anything waits for the
\* message thread or for the next frame.
SecondPasses(c) ==
  /\ ~listening[c] /\ pending[c] = <<>> /\ shown[c] # 0 /\ mailbox[c] = 0
  /\ listening' = [listening EXCEPT ![c] = TRUE]
  /\ UNCHANGED <<shown, mailbox, expected, pending, update, wire, lastBpm, moves>>

-----------------------------------------------------------------------------
(* The audio callback, the network and the server *)

\* A frame takes the latest value out of the mailbox.  The many frames without a
\* tempo are not counted.
SendFrame(c) ==
  /\ mailbox[c] # 0 /\ Len(wire[c]) < MaxInFlight
  /\ wire' = [wire EXCEPT ![c] = Append(@, mailbox[c])]
  /\ mailbox' = [mailbox EXCEPT ![c] = 0]
  /\ UNCHANGED <<shown, expected, listening, pending, update, lastBpm, moves>>

LoseFrame(c) ==
  /\ wire[c] # <<>> /\ wire' = [wire EXCEPT ![c] = Tail(@)]
  /\ UNCHANGED <<clientTempo, update, lastBpm, moves>>

\* ServerMixerCore::mix with the tempo of client c.  A mix with several tempos
\* keeps the largest, as if the smaller ones had come before.
MixTempoOf(c) ==
  /\ wire[c] # <<>> /\ wire' = [wire EXCEPT ![c] = Tail(@)] /\ lastBpm' = Head(wire[c])
  /\ UNCHANGED <<clientTempo, update, moves>>

\* A mix, which always carries the tempo of the session, reaches client c.
MixHeardBy(c) ==
  /\ update' = [update EXCEPT ![c] = [present |-> TRUE, bpm |-> lastBpm]]
  /\ UNCHANGED <<clientTempo, wire, lastBpm, moves>>

TempoNext ==
  \E c \in Members :
    \/ MoveSlider(c) \/ MoveFader(c) \/ TakeServerBpmUpdate(c) \/ RunAsync(c)
    \/ SliderCorrects(c) \/ SecondPasses(c)
    \/ SendFrame(c) \/ LoseFrame(c) \/ MixTempoOf(c) \/ MixHeardBy(c)

TempoSpec == TempoInit /\ [][TempoNext]_tempoVars

-----------------------------------------------------------------------------
(* Properties *)

\* When the users leave their controls alone, every client comes to show the
\* tempo of the session and no client sends another one any more, whatever
\* frames are lost and however sliders, timers and mixes interleave.
TempoSettles == <>[](\A c \in Members : shown[c] = lastBpm)
=============================================================================
