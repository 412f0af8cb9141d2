----------------------------- MODULE ClientState -----------------------------
(***************************************************************************)
(* Server/Source/ClientState: one client's packet queue together with its  *)
(* connection state.  Every method of the class holds the mutex from its   *)
(* first to its last statement, so a method is one operator from the       *)
(* client before to the client after; what can happen between two calls is *)
(* the business of the module that calls them, MixScheduler.               *)
(*                                                                         *)
(* The server looks at a packet's counter only.  Redundant blocks matter   *)
(* to the kind of a fill-in, which PacketStreamQueue models, and to        *)
(* nothing here.  The transition that push() returns is only logged.       *)
(***************************************************************************)
EXTENDS StreamQueue

CONSTANTS
  CounterModulus, \* message counters are unsigned: 2^64 in the code
  Prefill,        \* serverBufferPrefillOnConnect
  Grace           \* DisconnectGracePeriod, in steps of the clock

ASSUME ClientAssumption ==
  /\ CounterModulus \in Nat \ {0}
  /\ Prefill \in Nat /\ Prefill < CounterModulus
  /\ Grace \in Nat

Client ==
  [state : {"Disconnected", "Connected", "Disconnecting"},
   hasQueue : BOOLEAN, queue : Queue, disconnectDeadline : Nat,
   activityGeneration : Nat, hasConnected : BOOLEAN]

\* A client that is not in incomingData_ yet cannot be told from one whose
\* ClientState has just been constructed.  While queue_ is null, queue is
\* EmptyQueue.
NewClient ==
  [state |-> "Disconnected", hasQueue |-> FALSE, queue |-> EmptyQueue,
   disconnectDeadline |-> 0, activityGeneration |-> 0, hasConnected |-> FALSE]

AudioPacket(ctr) == [ctr |-> ctr, fec |-> NoFec]

-----------------------------------------------------------------------------
(* push *)

\* createPrePaddingPackage, applied i times: an unsigned subtraction.
PrePadding(ctr, i) == AudioPacket((ctr - i) % CounterModulus)

\* Pushing distinct packets one after the other, with no pop in between.
PushAll(q, S) ==
  LET new == {p \in S : ~HasBeenPushedBefore(q, p)}
  IN  [q EXCEPT !.packetQueue = @ \cup new,
                !.currentlyInQueue = @ \cup {p.ctr : p \in new}]

\* The queue that the packet itself is pushed to: a new one if there is none,
\* padded on the very first connection only.
QueueForPush(cs, ctr) ==
  LET q == IF cs.hasQueue THEN cs.queue ELSE EmptyQueue
  IN  IF cs.hasConnected THEN q
      ELSE PushAll(q, {PrePadding(ctr, i) : i \in 1..Prefill})

\* ClientPushResult::queued
IsQueued(cs, ctr) ==
  ~HasBeenPushedBefore(QueueForPush(cs, ctr), AudioPacket(ctr))

\* The connection state changes before, and whether or not, the packet is
\* taken by the queue.
PushToClient(cs, ctr) ==
  [cs EXCEPT !.state = "Connected",
             !.hasQueue = TRUE,
             !.hasConnected = TRUE,
             !.activityGeneration = @ + 1,
             !.queue = PushPacket(QueueForPush(cs, ctr), AudioPacket(ctr))]

-----------------------------------------------------------------------------
(* tryPop, applyQueuePressure, markUnderrun, disconnectIfGraceExpired *)

IsOpen(cs) == cs.state # "Disconnected" /\ cs.hasQueue

\* What snapshot() and applyQueuePressure() report as the queue's length.
QueueLength(cs) == IF IsOpen(cs) THEN Size(cs.queue) ELSE 0

TryPopSucceeds(cs) == IsOpen(cs) /\ cs.queue.packetQueue # {}

AfterTryPop(cs) == [cs EXCEPT !.queue = AfterPop(@)]

ApplyQueuePressure(cs, maximum, retained) ==
  IF IsOpen(cs) /\ Size(cs.queue) > maximum
  THEN [cs EXCEPT !.queue = FastForwardToSize(@, retained)]
  ELSE cs

\* Mutant: the activity since the failed pop is not looked at.
MarkUnderrunUnguarded(cs, observed, now) ==
  IF cs.state # "Connected" THEN cs
  ELSE [cs EXCEPT !.state = "Disconnecting", !.disconnectDeadline = now + Grace]

MarkUnderrun(cs, observed, now) ==
  IF cs.state # "Connected" \/ cs.activityGeneration # observed THEN cs
  ELSE [cs EXCEPT !.state = "Disconnecting", !.disconnectDeadline = now + Grace]

\* Mutant: the queue outlives the connection.
DisconnectKeepsQueue(cs, now) ==
  IF cs.state # "Disconnecting" \/ now < cs.disconnectDeadline THEN cs
  ELSE [cs EXCEPT !.state = "Disconnected"]

DisconnectIfGraceExpired(cs, now) ==
  IF cs.state # "Disconnecting" \/ now < cs.disconnectDeadline THEN cs
  ELSE [cs EXCEPT !.state = "Disconnected", !.hasQueue = FALSE, !.queue = EmptyQueue]
=============================================================================
