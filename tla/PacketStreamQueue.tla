-------------------------- MODULE PacketStreamQueue --------------------------
(***************************************************************************)
(* common/PacketStreamQueue as one component: a producer pushes packets as *)
(* the network hands them over (late, twice, out of order, or never), a    *)
(* consumer pops one element per audio block, and the owner may rebase the *)
(* queue to a shorter length or reset it.  The owners call it under a lock *)
(* (ClientState) or from one thread (AudioReceiveWorker), so a method is   *)
(* one step.                                                               *)
(***************************************************************************)
EXTENDS StreamQueue

CONSTANTS
  MaxCounter,     \* the largest message counter (2^64 - 1 in the code)
  MaxArrivals,    \* bound: how many packets arrive in one behaviour
  RetainedSizes,  \* the lengths the owner may fast-forward to
  FecDistances    \* how far back the redundant block of a packet may reach,
                  \* 0 for a packet without one

ASSUME QueueAssumption ==
  /\ MaxCounter \in Nat
  /\ MaxArrivals \in Nat
  /\ RetainedSizes \subseteq Nat
  /\ FecDistances \subseteq Nat

VARIABLES
  queue,      \* the data structure, a Queue
  quality,    \* the counters of qualityData_ and lastPushedMessage_
  element,    \* what the last try_pop returned
  arrivals,   \* how many packets the network has handed over
  accepted,   \* history: counters push() took since the last reset
  played,     \* history: counters returned as real packets
  concealed,  \* history: counters returned as fill-ins
  skipped     \* history: counters dropped by a fast-forward

history == <<accepted, played, concealed, skipped>>
vars == <<queue, quality, element, arrivals, history>>

\* A packet may bring along an earlier block of its stream.
ArrivingPackets ==
  {[ctr |-> c, fec |-> IF d \in 1..c THEN c - d ELSE NoFec] :
      c \in 0..MaxCounter, d \in FecDistances}

NoElement == [ctr |-> 0, kind |-> "none"]

NewQuality ==
  [lastPushed |-> 0, packagesPushed |-> 0, packagesPopped |-> 0,
   tooLateOrDuplicate |-> 0, duplicatePacketCounter |-> 0,
   outOfOrderPacketCounter |-> 0, maxWrongOrderSpan |-> 0,
   droppedPacketCounter |-> 0, dropsHealed |-> 0, maxLengthOfGap |-> 0]

Init ==
  /\ queue = EmptyQueue
  /\ quality = NewQuality
  /\ element = NoElement
  /\ arrivals = 0
  /\ accepted = {} /\ played = {} /\ concealed = {} /\ skipped = {}

-----------------------------------------------------------------------------
Larger(a, b) == IF a > b THEN a ELSE b

\* The bookkeeping push() does for a packet it takes, and for one it refuses.
QualityAfterPush(d, q, p) ==
  IF TooLateOrDuplicate(q, p)
  THEN [d EXCEPT !.tooLateOrDuplicate = @ + 1]
  ELSE IF HasBeenPushedBefore(q, p)
  THEN [d EXCEPT !.duplicatePacketCounter = @ + 1]
  ELSE [d EXCEPT
          !.packagesPushed = @ + 1,
          !.outOfOrderPacketCounter =
              IF p.ctr < d.lastPushed THEN @ + 1 ELSE @,
          !.maxWrongOrderSpan =
              IF p.ctr < d.lastPushed THEN Larger(@, d.lastPushed - p.ctr) ELSE @,
          !.lastPushed = p.ctr]

Push(p) ==
  /\ arrivals < MaxArrivals
  /\ arrivals' = arrivals + 1
  /\ queue' = PushPacket(queue, p)
  /\ quality' = QualityAfterPush(quality, queue, p)
  /\ accepted' = IF HasBeenPushedBefore(queue, p) THEN accepted
                 ELSE accepted \cup {p.ctr}
  /\ UNCHANGED <<element, played, concealed, skipped>>

\* try_pop hands out the packet at the head of the heap.
PopPacket ==
  /\ queue.packetQueue # {} /\ IsExpected(queue)
  /\ queue' = AfterPop(queue)
  /\ element' = PoppedElement(queue)
  /\ quality' = [quality EXCEPT !.packagesPopped = @ + 1]
  /\ played' = played \cup {element'.ctr}
  /\ UNCHANGED <<arrivals, accepted, concealed, skipped>>

\* try_pop conceals a missing packet and leaves the head where it is.
PopSubstitute ==
  /\ queue.packetQueue # {} /\ ~IsExpected(queue)
  /\ queue' = AfterPop(queue)
  /\ element' = PoppedElement(queue)
  /\ quality' = [quality EXCEPT
        !.dropsHealed = IF element'.kind = "healed" THEN @ + 1 ELSE @,
        !.droppedPacketCounter = IF element'.kind = "healed" THEN @ ELSE @ + 1,
        !.maxLengthOfGap = Larger(@, queue.currentGap + 1)]
  /\ concealed' = concealed \cup {element'.ctr}
  /\ UNCHANGED <<arrivals, accepted, played, skipped>>

\* Mutant: the last packet is held back.
TryPopHoldsLast == Size(queue) > 1 /\ (PopPacket \/ PopSubstitute)

TryPop == PopPacket \/ PopSubstitute

FastForward(n) ==
  /\ Discarded(queue, n) # {}
  /\ queue' = FastForwardToSize(queue, n)
  /\ quality' = [quality EXCEPT
        !.droppedPacketCounter = @ + Cardinality(Discarded(queue, n)),
        !.packagesPopped = @ + Cardinality(Discarded(queue, n))]
  /\ skipped' = skipped \cup {p.ctr : p \in Discarded(queue, n)}
  /\ UNCHANGED <<element, arrivals, accepted, played, concealed>>

Reset ==
  /\ queue' = EmptyQueue
  /\ quality' = NewQuality
  /\ accepted' = {} /\ played' = {} /\ concealed' = {} /\ skipped' = {}
  /\ UNCHANGED <<element, arrivals>>

Next ==
  \/ \E p \in ArrivingPackets : Push(p)
  \/ TryPop
  \/ \E n \in RetainedSizes : FastForward(n)
  \/ Reset

Spec == Init /\ [][Next]_vars

\* The consumer asks for one element per audio block for as long as it runs.
FairSpec == Spec /\ WF_vars(TryPop)

-----------------------------------------------------------------------------
(* Invariants *)

Quality ==
  [lastPushed : Nat, packagesPushed : Nat, packagesPopped : Nat,
   tooLateOrDuplicate : Nat, duplicatePacketCounter : Nat,
   outOfOrderPacketCounter : Nat, maxWrongOrderSpan : Nat,
   droppedPacketCounter : Nat, dropsHealed : Nat, maxLengthOfGap : Nat]

\* The variables have their types; a counter never leaves the range of the
\* code's unsigned 64-bit integer, so neither lastPoppedMessage_ + 1 nor
\* messageCounter() - 1 in try_pop can wrap.
TypeOK ==
  /\ queue \in Queue
  /\ quality \in Quality
  /\ element \in [ctr : Nat, kind : Elements \cup {"none"}]
  /\ arrivals \in 0..MaxArrivals
  /\ accepted \subseteq 0..MaxCounter /\ played \subseteq 0..MaxCounter
  /\ concealed \subseteq 0..MaxCounter /\ skipped \subseteq 0..MaxCounter
  /\ Counters(queue) \subseteq 0..MaxCounter
  /\ queue.lastPopped \in 0..MaxCounter
  /\ element.ctr \in 0..MaxCounter

\* The duplicate index currentlyInQueue_ and the heap packetQueue_ are kept by
\* separate statements of push, try_pop and fastForwardToSize; they always
\* hold the same counters, each once.
IndexMatchesHeap ==
  /\ queue.currentlyInQueue = Counters(queue)
  /\ \A p, r \in queue.packetQueue : p.ctr = r.ctr => p = r

\* Nothing that waits in the heap has been passed: whatever try_pop or a
\* fast-forward does to lastPoppedMessage_, every queued packet can still be
\* played.
QueuedIsAhead == \A c \in Counters(queue) : c > queue.lastPopped

\* "Never repeat this again, take the next package even if there was a drop":
\* however many packets are lost, there are at most two fill-ins in a row, and
\* the maximum the client is shown says so too.
GapBounded == queue.currentGap <= 2 /\ quality.maxLengthOfGap <= 2

\* qualityStatement() prints packagesPushed - packagesPopped as the length of
\* the queue; that is its length after every push, pop and fast-forward.
LengthIsPushedMinusPopped ==
  quality.packagesPushed - quality.packagesPopped = Size(queue)

\* A packet that push() took is waiting, was played once, or was dropped by a
\* fast-forward, and exactly one of these; a number for which the consumer got
\* a substitute is never taken afterwards.
AcceptedPacketsAccountedFor ==
  /\ accepted = Counters(queue) \cup played \cup skipped
  /\ Counters(queue) \cap (played \cup skipped) = {}
  /\ played \cap skipped = {}
  /\ concealed \cap accepted = {}

-----------------------------------------------------------------------------
(* Action and liveness properties, and the abstract specification *)

\* Between two resets the consumer is given strictly increasing numbers: no
\* number twice, neither as a packet nor as a fill-in, and never an older one
\* after a newer one, even across a fast-forward.
GivenOut == played \cup concealed
GivenOutInOrder ==
  [][TryPop => \A old \in GivenOut : old < element'.ctr]_vars

\* With a consumer that keeps popping no queued packet is starved by fill-ins
\* or by packets that arrive before it.
NothingWaitsForever ==
  \A c \in 0..MaxCounter : c \in Counters(queue) ~> c \notin Counters(queue)

Playout == INSTANCE OrderedPlayout
             WITH pending <- Counters(queue), position <- queue.lastPopped,
                  inStep <- queue.hasPoppedData

\* The queue implements ordered playout.
ImplementsOrderedPlayout == Playout!Spec
=============================================================================
