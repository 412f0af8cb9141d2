----------------------- MODULE PacketStreamQueueProofs -----------------------
(***************************************************************************)
(* The packet stream queue as a component: its invariants hold for every   *)
(* range of counters and every sequence of calls, and it implements        *)
(* ordered playout.  The structural part rests on the lemmas of            *)
(* StreamQueueProofs; what is added here is the bookkeeping around it.     *)
(***************************************************************************)
EXTENDS PacketStreamQueue, StreamQueueProofs

\* The inductive invariant: types, a well-formed queue, and the bookkeeping.
BookKeeping ==
  /\ LengthIsPushedMinusPopped
  /\ AcceptedPacketsAccountedFor
  /\ quality.maxLengthOfGap <= 2
  /\ \A c \in played \cup concealed \cup skipped : c <= queue.lastPopped

IInv == TypeOK /\ WellFormed(queue) /\ BookKeeping

\* What arrives is a packet with a counter in range.
LEMMA ArrivingType ==
  ASSUME NEW p \in ArrivingPackets
  PROVE  p \in Packet /\ p.ctr \in 0..MaxCounter
<1>1. PICK c \in 0..MaxCounter, d \in FecDistances :
        p = [ctr |-> c, fec |-> IF d \in 1..c THEN c - d ELSE NoFec]
  BY DEF ArrivingPackets
<1>2. c \in Nat /\ (IF d \in 1..c THEN c - d ELSE NoFec) \in Nat
  BY QueueAssumption DEF NoFec
<1> QED  BY <1>1, <1>2 DEF Packet

\* A queue that has just been constructed satisfies the invariant.
LEMMA InitIInv == Init => IInv
<1> SUFFICES ASSUME Init PROVE IInv
  OBVIOUS
<1>1. WellFormed(queue) /\ Counters(queue) = {} /\ queue.lastPopped = 0
  BY EmptyIsWellFormed DEF Init, EmptyQueue
<1>2. TypeOK
  BY <1>1, QueueAssumption
     DEF Init, TypeOK, WellFormed, Quality, NewQuality, NoElement
<1>3. Size(queue) = 0
  BY FS_EmptySet DEF Init, EmptyQueue, Size
<1>4. BookKeeping
  BY <1>1, <1>3
     DEF Init, BookKeeping, LengthIsPushedMinusPopped,
         AcceptedPacketsAccountedFor, NewQuality
<1> QED  BY <1>1, <1>2, <1>4 DEF IInv

\* push() keeps the invariant, whether it takes the packet or refuses it.
LEMMA PushIInv ==
  ASSUME IInv, NEW p \in ArrivingPackets, Push(p)
  PROVE  IInv'
<1>1. p \in Packet /\ p.ctr \in 0..MaxCounter
  BY ArrivingType
<1>2. TypeOK /\ WellFormed(queue) /\ BookKeeping /\ MaxArrivals \in Nat
  BY QueueAssumption DEF IInv
<1>3. /\ WellFormed(queue') /\ queue' = PushPacket(queue, p)
      /\ queue'.lastPopped = queue.lastPopped
  BY <1>1, <1>2, PushKeepsWellFormed DEF Push
<1>4. arrivals' \in 0..MaxArrivals
  BY <1>2 DEF Push, TypeOK
<1>5. CASE HasBeenPushedBefore(queue, p)
  <2>1. queue' = queue /\ UNCHANGED history
    BY <1>5 DEF Push, PushPacket, history
  <2>2. /\ quality' \in Quality
        /\ quality'.packagesPushed = quality.packagesPushed
        /\ quality'.packagesPopped = quality.packagesPopped
        /\ quality'.maxLengthOfGap = quality.maxLengthOfGap
    BY <1>2, <1>5 DEF Push, QualityAfterPush, TypeOK, Quality
  <2>3. TypeOK'
    BY <1>2, <1>4, <2>1, <2>2 DEF Push, TypeOK, history, Counters
  <2>4. BookKeeping'
    BY <1>2, <2>1, <2>2
       DEF BookKeeping, LengthIsPushedMinusPopped, AcceptedPacketsAccountedFor,
           history, Counters, Size
  <2> QED  BY <1>3, <2>3, <2>4 DEF IInv
<1>6. CASE ~HasBeenPushedBefore(queue, p)
  <2>1. /\ p.ctr \notin Counters(queue) /\ p.ctr > queue.lastPopped
        /\ Counters(queue') = Counters(queue) \cup {p.ctr}
        /\ Size(queue') = Size(queue) + 1
    BY <1>1, <1>2, <1>3, <1>6, PushKeepsWellFormed
  <2>2. /\ accepted' = accepted \cup {p.ctr}
        /\ UNCHANGED <<element, played, concealed, skipped>>
    BY <1>6 DEF Push
  <2>3. /\ quality' \in Quality
        /\ quality'.packagesPushed = quality.packagesPushed + 1
        /\ quality'.packagesPopped = quality.packagesPopped
        /\ quality'.maxLengthOfGap = quality.maxLengthOfGap
    <3>1. quality' = QualityAfterPush(quality, queue, p)
      BY DEF Push
    <3>2. quality \in Quality /\ p.ctr \in Nat
      BY <1>1, <1>2 DEF TypeOK
    <3> DEFINE late == p.ctr < quality.lastPushed
               o == IF late THEN quality.outOfOrderPacketCounter + 1
                    ELSE quality.outOfOrderPacketCounter
               w == IF late THEN Larger(quality.maxWrongOrderSpan,
                                        quality.lastPushed - p.ctr)
                    ELSE quality.maxWrongOrderSpan
               n == quality.packagesPushed + 1
    <3>3. quality' = [quality EXCEPT !.packagesPushed = n,
                                     !.outOfOrderPacketCounter = o,
                                     !.maxWrongOrderSpan = w,
                                     !.lastPushed = p.ctr]
      BY <1>6, <3>1 DEF QualityAfterPush, HasBeenPushedBefore
    <3>4. o \in Nat /\ w \in Nat /\ n \in Nat
      BY <3>2 DEF Quality, Larger
    <3> HIDE DEF o, w, n
    <3>5. quality' \in Quality /\ quality'.packagesPushed = n
      BY <3>2, <3>3, <3>4 DEF Quality
    <3> QED  BY <3>2, <3>3, <3>5 DEF n, Quality
  <2>4. TypeOK'
    <3>1. queue' \in Queue
      BY <1>3 DEF WellFormed
    <3> QED
      BY <1>1, <1>2, <1>3, <1>4, <2>1, <2>2, <2>3, <3>1 DEF TypeOK
  <2>5. LengthIsPushedMinusPopped'
    <3>1. LengthIsPushedMinusPopped /\ quality \in Quality /\ Size(queue) \in Nat
      BY <1>2, FS_CardinalityType DEF BookKeeping, TypeOK, WellFormed, Size
    <3> QED  BY <2>1, <2>3, <3>1 DEF LengthIsPushedMinusPopped, Quality
  <2>6. AcceptedPacketsAccountedFor' /\ (\A c \in played \cup concealed \cup skipped : c <= queue.lastPopped)'
    <3>1. \A c \in played \cup concealed \cup skipped : c # p.ctr
      BY <1>2, <2>1 DEF BookKeeping, TypeOK, WellFormed, Queue
    <3> QED
      BY <1>2, <1>3, <2>1, <2>2, <3>1
         DEF BookKeeping, AcceptedPacketsAccountedFor
  <2> QED
    BY <1>2, <1>3, <2>3, <2>4, <2>5, <2>6 DEF IInv, BookKeeping
<1> QED  BY <1>5, <1>6

\* try_pop keeps the invariant when it hands out the head of the heap.
LEMMA PopPacketIInv ==
  ASSUME IInv, PopPacket
  PROVE  IInv'
<1> DEFINE t == TopCounter(queue)
<1>1. TypeOK /\ WellFormed(queue) /\ BookKeeping /\ queue.packetQueue # {}
  BY DEF IInv, PopPacket
<1>2. /\ queue' = PopReal(queue)
      /\ element' = [ctr |-> t, kind |-> "real"]
      /\ quality' = [quality EXCEPT !.packagesPopped = quality.packagesPopped + 1]
      /\ played' = played \cup {t}
      /\ UNCHANGED <<arrivals, accepted, concealed, skipped>>
  BY DEF PopPacket, AfterPop, PoppedElement
<1>3. /\ WellFormed(queue')
      /\ Counters(queue') = Counters(queue) \ {t}
      /\ Size(queue') = Size(queue) - 1
      /\ queue'.lastPopped = t
  BY <1>1, <1>2, PopRealKeepsWellFormed
<1>4. t \in Counters(queue) /\ t \in Nat /\ t > queue.lastPopped
  BY <1>1, TopIsOldest
<1> HIDE DEF t
<1>5. /\ quality' \in Quality
      /\ quality'.packagesPopped = quality.packagesPopped + 1
      /\ quality'.packagesPushed = quality.packagesPushed
      /\ quality'.maxLengthOfGap = quality.maxLengthOfGap
  BY <1>1, <1>2 DEF TypeOK, Quality
<1>6. TypeOK'
  <2>1. queue' \in Queue /\ element' \in [ctr : Nat, kind : Elements \cup {"none"}]
    BY <1>2, <1>3, <1>4 DEF WellFormed, Elements
  <2>2. t \in 0..MaxCounter
    BY <1>1, <1>4 DEF TypeOK
  <2>3. element'.ctr = t
    BY <1>2
  <2> QED  BY <1>1, <1>2, <1>3, <1>5, <2>1, <2>2, <2>3 DEF TypeOK
<1>7. LengthIsPushedMinusPopped'
  <2>1. LengthIsPushedMinusPopped /\ quality \in Quality /\ Size(queue) \in Nat
    BY <1>1, FS_CardinalityType DEF BookKeeping, TypeOK, WellFormed, Size
  <2> QED  BY <1>3, <1>5, <2>1 DEF LengthIsPushedMinusPopped, Quality
<1>8. (\A c \in played \cup concealed \cup skipped : c <= queue.lastPopped)'
  <2>1. \A c \in played \cup concealed \cup skipped :
          c \in Nat /\ c <= queue.lastPopped /\ queue.lastPopped \in Nat
    <3>1. /\ played \subseteq 0..MaxCounter /\ concealed \subseteq 0..MaxCounter
          /\ skipped \subseteq 0..MaxCounter /\ queue.lastPopped \in 0..MaxCounter
      BY <1>1 DEF TypeOK
    <3>2. \A c \in played \cup concealed \cup skipped : c <= queue.lastPopped
      BY <1>1 DEF BookKeeping
    <3> QED  BY <3>1, <3>2
  <2> QED  BY <1>2, <1>3, <1>4, <2>1
<1>9. AcceptedPacketsAccountedFor'
  BY <1>1, <1>2, <1>3, <1>4 DEF BookKeeping, AcceptedPacketsAccountedFor
<1> QED  BY <1>1, <1>3, <1>5, <1>6, <1>7, <1>8, <1>9 DEF IInv, BookKeeping

\* try_pop keeps the invariant when it conceals a missing packet: the number
\* it gives out is new and lies before everything that waits.
LEMMA PopSubstituteIInv ==
  ASSUME IInv, PopSubstitute
  PROVE  IInv'
<1> DEFINE f == FillInCounter(queue)
           k == FillInKind(queue)
<1>1. /\ TypeOK /\ WellFormed(queue) /\ BookKeeping
      /\ queue.packetQueue # {} /\ ~IsExpected(queue)
  BY DEF IInv, PopSubstitute
<1>2. /\ queue' = PopFillIn(queue)
      /\ element' = [ctr |-> f, kind |-> k]
      /\ concealed' = concealed \cup {f}
      /\ UNCHANGED <<arrivals, accepted, played, skipped>>
  BY DEF PopSubstitute, AfterPop, PoppedElement
<1>3. /\ WellFormed(queue')
      /\ queue'.packetQueue = queue.packetQueue
      /\ Counters(queue') = Counters(queue)
      /\ queue'.lastPopped = f
      /\ queue.currentGap \in {0, 1}
      /\ f \in Nat /\ f > queue.lastPopped /\ f < TopCounter(queue)
  BY <1>1, <1>2, PopFillInKeepsWellFormed
<1>4. /\ TopCounter(queue) \in Counters(queue) /\ TopCounter(queue) \in Nat
      /\ \A c \in Counters(queue) : TopCounter(queue) <= c
  BY <1>1, TopIsOldest
<1>5. k \in Elements
  BY DEF FillInKind, Elements
<1> HIDE DEF f, k
<1>6. /\ quality' \in Quality
      /\ quality'.packagesPopped = quality.packagesPopped
      /\ quality'.packagesPushed = quality.packagesPushed
      /\ quality'.maxLengthOfGap <= 2
  <2> DEFINE h == IF element'.kind = "healed" THEN quality.dropsHealed + 1
                  ELSE quality.dropsHealed
             d == IF element'.kind = "healed" THEN quality.droppedPacketCounter
                  ELSE quality.droppedPacketCounter + 1
             g == Larger(quality.maxLengthOfGap, queue.currentGap + 1)
  <2>1. quality' = [quality EXCEPT !.dropsHealed = h, !.droppedPacketCounter = d,
                                   !.maxLengthOfGap = g]
    BY DEF PopSubstitute
  <2>2. quality \in Quality /\ quality.maxLengthOfGap <= 2
    BY <1>1 DEF TypeOK, BookKeeping
  <2>3. h \in Nat /\ d \in Nat
    BY <2>2 DEF Quality
  <2>4. g \in Nat /\ g <= 2
    BY <1>3, <2>2 DEF Larger, Quality
  <2> HIDE DEF h, d, g
  <2> QED  BY <2>1, <2>2, <2>3, <2>4 DEF Quality
<1>7. TypeOK'
  <2>1. /\ queue' \in Queue /\ element'.ctr = f
        /\ element' \in [ctr : Nat, kind : Elements \cup {"none"}]
    BY <1>2, <1>3, <1>5 DEF WellFormed
  <2>2. f \in 0..MaxCounter
    BY <1>1, <1>3, <1>4, QueueAssumption DEF TypeOK
  <2> QED  BY <1>1, <1>2, <1>3, <1>6, <2>1, <2>2 DEF TypeOK
<1>8. LengthIsPushedMinusPopped'
  BY <1>1, <1>3, <1>6 DEF BookKeeping, LengthIsPushedMinusPopped, Size
<1>9. (\A c \in played \cup concealed \cup skipped : c <= queue.lastPopped)'
  <2>1. /\ \A c \in played \cup concealed \cup skipped : c <= queue.lastPopped
        /\ played \cup concealed \cup skipped \subseteq 0..MaxCounter
        /\ queue.lastPopped \in Nat
    BY <1>1 DEF BookKeeping, TypeOK
  <2>2. \A c \in played \cup concealed \cup skipped : c \in Nat /\ c <= f
    BY <1>3, <2>1
  <2> QED  BY <1>2, <1>3, <2>2
<1>10. AcceptedPacketsAccountedFor'
  <2>1. f \notin Counters(queue)
    BY <1>3, <1>4
  <2>2. f \notin played \cup skipped
    <3>1. /\ \A c \in played \cup concealed \cup skipped : c <= queue.lastPopped
          /\ played \subseteq 0..MaxCounter /\ skipped \subseteq 0..MaxCounter
          /\ queue.lastPopped \in Nat
      BY <1>1 DEF BookKeeping, TypeOK
    <3>2. \A c \in played \cup skipped : c \in Nat /\ c <= queue.lastPopped
      BY <3>1
    <3> QED  BY <1>3, <3>1, <3>2
  <2> QED
    BY <1>1, <1>2, <1>3, <2>1, <2>2 DEF BookKeeping, AcceptedPacketsAccountedFor
<1> QED  BY <1>3, <1>6, <1>7, <1>8, <1>9, <1>10 DEF IInv, BookKeeping

\* fastForwardToSize keeps the invariant: what it drops was waiting, and is
\* behind the position afterwards.
LEMMA FastForwardIInv ==
  ASSUME IInv, NEW n \in RetainedSizes, FastForward(n)
  PROVE  IInv'
<1> DEFINE out == Discarded(queue, n)
           gone == {p.ctr : p \in out}
           k == Cardinality(out)
<1>1. TypeOK /\ WellFormed(queue) /\ BookKeeping /\ n \in Nat /\ MaxCounter \in Nat
  BY QueueAssumption DEF IInv
<1>2. /\ queue' = FastForwardToSize(queue, n) /\ out # {}
      /\ quality' = [quality EXCEPT
           !.droppedPacketCounter = quality.droppedPacketCounter + k,
           !.packagesPopped = quality.packagesPopped + k]
      /\ skipped' = skipped \cup gone
      /\ UNCHANGED <<element, arrivals, accepted, played, concealed>>
  BY DEF FastForward
<1>3. Counters(queue) \subseteq 0..MaxCounter
  BY <1>1 DEF TypeOK
<1>4. /\ WellFormed(queue')
      /\ Counters(queue') = Counters(queue) \ gone
      /\ gone \subseteq Counters(queue)
      /\ Size(queue') = Size(queue) - k
      /\ \A c \in gone : c <= queue'.lastPopped
      /\ queue'.lastPopped >= queue.lastPopped
      /\ queue'.lastPopped \in 0..MaxCounter
  BY <1>1, <1>2, <1>3, FastForwardKeepsWellFormed
<1>5. k \in Nat
  <2>1. IsFiniteSet(out)
    BY <1>1, FS_Difference DEF WellFormed, Discarded
  <2> QED  BY <2>1, FS_CardinalityType
<1> HIDE DEF out, gone, k
<1>6. /\ quality' \in Quality
      /\ quality'.packagesPopped = quality.packagesPopped + k
      /\ quality'.packagesPushed = quality.packagesPushed
      /\ quality'.maxLengthOfGap = quality.maxLengthOfGap
  <2> DEFINE d == quality.droppedPacketCounter + k
             c2 == quality.packagesPopped + k
  <2>1. quality \in Quality
    BY <1>1 DEF TypeOK
  <2>2. d \in Nat /\ c2 \in Nat
    BY <1>5, <2>1 DEF Quality
  <2>3. quality' = [quality EXCEPT !.droppedPacketCounter = d, !.packagesPopped = c2]
    BY <1>2
  <2>4. c2 = quality.packagesPopped + k
    OBVIOUS
  <2> HIDE DEF d, c2
  <2> QED  BY <2>1, <2>2, <2>3, <2>4 DEF Quality
<1>7. TypeOK'
  <2>1. queue' \in Queue
    BY <1>4 DEF WellFormed
  <2>2. skipped' \subseteq 0..MaxCounter /\ Counters(queue') \subseteq 0..MaxCounter
    BY <1>1, <1>2, <1>3, <1>4 DEF TypeOK
  <2> QED  BY <1>1, <1>2, <1>4, <1>6, <2>1, <2>2 DEF TypeOK
<1>8. LengthIsPushedMinusPopped'
  <2>1. LengthIsPushedMinusPopped /\ quality \in Quality /\ Size(queue) \in Nat
    BY <1>1, FS_CardinalityType DEF BookKeeping, TypeOK, WellFormed, Size
  <2> QED  BY <1>4, <1>5, <1>6, <2>1 DEF LengthIsPushedMinusPopped, Quality
<1>9. (\A c \in played \cup concealed \cup skipped : c <= queue.lastPopped)'
  <2>1. /\ \A c \in played \cup concealed \cup skipped : c <= queue.lastPopped
        /\ played \cup concealed \cup skipped \subseteq 0..MaxCounter
        /\ queue.lastPopped \in Nat /\ queue'.lastPopped \in Nat
    BY <1>1, <1>4 DEF BookKeeping, TypeOK
  <2>2. \A c \in played \cup concealed \cup skipped : c <= queue'.lastPopped
    BY <1>4, <2>1
  <2> QED  BY <1>2, <1>4, <2>2
<1>10. AcceptedPacketsAccountedFor'
  BY <1>1, <1>2, <1>4 DEF BookKeeping, AcceptedPacketsAccountedFor
<1> QED  BY <1>1, <1>4, <1>6, <1>7, <1>8, <1>9, <1>10 DEF IInv, BookKeeping

\* reset() keeps the invariant: the queue, the quality data and the history
\* start over together.
LEMMA ResetIInv ==
  ASSUME IInv, Reset
  PROVE  IInv'
<1>1. WellFormed(queue') /\ Counters(queue') = {} /\ queue'.lastPopped = 0
  BY EmptyIsWellFormed DEF Reset, EmptyQueue
<1>2. TypeOK'
  BY <1>1, QueueAssumption
     DEF IInv, Reset, TypeOK, WellFormed, Quality, NewQuality
<1>3. Size(queue') = 0
  BY FS_EmptySet DEF Reset, EmptyQueue, Size
<1>4. BookKeeping'
  BY <1>1, <1>3
     DEF Reset, BookKeeping, LengthIsPushedMinusPopped,
         AcceptedPacketsAccountedFor, NewQuality
<1> QED  BY <1>1, <1>2, <1>4 DEF IInv

\* Every step keeps the invariant.
LEMMA NextIInv == IInv /\ [Next]_vars => IInv'
<1> SUFFICES ASSUME IInv, [Next]_vars PROVE IInv'
  OBVIOUS
<1>1. CASE \E p \in ArrivingPackets : Push(p)
  BY <1>1, PushIInv
<1>2. CASE TryPop
  BY <1>2, PopPacketIInv, PopSubstituteIInv DEF TryPop
<1>3. CASE \E n \in RetainedSizes : FastForward(n)
  BY <1>3, FastForwardIInv
<1>4. CASE Reset
  BY <1>4, ResetIInv
<1>5. CASE UNCHANGED vars
  BY <1>5
     DEF IInv, TypeOK, BookKeeping, LengthIsPushedMinusPopped,
         AcceptedPacketsAccountedFor, vars, history, Counters, Size,
         WellFormed, IndexIsExact, AheadOfPosition, GapIsClosing
<1> QED  BY <1>1, <1>2, <1>3, <1>4, <1>5 DEF Next

\* The inductive invariant holds in every behaviour of the queue.
THEOREM QueueInvariant == Spec => []IInv
BY InitIInv, NextIInv, PTL DEF Spec

\* No counter of the queue leaves its range: neither lastPoppedMessage_ + 1 nor
\* messageCounter() - 1 wraps, whatever arrives.
THEOREM QueueTypeCorrect == Spec => []TypeOK
<1>1. IInv => TypeOK
  BY DEF IInv
<1> QED  BY <1>1, QueueInvariant, PTL

\* The duplicate index and the heap hold the same counters, each once.
THEOREM QueueIndexMatchesHeap == Spec => []IndexMatchesHeap
<1>1. IInv => IndexMatchesHeap
  BY DEF IInv, WellFormed, IndexIsExact, IndexMatchesHeap
<1> QED  BY <1>1, QueueInvariant, PTL

\* Nothing that waits in the heap has been passed by the play position.
THEOREM QueueStaysAhead == Spec => []QueuedIsAhead
<1>1. IInv => QueuedIsAhead
  BY DEF IInv, WellFormed, AheadOfPosition, QueuedIsAhead
<1> QED  BY <1>1, QueueInvariant, PTL

\* There are never more than two fill-ins in a row.
THEOREM QueueGapBounded == Spec => []GapBounded
<1>1. IInv => GapBounded
  BY DEF IInv, WellFormed, GapIsClosing, BookKeeping, GapBounded
<1> QED  BY <1>1, QueueInvariant, PTL

\* The length qualityStatement() prints is the length of the queue.
THEOREM QueueLength == Spec => []LengthIsPushedMinusPopped
<1>1. IInv => LengthIsPushedMinusPopped
  BY DEF IInv, BookKeeping
<1> QED  BY <1>1, QueueInvariant, PTL

\* Each packet push() took is waiting, played once or dropped by a
\* fast-forward, and no number is played after it was concealed.
THEOREM QueueAccountsForPackets == Spec => []AcceptedPacketsAccountedFor
<1>1. IInv => AcceptedPacketsAccountedFor
  BY DEF IInv, BookKeeping
<1> QED  BY <1>1, QueueInvariant, PTL

\* The consumer is given strictly increasing numbers between two resets.
THEOREM QueueGivesOutInOrder == Spec => GivenOutInOrder
<1>1. IInv /\ TryPop => \A old \in GivenOut : old < element'.ctr
  <2> SUFFICES ASSUME IInv, TryPop, NEW old \in GivenOut
               PROVE  old < element'.ctr
    OBVIOUS
  <2>1. /\ old \in Nat /\ old <= queue.lastPopped /\ queue.lastPopped \in Nat
        /\ WellFormed(queue)
    BY DEF IInv, BookKeeping, TypeOK, GivenOut
  <2>2. CASE PopPacket
    <3>1. element'.ctr = TopCounter(queue) /\ queue.packetQueue # {}
      BY <2>2 DEF PopPacket, PoppedElement
    <3>2. TopCounter(queue) \in Nat /\ TopCounter(queue) > queue.lastPopped
      BY <2>1, <3>1, TopIsOldest
    <3> QED  BY <2>1, <3>1, <3>2
  <2>3. CASE PopSubstitute
    <3>1. /\ element'.ctr = FillInCounter(queue) /\ queue.packetQueue # {}
          /\ ~IsExpected(queue)
      BY <2>3 DEF PopSubstitute, PoppedElement
    <3>2. FillInCounter(queue) \in Nat /\ FillInCounter(queue) > queue.lastPopped
      BY <2>1, <3>1, PopFillInKeepsWellFormed
    <3> QED  BY <2>1, <3>1, <3>2
  <2> QED  BY <2>2, <2>3 DEF TryPop
<1> QED  BY <1>1, QueueInvariant, PTL DEF GivenOutInOrder

\* Every step of the queue is a step of ordered playout, or changes nothing
\* that ordered playout can see.
LEMMA StepIsPlayoutStep ==
  ASSUME IInv, [Next]_vars
  PROVE  [Playout!Next]_(Playout!vars)
<1>1. /\ WellFormed(queue) /\ queue \in Queue /\ queue.lastPopped \in Nat
      /\ Counters(queue) \subseteq 0..MaxCounter /\ MaxCounter \in Nat
  BY QueueAssumption DEF IInv, TypeOK, WellFormed, Queue
<1>2. ASSUME NEW p \in ArrivingPackets, Push(p)
      PROVE  Playout!Accept \/ UNCHANGED Playout!vars
  <2>1. p \in Packet /\ queue' = PushPacket(queue, p)
    BY <1>2, ArrivingType DEF Push
  <2>2. CASE HasBeenPushedBefore(queue, p)
    BY <2>1, <2>2 DEF PushPacket, Playout!vars
  <2>3. CASE ~HasBeenPushedBefore(queue, p)
    <3>1. /\ Counters(queue') = Counters(queue) \cup {p.ctr}
          /\ p.ctr \notin Counters(queue) /\ p.ctr > queue.lastPopped
          /\ queue'.lastPopped = queue.lastPopped
          /\ queue'.hasPoppedData = queue.hasPoppedData
      BY <1>1, <2>1, <2>3, PushKeepsWellFormed
    <3> QED  BY <3>1 DEF Playout!Accept
  <2> QED  BY <2>2, <2>3
<1>3. ASSUME PopPacket PROVE Playout!Play
  <2>1. /\ queue.packetQueue # {} /\ IsExpected(queue)
        /\ queue' = PopReal(queue)
    BY <1>3 DEF PopPacket, AfterPop
  <2>2. /\ Counters(queue') = Counters(queue) \ {TopCounter(queue)}
        /\ queue'.lastPopped = TopCounter(queue)
        /\ queue'.hasPoppedData = TRUE
    BY <1>1, <2>1, PopRealKeepsWellFormed
  <2>3. Counters(queue) # {}
    BY <1>1, <2>1, CountersType
  <2>4. queue.hasPoppedData => TopCounter(queue) = queue.lastPopped + 1
    BY <2>1 DEF IsExpected
  <2> QED  BY <2>2, <2>3, <2>4 DEF Playout!Play, TopCounter, Min, Playout!Min
<1>4. ASSUME PopSubstitute PROVE Playout!Conceal
  <2>1. /\ queue.packetQueue # {} /\ ~IsExpected(queue)
        /\ queue' = PopFillIn(queue)
    BY <1>4 DEF PopSubstitute, AfterPop
  <2>2. /\ Counters(queue') = Counters(queue)
        /\ queue'.lastPopped > queue.lastPopped
        /\ queue'.lastPopped < TopCounter(queue)
        /\ queue'.hasPoppedData = queue.hasPoppedData
        /\ queue.hasPoppedData
    BY <1>1, <2>1, PopFillInKeepsWellFormed
  <2>3. Counters(queue) # {}
    BY <1>1, <2>1, CountersType
  <2> QED  BY <2>2, <2>3 DEF Playout!Conceal, TopCounter, Min, Playout!Min
<1>5. ASSUME NEW n \in RetainedSizes, FastForward(n) PROVE Playout!Skip
  <2> DEFINE gone == {p.ctr : p \in Discarded(queue, n)}
  <2>1. /\ n \in Nat /\ Discarded(queue, n) # {}
        /\ queue' = FastForwardToSize(queue, n)
    BY <1>5, QueueAssumption DEF FastForward
  <2>2. gone # {}
    BY <2>1
  <2>3. /\ WellFormed(queue')
        /\ Counters(queue') = Counters(queue) \ gone
        /\ gone \subseteq Counters(queue)
        /\ \A c \in gone : c <= queue'.lastPopped
        /\ queue'.lastPopped >= queue.lastPopped
        /\ queue'.hasPoppedData = FALSE
    BY <1>1, <2>1, FastForwardKeepsWellFormed
  <2> HIDE DEF gone
  <2>4. \A kept \in Counters(queue') : kept > queue'.lastPopped
    BY <2>3 DEF WellFormed, AheadOfPosition
  <2> QED  BY <2>2, <2>3, <2>4 DEF Playout!Skip
<1>6. ASSUME Reset PROVE Playout!Restart
  BY <1>6, EmptyIsWellFormed DEF Reset, EmptyQueue, Playout!Restart
<1>7. ASSUME UNCHANGED vars PROVE UNCHANGED Playout!vars
  BY <1>7 DEF vars, Playout!vars, Counters
<1> QED
  BY <1>2, <1>3, <1>4, <1>5, <1>6, <1>7 DEF Next, TryPop, Playout!Next

\* The queue implements ordered playout for every range of counters: each
\* packet ahead of the position is played once or skipped with everything
\* older, and in a running stream only the direct successor is played.
THEOREM QueueImplementsOrderedPlayout == Spec => ImplementsOrderedPlayout
<1>1. Init => Playout!Init
  BY EmptyIsWellFormed DEF Init, EmptyQueue, Playout!Init
<1>2. IInv /\ [Next]_vars => [Playout!Next]_(Playout!vars)
  BY StepIsPlayoutStep
<1> QED
  BY <1>1, <1>2, QueueInvariant, PTL DEF Spec, ImplementsOrderedPlayout, Playout!Spec
=============================================================================
