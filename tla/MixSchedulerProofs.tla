-------------------------- MODULE MixSchedulerProofs --------------------------
(***************************************************************************)
(* The server's scheduling for any number of clients, any buffer lengths   *)
(* and any traffic.  The first part has one lemma per method of            *)
(* ClientState: what it keeps of ClientInv, and what it does to the length *)
(* of the queue.  The second part shows that no interleaving of the two    *)
(* threads' calls breaks the scheduler's invariant.  The third part counts *)
(* the ticks in flight and shows that the padding of the first connection  *)
(* lasts.                                                                  *)
(***************************************************************************)
EXTENDS MixScheduler, StreamQueueProofs

\* What the lock of a ClientState protects.
ClientInv(cs) ==
  /\ cs \in Client
  /\ WellFormed(cs.queue)
  /\ Counters(cs.queue) \subseteq 0..(CounterModulus - 1)
  /\ cs.hasQueue <=> cs.state # "Disconnected"
  /\ ~cs.hasQueue => cs.queue = EmptyQueue
  /\ cs.hasQueue => cs.hasConnected
  /\ cs.state = "Disconnecting" => cs.queue.packetQueue = {}

\* An observation that is still current was made on an empty queue.
ObservedInv ==
  \A c \in Clients :
    observed[c] # NoObservation =>
      /\ observed[c] <= client[c].activityGeneration
      /\ observed[c] = client[c].activityGeneration /\ client[c].state = "Connected" =>
           client[c].queue.packetQueue = {}

\* A client found ready in the first loop stays ready until it is popped.
ReadyInv ==
  mixPc \in {"expire", "pressure"} =>
    /\ \A c \in counted : c < cursor
    /\ \A c \in ready : IsOpen(client[c]) /\ Size(client[c].queue) > Jitter
    /\ \A c \in Clients : observed[c] = NoObservation

\* In an all-ready mix the clients before the cursor have contributed and kept
\* their reserve, the others still have a packet to spare.
MixInv ==
  trigger = "AllClientsReady" /\ mixPc \in {"pop", "peek", "mark"} =>
    /\ mixPc = "peek" => cursor \notin counted
    /\ \A c \in counted :
         /\ IsOpen(client[c]) /\ observed[c] = NoObservation
         /\ Size(client[c].queue) >= Jitter
         /\ IF mixPc = "mark" \/ c < cursor THEN incoming[c] # NoPacket
            ELSE Size(client[c].queue) > Jitter

IInv ==
  /\ TypeOK
  /\ \A c \in Clients : ClientInv(client[c])
  /\ ObservedInv /\ ReadyInv /\ MixInv /\ LatencyBounded

-----------------------------------------------------------------------------
(* ClientState *)

\* A ClientState that has just been constructed satisfies the invariant.
LEMMA NewClientInv == ClientInv(NewClient)
<1>1. EmptyQueue \in Queue /\ EmptyQueue.packetQueue = {}
  BY EmptyIsWellFormed DEF WellFormed, EmptyQueue
<1> QED
  BY <1>1, EmptyIsWellFormed DEF ClientInv, NewClient, Client

\* An audio packet is its counter.
LEMMA AudioPacketType ==
  ASSUME NEW ctr \in Nat
  PROVE  AudioPacket(ctr) \in Packet /\ AudioPacket(ctr).ctr = ctr
BY DEF AudioPacket, Packet, NoFec

\* Pushing a finite set of packets with different counters keeps a queue well
\* formed and adds no counters but theirs.
LEMMA PushAllKeepsWellFormed ==
  ASSUME NEW q, WellFormed(q), NEW S, S \subseteq Packet, IsFiniteSet(S),
         \A p, r \in S : p.ctr = r.ctr => p = r
  PROVE  /\ WellFormed(PushAll(q, S))
         /\ PushAll(q, S).lastPopped = q.lastPopped
         /\ Counters(PushAll(q, S)) \subseteq Counters(q) \cup {p.ctr : p \in S}
<1> DEFINE new == {p \in S : ~HasBeenPushedBefore(q, p)}
           newCounters == {p.ctr : p \in new}
           r == PushAll(q, S)
<1>1. /\ q \in Queue /\ IsFiniteSet(q.packetQueue) /\ IndexIsExact(q)
      /\ AheadOfPosition(q) /\ GapIsClosing(q)
  BY DEF WellFormed
<1>2. r = [q EXCEPT !.packetQueue = q.packetQueue \cup new,
                    !.currentlyInQueue = q.currentlyInQueue \cup newCounters]
  BY DEF PushAll
<1>3. \A p \in new : /\ p \in Packet /\ p.ctr \in Nat /\ p.ctr > q.lastPopped
                     /\ p.ctr \notin Counters(q)
  BY <1>1 DEF HasBeenPushedBefore, TooLateOrDuplicate, IndexIsExact, Packet, Queue
<1>4. new \subseteq S /\ \A p, s \in new : p.ctr = s.ctr => p = s
  OBVIOUS
<1>5. IsFiniteSet(new)
  BY <1>4, FS_Subset
<1>6. newCounters \subseteq Nat /\ new \subseteq Packet
  BY <1>3
<1>7. /\ \A c \in newCounters : c > q.lastPopped
      /\ newCounters \subseteq {p.ctr : p \in S}
  BY <1>3, <1>4
<1> HIDE DEF new, r
<1>8. /\ r \in Queue /\ r.packetQueue = q.packetQueue \cup new
      /\ r.currentlyInQueue = q.currentlyInQueue \cup newCounters
      /\ r.lastPopped = q.lastPopped /\ r.hasPoppedData = q.hasPoppedData
      /\ r.currentGap = q.currentGap
  <2> HIDE DEF newCounters
  <2> QED  BY <1>1, <1>2, <1>6 DEF Queue
<1>9. Counters(r) = Counters(q) \cup newCounters
  BY <1>8 DEF Counters
<1>10. IsFiniteSet(r.packetQueue)
  <2>1. IsFiniteSet(q.packetQueue \cup new)
    BY <1>1, <1>5, FS_Union
  <2> QED  BY <1>8, <2>1
<1>11. IndexIsExact(r)
  <2>1. r.currentlyInQueue = Counters(r)
    BY <1>1, <1>8, <1>9 DEF IndexIsExact
  <2>2. \A p, s \in r.packetQueue : p.ctr = s.ctr => p = s
    BY <1>1, <1>3, <1>4, <1>8 DEF IndexIsExact, Counters
  <2> QED  BY <2>1, <2>2 DEF IndexIsExact
<1> HIDE DEF newCounters
<1>12. AheadOfPosition(r)
  BY <1>1, <1>7, <1>8, <1>9 DEF AheadOfPosition
<1>13. GapIsClosing(r)
  BY <1>1, <1>8, <1>9 DEF GapIsClosing
<1> QED
  BY <1>7, <1>8, <1>9, <1>10, <1>11, <1>12, <1>13 DEF WellFormed, r

\* The padding before counter ctr: finitely many packets in the range of the
\* counters, none of them ctr itself.
LEMMA PaddingType ==
  ASSUME NEW ctr \in 0..(CounterModulus - 1)
  PROVE  LET S == {PrePadding(ctr, i) : i \in 1..Prefill}
         IN  /\ S \subseteq Packet /\ IsFiniteSet(S)
             /\ \A p, r \in S : p.ctr = r.ctr => p = r
             /\ \A p \in S : p.ctr \in 0..(CounterModulus - 1) /\ p.ctr # ctr
<1> DEFINE S == {PrePadding(ctr, i) : i \in 1..Prefill}
           f == [i \in 1..Prefill |-> PrePadding(ctr, i)]
<1>0. CounterModulus \in Nat \ {0} /\ Prefill \in Nat /\ Prefill < CounterModulus
  BY ClientAssumption
<1>1. \A i \in 1..Prefill :
        (ctr - i) % CounterModulus \in 0..(CounterModulus - 1)
  BY <1>0
<1>2. \A i \in 1..Prefill : (ctr - i) % CounterModulus # ctr
  <2> SUFFICES ASSUME NEW i \in 1..Prefill  PROVE (ctr - i) % CounterModulus # ctr
    OBVIOUS
  <2>1. CASE i <= ctr
    <3>1. ctr - i \in 0..(CounterModulus - 1)
      BY <1>0, <2>1
    <3>2. (ctr - i) % CounterModulus = ctr - i
      BY <1>0, <3>1
    <3> QED  BY <1>0, <3>2
  <2>2. CASE i > ctr
    <3>1. (ctr - i) + CounterModulus \in 0..(CounterModulus - 1)
      BY <1>0, <2>2
    <3>2. (ctr - i) % CounterModulus = (ctr - i) + CounterModulus
      BY <1>0, <3>1, <2>2
    <3> QED  BY <1>0, <3>2
  <2> QED  BY <1>0, <2>1, <2>2
<1>3. \A i \in 1..Prefill :
        /\ PrePadding(ctr, i) \in Packet
        /\ PrePadding(ctr, i).ctr = (ctr - i) % CounterModulus
        /\ PrePadding(ctr, i).fec = NoFec
  BY <1>1, <1>0 DEF PrePadding, AudioPacket, Packet, NoFec
<1>4. S \subseteq Packet
  BY <1>3
<1>5. IsFiniteSet(S)
  <2>1. IsFiniteSet(1..Prefill)
    BY <1>0, FS_Interval
  <2>2. f \in Surjection(1..Prefill, S)
    BY DEF Surjection
  <2> HIDE DEF f, S
  <2> QED  BY <2>1, <2>2, FS_Surjection
<1>6. \A p, r \in S : p.ctr = r.ctr => p = r
  <2>1. \A p \in S : p = AudioPacket(p.ctr)
    BY <1>3 DEF PrePadding, AudioPacket
  <2> QED  BY <2>1
<1>7. \A p \in S : p.ctr \in 0..(CounterModulus - 1) /\ p.ctr # ctr
  BY <1>1, <1>2, <1>3
<1> QED  BY <1>4, <1>5, <1>6, <1>7

\* The queue push() works on is well formed; an open client's is its own; and
\* a client without a queue gets one that takes any packet.
LEMMA QueueForPushInv ==
  ASSUME NEW cs, ClientInv(cs), NEW ctr \in 1..(CounterModulus - 1)
  PROVE  LET q == QueueForPush(cs, ctr)
         IN  /\ WellFormed(q)
             /\ Counters(q) \subseteq 0..(CounterModulus - 1)
             /\ cs.hasQueue => q = cs.queue
             /\ ~cs.hasQueue => IsQueued(cs, ctr)
<1> DEFINE S == {PrePadding(ctr, i) : i \in 1..Prefill}
           q == QueueForPush(cs, ctr)
<1>0. CounterModulus \in Nat \ {0} /\ ctr \in Nat /\ ctr > 0
  BY ClientAssumption
<1>1. /\ S \subseteq Packet /\ IsFiniteSet(S)
      /\ \A p, r \in S : p.ctr = r.ctr => p = r
      /\ \A p \in S : p.ctr \in 0..(CounterModulus - 1) /\ p.ctr # ctr
  BY <1>0, PaddingType
<1>2. /\ cs.hasQueue => cs.hasConnected
      /\ WellFormed(cs.queue)
      /\ Counters(cs.queue) \subseteq 0..(CounterModulus - 1)
      /\ cs.hasQueue \in BOOLEAN /\ cs.hasConnected \in BOOLEAN
  BY DEF ClientInv, Client
<1>3. AudioPacket(ctr).ctr = ctr
  BY <1>0, AudioPacketType
<1>4. CASE cs.hasQueue
  BY <1>2, <1>4 DEF QueueForPush
<1>5. CASE ~cs.hasQueue
  <2>1. WellFormed(EmptyQueue) /\ Counters(EmptyQueue) = {} /\ EmptyQueue.lastPopped = 0
    BY EmptyIsWellFormed DEF EmptyQueue
  <2>2. CASE cs.hasConnected
    <3>1. q = EmptyQueue
      BY <1>5, <2>2 DEF QueueForPush
    <3>2. EmptyQueue.currentlyInQueue = {}
      BY DEF EmptyQueue
    <3>3. IsQueued(cs, ctr)
      BY <1>0, <1>3, <2>1, <3>1, <3>2
         DEF IsQueued, HasBeenPushedBefore, TooLateOrDuplicate
    <3> QED  BY <1>5, <2>1, <3>1, <3>3
  <2>3. CASE ~cs.hasConnected
    <3>1. q = PushAll(EmptyQueue, S)
      BY <1>5, <2>3 DEF QueueForPush
    <3> HIDE DEF S
    <3>2. /\ WellFormed(q) /\ q.lastPopped = 0
          /\ Counters(q) \subseteq {p.ctr : p \in S}
      BY <1>1, <2>1, <3>1, PushAllKeepsWellFormed
    <3>3. ctr \notin Counters(q) /\ Counters(q) \subseteq 0..(CounterModulus - 1)
      BY <1>1, <3>2
    <3>4. ctr \notin q.currentlyInQueue
      BY <3>2, <3>3 DEF WellFormed, IndexIsExact
    <3>5. IsQueued(cs, ctr)
      BY <1>0, <1>3, <3>2, <3>4 DEF IsQueued, HasBeenPushedBefore, TooLateOrDuplicate
    <3> QED  BY <1>5, <3>2, <3>3, <3>5
  <2> QED  BY <1>2, <2>2, <2>3
<1> QED  BY <1>2, <1>4, <1>5

\* push() keeps the invariant, counts as activity, and makes the client open;
\* the queue does not get shorter, and stays as it is if the packet is refused.
LEMMA PushToClientInv ==
  ASSUME NEW cs, ClientInv(cs), NEW ctr \in 1..(CounterModulus - 1)
  PROVE  LET new == PushToClient(cs, ctr)
         IN  /\ ClientInv(new) /\ IsOpen(new) /\ new.state = "Connected"
             /\ new.activityGeneration = cs.activityGeneration + 1
             /\ IsOpen(cs) => Size(new.queue) >= Size(cs.queue)
             /\ ~IsQueued(cs, ctr) => IsOpen(cs) /\ new.queue = cs.queue
<1> DEFINE q == QueueForPush(cs, ctr)
           p == AudioPacket(ctr)
           qq == PushPacket(q, p)
           new == PushToClient(cs, ctr)
<1>0. CounterModulus \in Nat \ {0} /\ ctr \in Nat
  BY ClientAssumption
<1>1. /\ WellFormed(q) /\ Counters(q) \subseteq 0..(CounterModulus - 1)
      /\ cs.hasQueue => q = cs.queue
      /\ ~cs.hasQueue => IsQueued(cs, ctr)
  BY QueueForPushInv
<1>2. p \in Packet /\ p.ctr = ctr
  BY <1>0, AudioPacketType
<1>3. IsQueued(cs, ctr) <=> ~HasBeenPushedBefore(q, p)
  BY DEF IsQueued
<1>4. cs \in Client /\ (cs.hasQueue <=> cs.state # "Disconnected")
  BY DEF ClientInv
<1>5. new = [cs EXCEPT !.state = "Connected", !.hasQueue = TRUE, !.hasConnected = TRUE,
                       !.activityGeneration = cs.activityGeneration + 1,
                       !.queue = qq]
  BY DEF PushToClient
<1>6. HasBeenPushedBefore(q, p) => qq = q
  BY DEF PushPacket
<1> HIDE DEF q, p
<1>7. /\ WellFormed(qq) /\ Counters(qq) \subseteq 0..(CounterModulus - 1)
      /\ Size(qq) >= Size(q)
  <2>1. Size(q) \in Nat
    BY <1>1, FS_CardinalityType DEF WellFormed, Size
  <2>2. CASE HasBeenPushedBefore(q, p)
    BY <1>1, <1>6, <2>1, <2>2
  <2>3. CASE ~HasBeenPushedBefore(q, p)
    <3>1. /\ WellFormed(qq) /\ Counters(qq) = Counters(q) \cup {ctr}
          /\ Size(qq) = Size(q) + 1
      BY <1>1, <1>2, <2>3, PushKeepsWellFormed
    <3> QED  BY <1>0, <1>1, <2>1, <3>1
  <2> QED  BY <2>2, <2>3
<1> HIDE DEF qq, new
<1>8. /\ new \in Client /\ new.queue = qq /\ new.state = "Connected"
      /\ new.hasQueue = TRUE /\ new.hasConnected = TRUE
      /\ new.activityGeneration = cs.activityGeneration + 1
  <2>1. qq \in Queue
    BY <1>7 DEF WellFormed
  <2> DEFINE g == cs.activityGeneration + 1
  <2>2. g \in Nat
    BY <1>4 DEF Client
  <2>3. new = [cs EXCEPT !.state = "Connected", !.hasQueue = TRUE,
                         !.hasConnected = TRUE, !.activityGeneration = g, !.queue = qq]
    BY <1>5
  <2>4. g = cs.activityGeneration + 1
    OBVIOUS
  <2> HIDE DEF g
  <2>5. new \in Client /\ new.queue = qq /\ new.state = "Connected" /\ new.activityGeneration = g
    BY <1>4, <2>1, <2>2, <2>3 DEF Client
  <2>6. new.hasQueue = TRUE /\ new.hasConnected = TRUE
    BY <1>4, <2>3 DEF Client
  <2> QED  BY <2>4, <2>5, <2>6
<1>9. ClientInv(new) /\ IsOpen(new)
  BY <1>7, <1>8 DEF ClientInv, IsOpen
<1>10. IsOpen(cs) => Size(new.queue) >= Size(cs.queue)
  BY <1>1, <1>7, <1>8 DEF IsOpen
<1>11. ~IsQueued(cs, ctr) => IsOpen(cs) /\ new.queue = cs.queue
  BY <1>1, <1>3, <1>4, <1>6, <1>8 DEF IsOpen
<1> QED  BY <1>8, <1>9, <1>10, <1>11 DEF new

\* A queue that is replaced by a well-formed one of the same open client keeps
\* the client's invariant, unless the client is in its grace period.
LEMMA ReplaceQueueInv ==
  ASSUME NEW cs, ClientInv(cs), NEW q, WellFormed(q),
         Counters(q) \subseteq 0..(CounterModulus - 1),
         cs.hasQueue, cs.state # "Disconnecting"
  PROVE  LET new == [cs EXCEPT !.queue = q]
         IN  /\ ClientInv(new) /\ new.queue = q
             /\ new.state = cs.state /\ new.hasQueue = cs.hasQueue
             /\ new.activityGeneration = cs.activityGeneration
<1> DEFINE new == [cs EXCEPT !.queue = q]
<1>1. cs \in Client /\ q \in Queue
  BY DEF ClientInv, WellFormed
<1>2. /\ new \in Client /\ new.queue = q
      /\ new.state = cs.state /\ new.hasQueue = cs.hasQueue
      /\ new.hasConnected = cs.hasConnected
      /\ new.activityGeneration = cs.activityGeneration
  BY <1>1 DEF Client
<1> HIDE DEF new
<1>3. ClientInv(new)
  BY <1>2 DEF ClientInv
<1> QED  BY <1>2, <1>3 DEF new

\* A tryPop that succeeds keeps the invariant, gives out a number above zero
\* and takes at most one packet.
LEMMA TryPopInv ==
  ASSUME NEW cs, ClientInv(cs), TryPopSucceeds(cs)
  PROVE  LET new == AfterTryPop(cs)
         IN  /\ ClientInv(new) /\ IsOpen(new)
             /\ new.state = cs.state
             /\ new.activityGeneration = cs.activityGeneration
             /\ PoppedElement(cs.queue).ctr \in Nat
             /\ PoppedElement(cs.queue).ctr # NoPacket
             /\ Size(new.queue) <= Size(cs.queue)
             /\ Size(new.queue) >= Size(cs.queue) - 1
<1> DEFINE q == cs.queue
           qq == AfterPop(q)
           n == PoppedElement(q).ctr
<1>1. /\ WellFormed(q) /\ q.packetQueue # {} /\ q.lastPopped \in Nat
      /\ Counters(q) \subseteq 0..(CounterModulus - 1)
      /\ cs.hasQueue /\ cs.state # "Disconnecting" /\ cs.state # "Disconnected"
      /\ Size(q) \in Nat
  BY FS_CardinalityType DEF ClientInv, TryPopSucceeds, IsOpen, WellFormed, Queue, Size
<1>2. /\ WellFormed(qq) /\ Counters(qq) \subseteq 0..(CounterModulus - 1)
      /\ Size(qq) <= Size(q) /\ Size(qq) >= Size(q) - 1
      /\ n \in Nat /\ n > q.lastPopped
  <2>1. CASE IsExpected(q)
    <3>1. qq = PopReal(q) /\ n = TopCounter(q)
      BY <2>1 DEF AfterPop, PoppedElement
    <3>2. /\ WellFormed(PopReal(q)) /\ Size(PopReal(q)) = Size(q) - 1
          /\ Counters(PopReal(q)) = Counters(q) \ {TopCounter(q)}
      BY <1>1, PopRealKeepsWellFormed
    <3>3. TopCounter(q) \in Nat /\ TopCounter(q) > q.lastPopped
      BY <1>1, TopIsOldest
    <3> QED  BY <1>1, <3>1, <3>2, <3>3
  <2>2. CASE ~IsExpected(q)
    <3>1. qq = PopFillIn(q) /\ n = FillInCounter(q)
      BY <2>2 DEF AfterPop, PoppedElement
    <3>2. /\ WellFormed(PopFillIn(q)) /\ PopFillIn(q).packetQueue = q.packetQueue
          /\ Counters(PopFillIn(q)) = Counters(q)
          /\ FillInCounter(q) \in Nat /\ FillInCounter(q) > q.lastPopped
      BY <1>1, <2>2, PopFillInKeepsWellFormed
    <3>3. Size(PopFillIn(q)) = Size(q)
      BY <3>2 DEF Size
    <3> QED  BY <1>1, <3>1, <3>2, <3>3
  <2> QED  BY <2>1, <2>2
<1>3. n # NoPacket
  BY <1>1, <1>2 DEF NoPacket
<1> HIDE DEF n
<1> DEFINE new == AfterTryPop(cs)
<1>4. new = [cs EXCEPT !.queue = qq]
  BY DEF AfterTryPop
<1> HIDE DEF qq, new
<1>5. /\ ClientInv(new) /\ new.queue = qq
      /\ new.state = cs.state /\ new.hasQueue = cs.hasQueue
      /\ new.activityGeneration = cs.activityGeneration
  BY <1>1, <1>2, <1>4, ReplaceQueueInv
<1>6. IsOpen(new)
  BY <1>1, <1>5 DEF IsOpen
<1> QED  BY <1>2, <1>3, <1>5, <1>6 DEF n, new

\* applyQueuePressure keeps the invariant, changes nothing but the queue, and
\* leaves no more than the maximum; a queue that is not too long, an empty one
\* for instance, stays as it is.
LEMMA PressureInv ==
  ASSUME NEW cs, ClientInv(cs), NEW most \in Nat, NEW keep \in Nat, keep <= most
  PROVE  LET new == ApplyQueuePressure(cs, most, keep)
         IN  /\ ClientInv(new) /\ new.state = cs.state /\ new.hasQueue = cs.hasQueue
             /\ new.activityGeneration = cs.activityGeneration
             /\ QueueLength(new) <= most
             /\ cs.queue.packetQueue = {} => new = cs
<1> DEFINE q == cs.queue
           qq == FastForwardToSize(q, keep)
           new == ApplyQueuePressure(cs, most, keep)
<1>1. /\ WellFormed(q) /\ IsFiniteSet(q.packetQueue)
      /\ Counters(q) \subseteq 0..(CounterModulus - 1)
      /\ Size(q) \in Nat /\ CounterModulus - 1 \in Nat
  BY FS_CardinalityType, ClientAssumption DEF ClientInv, WellFormed, Size
<1>2. CASE IsOpen(cs) /\ Size(q) > most
  <2>1. q.packetQueue # {}
    BY <1>1, <1>2, FS_EmptySet DEF Size
  <2>2. cs.hasQueue /\ cs.state # "Disconnecting"
    BY <1>2, <2>1 DEF IsOpen, ClientInv
  <2>3. Size(qq) <= keep
    BY <1>1, FastForwardShortens
  <2>4. WellFormed(qq) /\ Counters(qq) \subseteq 0..(CounterModulus - 1)
    <3>1. CASE Discarded(q, keep) = {}
      <4>1. qq = q
        BY <3>1 DEF FastForwardToSize
      <4> QED  BY <1>1, <4>1
    <3>2. CASE Discarded(q, keep) # {}
      <4> DEFINE gone == {p.ctr : p \in Discarded(q, keep)}
      <4>1. WellFormed(qq) /\ Counters(qq) = Counters(q) \ gone
        BY <1>1, <3>2, FastForwardKeepsWellFormed
      <4> HIDE DEF gone
      <4> QED  BY <1>1, <4>1
    <3> QED  BY <3>1, <3>2
  <2>5. new = [cs EXCEPT !.queue = qq]
    BY <1>2 DEF ApplyQueuePressure
  <2>6. Size(qq) <= most
    <3>1. Size(qq) \in Nat
      BY <2>4, FS_CardinalityType DEF WellFormed, Size
    <3> QED  BY <2>3, <3>1
  <2> HIDE DEF qq, new
  <2>7. /\ ClientInv(new) /\ new.queue = qq
        /\ new.state = cs.state /\ new.hasQueue = cs.hasQueue
        /\ new.activityGeneration = cs.activityGeneration
    BY <2>2, <2>4, <2>5, ReplaceQueueInv
  <2>8. QueueLength(new) <= most
    BY <2>6, <2>7 DEF QueueLength
  <2> QED  BY <2>1, <2>7, <2>8 DEF new
<1>3. CASE ~(IsOpen(cs) /\ Size(q) > most)
  <2>1. new = cs
    BY <1>3 DEF ApplyQueuePressure
  <2>2. QueueLength(cs) <= most
    BY <1>1, <1>3 DEF QueueLength
  <2> QED  BY <2>1, <2>2
<1> QED  BY <1>2, <1>3

\* markUnderrun keeps the invariant if a current observation was made on an
\* empty queue; it never touches the queue.
LEMMA MarkUnderrunInv ==
  ASSUME NEW cs, ClientInv(cs), NEW gen, NEW t \in Nat,
         gen = cs.activityGeneration /\ cs.state = "Connected" => cs.queue.packetQueue = {}
  PROVE  LET new == MarkUnderrun(cs, gen, t)
         IN  /\ ClientInv(new) /\ new.queue = cs.queue /\ new.hasQueue = cs.hasQueue
             /\ new.activityGeneration = cs.activityGeneration
             /\ (IsOpen(new) <=> IsOpen(cs))
             /\ new.state = "Connected" => cs.state = "Connected"
<1> DEFINE new == MarkUnderrun(cs, gen, t)
<1>1. CASE cs.state # "Connected" \/ cs.activityGeneration # gen
  BY <1>1 DEF MarkUnderrun
<1>2. CASE cs.state = "Connected" /\ cs.activityGeneration = gen
  <2> DEFINE d == t + Grace
  <2>1. d \in Nat /\ cs \in Client
    BY ClientAssumption DEF ClientInv
  <2>2. new = [cs EXCEPT !.state = "Disconnecting", !.disconnectDeadline = d]
    BY <1>2 DEF MarkUnderrun
  <2> HIDE DEF d, new
  <2>3. /\ new \in Client /\ new.state = "Disconnecting" /\ new.queue = cs.queue
        /\ new.hasQueue = cs.hasQueue /\ new.hasConnected = cs.hasConnected
        /\ new.activityGeneration = cs.activityGeneration
    BY <2>1, <2>2 DEF Client
  <2>4. ClientInv(new) /\ (IsOpen(new) <=> IsOpen(cs))
    BY <1>2, <2>3 DEF ClientInv, IsOpen
  <2> QED  BY <2>3, <2>4 DEF new
<1> QED  BY <1>1, <1>2

\* disconnectIfGraceExpired keeps the invariant; a client that is not in its
\* grace period stays as it is, and one that is ends with no queue or its own.
LEMMA DisconnectInv ==
  ASSUME NEW cs, ClientInv(cs), NEW t \in Nat
  PROVE  LET new == DisconnectIfGraceExpired(cs, t)
         IN  /\ ClientInv(new) /\ new.activityGeneration = cs.activityGeneration
             /\ cs.state # "Disconnecting" => new = cs
             /\ cs.state = "Disconnecting" => new.queue.packetQueue = {}
<1> DEFINE new == DisconnectIfGraceExpired(cs, t)
<1>1. CASE cs.state # "Disconnecting" \/ t < cs.disconnectDeadline
  BY <1>1 DEF DisconnectIfGraceExpired, ClientInv
<1>2. CASE ~(cs.state # "Disconnecting" \/ t < cs.disconnectDeadline)
  <2>1. new = [cs EXCEPT !.state = "Disconnected", !.hasQueue = FALSE, !.queue = EmptyQueue]
    BY <1>2 DEF DisconnectIfGraceExpired
  <2>2. cs \in Client /\ EmptyQueue \in Queue /\ EmptyQueue.packetQueue = {}
    BY EmptyIsWellFormed DEF ClientInv, WellFormed, EmptyQueue
  <2> HIDE DEF new
  <2>3. /\ new \in Client /\ new.state = "Disconnected" /\ new.queue = EmptyQueue
        /\ new.activityGeneration = cs.activityGeneration
    BY <2>1, <2>2 DEF Client
  <2>4. new.hasQueue = FALSE
    BY <2>1, <2>2 DEF Client
  <2>5. ClientInv(new)
    BY <2>3, <2>4, EmptyIsWellFormed DEF ClientInv
  <2> QED  BY <1>2, <2>2, <2>3, <2>5 DEF new
<1> QED  BY <1>1, <1>2

-----------------------------------------------------------------------------
(* The two threads *)

\* The length of a queue is a number.
LEMMA SizeType ==
  ASSUME NEW cs, ClientInv(cs)
  PROVE  Size(cs.queue) \in Nat /\ (cs.queue.packetQueue = {} <=> Size(cs.queue) = 0)
BY FS_CardinalityType, FS_EmptySet DEF ClientInv, WellFormed, Size

\* A locked call changes one client and leaves the others alone.
LEMMA OneClientChanges ==
  ASSUME IInv, NEW d \in Clients, NEW new, ClientInv(new),
         client' = [client EXCEPT ![d] = new]
  PROVE  /\ client' \in [Clients -> Client]
         /\ client'[d] = new
         /\ \A c \in Clients : c # d => client'[c] = client[c]
         /\ \A c \in Clients : ClientInv(client'[c])
<1>1. client \in [Clients -> Client] /\ new \in Client
  BY DEF IInv, TypeOK, ClientInv
<1> QED  BY <1>1 DEF IInv

\* Initially no client is connected and the mixer waits.
LEMMA InitIInv == Init => IInv
<1> SUFFICES ASSUME Init PROVE IInv
  OBVIOUS
<1>1. \A c \in Clients : client[c] = NewClient
  BY DEF Init
<1>2. ClientInv(NewClient) /\ NewClient \in Client
  BY NewClientInv DEF ClientInv
<1>3. TypeOK
  <2>1. steady \in BOOLEAN /\ wakeAgain \in BOOLEAN
    BY DEF Init
  <2>2. /\ ticks \in Nat /\ clock \in Nat /\ arrivals \in 0..MaxArrivals
        /\ cursor \in 1..(NumClients + 1) /\ now \in Nat
    BY SchedulerAssumption DEF Init
  <2>3. /\ client \in [Clients -> Client] /\ incoming \in [Clients -> Nat]
        /\ observed \in [Clients -> Nat \cup {NoObservation}]
    BY <1>2 DEF Init, NoPacket
  <2> QED  BY <2>1, <2>2, <2>3 DEF Init, TypeOK
<1>4. \A c \in Clients : QueueLength(client[c]) = 0
  BY <1>1 DEF QueueLength, IsOpen, NewClient
<1>5. LatencyBounded
  BY <1>4, SchedulerAssumption DEF LatencyBounded
<1>6. ObservedInv /\ ReadyInv /\ MixInv
  BY DEF Init, ObservedInv, ReadyInv, MixInv
<1> QED  BY <1>1, <1>2, <1>3, <1>5, <1>6 DEF IInv

\* A packet that arrives at any point of the mixer's pass keeps the invariant:
\* it makes what the mixer observed of the client out of date, and what is
\* ready stays ready.
LEMMA AcceptAudioIInv ==
  ASSUME IInv, NEW d \in Clients, NEW ctr \in FirstCounter..MaxCounter, AcceptAudio(d, ctr)
  PROVE  IInv'
<1> DEFINE new == PushToClient(client[d], ctr)
<1>1. ctr \in 1..(CounterModulus - 1)
  BY SchedulerAssumption, ClientAssumption
<1>2. TypeOK /\ ClientInv(client[d])
  BY DEF IInv
<1>3. /\ ClientInv(new) /\ IsOpen(new) /\ new.state = "Connected"
      /\ new.activityGeneration = client[d].activityGeneration + 1
      /\ IsOpen(client[d]) => Size(new.queue) >= Size(client[d].queue)
      /\ ~IsQueued(client[d], ctr) => IsOpen(client[d]) /\ new.queue = client[d].queue
  BY <1>1, <1>2, PushToClientInv
<1>4. /\ acceptPc = "wait" /\ arrivals < MaxArrivals /\ arrivals' = arrivals + 1
      /\ client' = [client EXCEPT ![d] = new]
      /\ acceptPc' = IF IsQueued(client[d], ctr) THEN "notify" ELSE "wait"
      /\ UNCHANGED <<ticks, clock, steady, mixPc, cursor, now, counted, ready,
                     trigger, incoming, observed, wakeAgain>>
  BY DEF AcceptAudio, localVars
<1> HIDE DEF new
<1>5. /\ client' \in [Clients -> Client] /\ client'[d] = new
      /\ \A c \in Clients : c # d => client'[c] = client[c]
      /\ \A c \in Clients : ClientInv(client'[c])
  BY <1>3, <1>4, OneClientChanges
<1>6. TypeOK'
  BY <1>2, <1>4, <1>5, SchedulerAssumption DEF TypeOK
<1>7. Size(new.queue) \in Nat /\ Size(client[d].queue) \in Nat
  BY <1>2, <1>3, SizeType
<1>8. ObservedInv'
  <2>1. ObservedInv /\ client[d].activityGeneration \in Nat
        /\ observed \in [Clients -> Nat \cup {NoObservation}]
    BY <1>2 DEF IInv, ClientInv, Client, TypeOK
  <2>2. observed[d] # NoObservation =>
          observed[d] \in Nat /\ observed[d] <= client[d].activityGeneration
    BY <2>1 DEF ObservedInv
  <2>3. observed[d] # NoObservation =>
          /\ observed[d] <= new.activityGeneration
          /\ observed[d] # new.activityGeneration
    BY <1>3, <2>1, <2>2
  <2>4. observed' = observed
    BY <1>4
  <2> QED  BY <1>5, <2>1, <2>3, <2>4 DEF ObservedInv
<1>9. ReadyInv'
  <2>1. ReadyInv /\ ready \subseteq Clients
    BY <1>2 DEF IInv, TypeOK
  <2>2. \A c \in ready : IsOpen(client[c]) /\ Size(client[c].queue) > Jitter =>
                         IsOpen(client'[c]) /\ Size(client'[c].queue) > Jitter
    BY <1>3, <1>5, <1>7, <2>1, SchedulerAssumption
  <2> QED  BY <1>4, <2>1, <2>2 DEF ReadyInv
<1>10. MixInv'
  <2>1. MixInv /\ counted \subseteq Clients
    BY <1>2 DEF IInv, TypeOK
  <2>2. \A c \in counted :
          IsOpen(client[c]) =>
            /\ IsOpen(client'[c])
            /\ Size(client[c].queue) > Jitter => Size(client'[c].queue) > Jitter
            /\ Size(client[c].queue) >= Jitter => Size(client'[c].queue) >= Jitter
    BY <1>3, <1>5, <1>7, <2>1, SchedulerAssumption
  <2> QED  BY <1>4, <2>1, <2>2 DEF MixInv
<1>11. LatencyBounded'
  <2>1. CASE IsQueued(client[d], ctr)
    BY <1>4, <2>1 DEF LatencyBounded
  <2>2. CASE ~IsQueued(client[d], ctr)
    <3>1. \A c \in Clients : QueueLength(client'[c]) = QueueLength(client[c])
      BY <1>3, <1>5, <2>2 DEF QueueLength
    <3>2. LatencyBounded
      BY DEF IInv
    <3> QED  BY <1>4, <3>1, <3>2 DEF LatencyBounded
  <2> QED  BY <2>1, <2>2
<1> QED  BY <1>5, <1>6, <1>8, <1>9, <1>10, <1>11 DEF IInv

\* Wake-ups and the clock leave the clients and the pass alone.
LEMMA TickIInv ==
  ASSUME IInv, WakeMixer \/ AcceptTimeout \/ AdvanceClock
  PROVE  IInv'
<1>1. /\ TypeOK /\ ObservedInv /\ ReadyInv /\ MixInv /\ LatencyBounded
      /\ \A c \in Clients : ClientInv(client[c])
  BY DEF IInv
<1>2. UNCHANGED <<client, mixPc, cursor, now, counted, ready, trigger, incoming,
                  observed, wakeAgain>>
  BY DEF WakeMixer, AcceptTimeout, AdvanceClock, clientVars, localVars
<1>3. TypeOK'
  <2>1. steady' \in BOOLEAN
    BY <1>1 DEF TypeOK, WakeMixer, AcceptTimeout, AdvanceClock, clientVars
  <2>2. /\ ticks' \in Nat /\ clock' \in Nat /\ arrivals' = arrivals
        /\ acceptPc' \in {"wait", "notify"}
    BY <1>1 DEF TypeOK, WakeMixer, AcceptTimeout, AdvanceClock, clientVars
  <2> QED  BY <1>1, <1>2, <2>1, <2>2 DEF TypeOK
<1>4. ticks > 0 \/ acceptPc = "notify" => ticks' > 0 \/ acceptPc' = "notify"
  BY <1>1 DEF TypeOK, WakeMixer, AcceptTimeout, AdvanceClock
<1>5. LatencyBounded'
  BY <1>1, <1>2, <1>4 DEF LatencyBounded
<1>6. ObservedInv' /\ ReadyInv' /\ MixInv'
  BY <1>1, <1>2 DEF ObservedInv, ReadyInv, MixInv
<1> QED  BY <1>1, <1>2, <1>3, <1>5, <1>6 DEF IInv

\* A pass starts with empty local variables, and looks at every client.
LEMMA MixerWakesIInv ==
  ASSUME IInv, MixerWakes
  PROVE  IInv'
<1>1. /\ TypeOK /\ \A c \in Clients : ClientInv(client[c])
  BY DEF IInv
<1>2. /\ ticks > 0 /\ ticks' = ticks - 1 /\ mixPc' = "expire" /\ cursor' = 1
      /\ now' = clock /\ counted' = {} /\ ready' = {} /\ trigger' = "None"
      /\ incoming' = [c \in Clients |-> NoPacket]
      /\ observed' = [c \in Clients |-> NoObservation]
      /\ wakeAgain' = FALSE
      /\ UNCHANGED <<client, arrivals, clock, steady, acceptPc>>
  BY DEF MixerWakes, clientVars
<1>3. TypeOK'
  <2>1. wakeAgain' \in BOOLEAN
    BY <1>2
  <2>2. ticks' \in Nat /\ now' \in Nat /\ cursor' \in 1..(NumClients + 1)
    BY <1>1, <1>2, SchedulerAssumption DEF TypeOK
  <2>3. /\ incoming' \in [Clients -> Nat]
        /\ observed' \in [Clients -> Nat \cup {NoObservation}]
    BY <1>2 DEF NoPacket
  <2> QED  BY <1>1, <1>2, <2>1, <2>2, <2>3 DEF TypeOK
<1>4. LatencyBounded'
  BY <1>2 DEF LatencyBounded, Clients
<1>5. ObservedInv' /\ ReadyInv' /\ MixInv'
  BY <1>2 DEF ObservedInv, ReadyInv, MixInv
<1> QED  BY <1>1, <1>2, <1>3, <1>4, <1>5 DEF IInv

\* The end of a grace period concerns a client that is not counted yet, and
\* whose queue is empty.
LEMMA ExpireClientIInv ==
  ASSUME IInv, ExpireClient
  PROVE  IInv'
<1> DEFINE d == cursor
           new == DisconnectIfGraceExpired(client[d], now)
<1>1. /\ TypeOK /\ ReadyInv /\ ObservedInv /\ LatencyBounded
      /\ d \in Clients /\ ClientInv(client[d]) /\ now \in Nat
  BY DEF IInv, ExpireClient, TypeOK
<1>2. /\ mixPc = "expire" /\ mixPc' = "pressure"
      /\ client' = [client EXCEPT ![d] = new]
      /\ UNCHANGED <<arrivals, clock, steady, acceptPc, ticks, cursor, now, counted,
                     ready, trigger, incoming, observed, wakeAgain>>
  BY DEF ExpireClient, localVars
<1>3. /\ ClientInv(new) /\ new.activityGeneration = client[d].activityGeneration
      /\ client[d].state # "Disconnecting" => new = client[d]
      /\ client[d].state = "Disconnecting" => new.queue.packetQueue = {}
  BY <1>1, DisconnectInv
<1> HIDE DEF d, new
<1>4. /\ client' \in [Clients -> Client] /\ client'[d] = new
      /\ \A c \in Clients : c # d => client'[c] = client[c]
      /\ \A c \in Clients : ClientInv(client'[c])
  BY <1>1, <1>2, <1>3, OneClientChanges
<1>5. TypeOK'
  BY <1>1, <1>2, <1>4 DEF TypeOK, d
<1>6. ReadyInv'
  <2>1. /\ \A c \in counted : c < cursor /\ c # d /\ c \in Clients
        /\ ready \subseteq counted
    BY <1>1, <1>2 DEF ReadyInv, TypeOK, Clients, d
  <2>2. \A c \in ready : client'[c] = client[c]
    BY <1>4, <2>1
  <2> QED  BY <1>1, <1>2, <2>1, <2>2 DEF ReadyInv
<1>7. ObservedInv' /\ MixInv'
  BY <1>1, <1>2 DEF ReadyInv, ObservedInv, MixInv
<1>8. LatencyBounded'
  <2>1. QueueLength(new) > Maximum => QueueLength(client[d]) > Maximum
    <3>1. client[d].state = "Disconnecting" => QueueLength(new) = 0
      BY <1>3, SizeType DEF QueueLength
    <3> QED  BY <1>3, <3>1, SchedulerAssumption
  <2>2. \A c \in Clients : QueueLength(client'[c]) > Maximum => QueueLength(client[c]) > Maximum
    BY <1>4, <2>1
  <2> QED  BY <1>1, <1>2, <2>2 DEF LatencyBounded
<1> QED  BY <1>4, <1>5, <1>6, <1>7, <1>8 DEF IInv

\* A client counted as ready has more than the jitter length, and no client
\* leaves the first loop with more than the maximum.
LEMMA PressureClientIInv ==
  ASSUME IInv, PressureClient
  PROVE  IInv'
<1> DEFINE d == cursor
           new == ApplyQueuePressure(client[d], Maximum, TargetQueueDepth)
<1>1. /\ TypeOK /\ ReadyInv /\ ObservedInv /\ LatencyBounded
      /\ d \in Clients /\ ClientInv(client[d])
  BY DEF IInv, PressureClient, TypeOK
<1>2. /\ mixPc = "pressure" /\ mixPc' = "expire" /\ cursor' = cursor + 1
      /\ client' = [client EXCEPT ![d] = new]
      /\ counted' = IF new.state = "Disconnected" THEN counted ELSE counted \cup {d}
      /\ ready' = IF new.state # "Disconnected" /\ IsReady(new)
                  THEN ready \cup {d} ELSE ready
      /\ UNCHANGED <<arrivals, clock, acceptPc, ticks, now,
                     trigger, incoming, observed, wakeAgain>>
  BY DEF PressureClient
<1>3. steady' \in BOOLEAN
  BY DEF PressureClient
<1>4. /\ TargetQueueDepth \in Nat /\ Maximum \in Nat /\ Jitter \in Nat
      /\ TargetQueueDepth <= Maximum
  BY SchedulerAssumption DEF TargetQueueDepth
<1>5. ClientInv(new) /\ QueueLength(new) <= Maximum
  BY <1>1, <1>4, PressureInv
<1> HIDE DEF d, new
<1>6. /\ client' \in [Clients -> Client] /\ client'[d] = new
      /\ \A c \in Clients : c # d => client'[c] = client[c]
      /\ \A c \in Clients : ClientInv(client'[c])
  BY <1>1, <1>2, <1>5, OneClientChanges
<1>7. TypeOK'
  <2>1. cursor' \in 1..(NumClients + 1)
    BY <1>1, <1>2, SchedulerAssumption DEF TypeOK, Clients, d
  <2>2. counted' \subseteq Clients /\ ready' \subseteq counted'
    BY <1>1, <1>2 DEF TypeOK
  <2> QED  BY <1>1, <1>2, <1>3, <1>6, <2>1, <2>2 DEF TypeOK
<1>8. ReadyInv'
  <2>1. /\ \A c \in counted : c < cursor /\ c # d /\ c \in Clients
        /\ ready \subseteq counted /\ cursor \in Int
        /\ counted \subseteq Int
    BY <1>1, <1>2 DEF ReadyInv, TypeOK, Clients, d
  <2>2. \A c \in counted' : c < cursor'
    BY <1>2, <2>1 DEF d
  <2>3. IsReady(new) => IsOpen(new) /\ Size(new.queue) > Jitter
    BY <1>4 DEF IsReady, QueueLength
  <2>4. \A c \in ready' : IsOpen(client'[c]) /\ Size(client'[c].queue) > Jitter
    <3> SUFFICES ASSUME NEW c \in ready'
                 PROVE  IsOpen(client'[c]) /\ Size(client'[c].queue) > Jitter
      OBVIOUS
    <3>1. CASE c \in ready
      <4>1. client'[c] = client[c]
        BY <1>6, <2>1, <3>1
      <4> QED  BY <1>1, <1>2, <3>1, <4>1 DEF ReadyInv
    <3>2. CASE c \notin ready
      <4>1. c = d /\ IsReady(new)
        BY <1>2, <3>2
      <4> QED  BY <1>6, <2>3, <4>1
    <3> QED  BY <3>1, <3>2
  <2>5. \A c \in Clients : observed'[c] = NoObservation
    BY <1>1, <1>2 DEF ReadyInv
  <2> QED  BY <2>2, <2>4, <2>5 DEF ReadyInv
<1>9. ObservedInv' /\ MixInv'
  <2>1. \A c \in Clients : observed'[c] = NoObservation
    BY <1>1, <1>2 DEF ReadyInv
  <2> QED  BY <1>2, <2>1 DEF ObservedInv, MixInv
<1>10. LatencyBounded'
  <2> SUFFICES ASSUME NEW c \in Clients, QueueLength(client'[c]) > Maximum
               PROVE  \/ ticks' > 0 \/ acceptPc' = "notify"
                      \/ mixPc' = "expire" /\ cursor' <= c
    BY DEF LatencyBounded
  <2>1. QueueLength(new) \in Nat
    BY <1>5, SizeType DEF QueueLength
  <2>2. c # d
    BY <1>4, <1>5, <1>6, <2>1
  <2>3. QueueLength(client[c]) > Maximum
    BY <1>6, <2>2
  <2>4. ticks > 0 \/ acceptPc = "notify" \/ cursor <= c
    BY <1>1, <2>3 DEF LatencyBounded
  <2>5. cursor <= c => cursor + 1 <= c
    BY <1>1, <2>2 DEF TypeOK, Clients, d
  <2> QED  BY <1>2, <2>4, <2>5
<1> QED  BY <1>6, <1>7, <1>8, <1>9, <1>10 DEF IInv

\* If as many clients are ready as are counted, every counted client is ready.
LEMMA AllReadyMeansEach ==
  ASSUME TypeOK, AllClientsReady
  PROVE  ready = counted
<1>1. IsFiniteSet(Clients)
  BY SchedulerAssumption, FS_Interval DEF Clients
<1>2. IsFiniteSet(counted)
  BY <1>1, FS_Subset DEF TypeOK
<1>3. ready \in SUBSET counted /\ Cardinality(counted) = Cardinality(ready)
  BY DEF TypeOK, AllClientsReady
<1> QED  BY <1>2, <1>3, FS_Subset

\* The barrier: a pass ends here, or goes on with clients that are ready.
LEMMA BarrierIInv ==
  ASSUME IInv, NotReady \/ StartMix
  PROVE  IInv'
<1>1. /\ TypeOK /\ ReadyInv /\ ObservedInv /\ LatencyBounded
      /\ \A c \in Clients : ClientInv(client[c])
  BY DEF IInv
<1>2. /\ mixPc = "expire" /\ cursor = NumClients + 1
      /\ UNCHANGED <<client, arrivals, clock, steady, acceptPc, ticks, now, counted,
                     ready, incoming, observed, wakeAgain>>
  BY DEF NotReady, StartMix, clientVars, localVars
<1>3. LatencyBounded'
  <2>1. \A c \in Clients : ~(cursor <= c)
    BY <1>2, SchedulerAssumption DEF Clients
  <2> QED  BY <1>1, <1>2, <2>1 DEF LatencyBounded
<1>4. ObservedInv'
  BY <1>1, <1>2 DEF ObservedInv
<1>5. CASE NotReady
  <2>1. mixPc' = "wait" /\ UNCHANGED <<cursor, trigger>>
    BY <1>5 DEF NotReady, localVars
  <2>2. TypeOK'
    BY <1>1, <1>2, <2>1 DEF TypeOK
  <2>3. ReadyInv' /\ MixInv'
    BY <2>1 DEF ReadyInv, MixInv
  <2> QED  BY <1>1, <1>2, <1>3, <1>4, <2>2, <2>3 DEF IInv
<1>6. CASE StartMix
  <2>1. mixPc' = "pop" /\ cursor' = 1
    BY <1>6 DEF StartMix
  <2>2. trigger' \in {"None", "SingleClient", "AllClientsReady"}
    BY <1>6 DEF StartMix
  <2>3. trigger' = "AllClientsReady" => AllClientsReady
    BY <1>6 DEF StartMix
  <2>4. TypeOK'
    <3>1. cursor' \in 1..(NumClients + 1)
      BY <2>1, SchedulerAssumption
    <3> QED  BY <1>1, <1>2, <2>1, <2>2, <3>1 DEF TypeOK
  <2>5. ReadyInv'
    BY <2>1 DEF ReadyInv
  <2>6. MixInv'
    <3> SUFFICES ASSUME trigger' = "AllClientsReady", NEW c \in counted
                 PROVE  /\ IsOpen(client[c]) /\ observed[c] = NoObservation
                        /\ Size(client[c].queue) >= Jitter
                        /\ Size(client[c].queue) > Jitter
                        /\ ~(c < 1)
      BY <1>2, <2>1 DEF MixInv
    <3>1. c \in ready /\ c \in Clients
      BY <1>1, <2>3, AllReadyMeansEach DEF TypeOK
    <3>2. /\ IsOpen(client[c]) /\ Size(client[c].queue) > Jitter
          /\ observed[c] = NoObservation
      BY <1>1, <1>2, <3>1 DEF ReadyInv
    <3>3. Size(client[c].queue) \in Nat
      BY <1>1, <3>1, SizeType
    <3> QED  BY <3>1, <3>2, <3>3, SchedulerAssumption DEF Clients
  <2> QED  BY <1>1, <1>2, <1>3, <1>4, <2>4, <2>5, <2>6 DEF IInv
<1> QED  BY <1>5, <1>6

\* A pop takes at most the one packet a ready client can spare.
LEMMA PopClientIInv ==
  ASSUME IInv, PopClient
  PROVE  IInv'
<1> DEFINE d == cursor
           new == AfterTryPop(client[d])
           n == PoppedElement(client[d].queue).ctr
<1>1. /\ TypeOK /\ ObservedInv /\ MixInv /\ LatencyBounded
      /\ d \in Clients /\ ClientInv(client[d]) /\ TryPopSucceeds(client[d])
  BY DEF IInv, PopClient
<1>2. /\ mixPc = "pop" /\ mixPc' = mixPc /\ cursor' = cursor + 1
      /\ client' = [client EXCEPT ![d] = new]
      /\ incoming' = [incoming EXCEPT ![d] = n]
      /\ UNCHANGED <<arrivals, clock, steady, acceptPc, ticks, now, counted,
                     ready, trigger, observed>>
  BY DEF PopClient
<1>3. wakeAgain' \in BOOLEAN
  BY DEF PopClient
<1>4. /\ ClientInv(new) /\ IsOpen(new) /\ new.state = client[d].state
      /\ new.activityGeneration = client[d].activityGeneration
      /\ n \in Nat /\ n # NoPacket
      /\ Size(new.queue) <= Size(client[d].queue)
      /\ Size(new.queue) >= Size(client[d].queue) - 1
  BY <1>1, TryPopInv
<1>5. /\ client[d].queue.packetQueue # {} /\ IsOpen(client[d])
      /\ Size(new.queue) \in Nat /\ Size(client[d].queue) \in Nat
  BY <1>1, <1>4, SizeType DEF TryPopSucceeds
<1> HIDE DEF d, new, n
<1>6. /\ client' \in [Clients -> Client] /\ client'[d] = new
      /\ \A c \in Clients : c # d => client'[c] = client[c]
      /\ \A c \in Clients : ClientInv(client'[c])
  BY <1>1, <1>2, <1>4, OneClientChanges
<1>7. TypeOK'
  <2>1. cursor' \in 1..(NumClients + 1)
    BY <1>1, <1>2, SchedulerAssumption DEF TypeOK, Clients, d
  <2>2. incoming' \in [Clients -> Nat]
    BY <1>1, <1>2, <1>4 DEF TypeOK
  <2> QED  BY <1>1, <1>2, <1>3, <1>6, <2>1, <2>2 DEF TypeOK
<1>8. ObservedInv'
  <2>1. observed[d] # NoObservation =>
          /\ observed[d] <= new.activityGeneration
          /\ ~(observed[d] = new.activityGeneration /\ new.state = "Connected")
    BY <1>1, <1>4, <1>5 DEF ObservedInv
  <2> QED  BY <1>1, <1>2, <1>6, <2>1 DEF ObservedInv
<1>9. ReadyInv'
  BY <1>2 DEF ReadyInv
<1>10. MixInv'
  <2> SUFFICES ASSUME trigger = "AllClientsReady", NEW c \in counted
               PROVE  /\ IsOpen(client'[c]) /\ observed[c] = NoObservation
                      /\ Size(client'[c].queue) >= Jitter
                      /\ IF c < cursor + 1 THEN incoming'[c] # NoPacket
                         ELSE Size(client'[c].queue) > Jitter
    BY <1>2 DEF MixInv
  <2>1. c \in Clients /\ c \in Int /\ cursor \in Int /\ d = cursor
    BY <1>1 DEF TypeOK, Clients, d
  <2>2. /\ IsOpen(client[c]) /\ observed[c] = NoObservation
        /\ Size(client[c].queue) >= Jitter
        /\ IF c < cursor THEN incoming[c] # NoPacket
           ELSE Size(client[c].queue) > Jitter
    BY <1>1, <1>2 DEF MixInv
  <2>3. CASE c = d
    <3>1. Size(client[d].queue) > Jitter
      BY <2>1, <2>2, <2>3
    <3>2. Size(new.queue) >= Jitter
      BY <1>4, <1>5, <3>1, SchedulerAssumption
    <3>3. incoming'[d] = n
      BY <1>1, <1>2 DEF TypeOK
    <3> QED  BY <1>4, <1>6, <2>1, <2>2, <2>3, <3>2, <3>3
  <2>4. CASE c # d
    <3>1. client'[c] = client[c] /\ incoming'[c] = incoming[c]
      BY <1>1, <1>2, <1>6, <2>1, <2>4 DEF TypeOK
    <3>2. c < cursor + 1 <=> c < cursor
      BY <2>1, <2>4
    <3> QED  BY <2>2, <3>1, <3>2
  <2> QED  BY <2>3, <2>4
<1>11. LatencyBounded'
  <2>1. QueueLength(new) <= QueueLength(client[d])
    BY <1>4, <1>5 DEF QueueLength
  <2>2. QueueLength(new) \in Nat /\ QueueLength(client[d]) \in Nat
    BY <1>5 DEF QueueLength
  <2>3. \A c \in Clients : QueueLength(client'[c]) > Maximum => QueueLength(client[c]) > Maximum
    BY <1>6, <2>1, <2>2, SchedulerAssumption
  <2> QED  BY <1>1, <1>2, <2>3 DEF LatencyBounded
<1> QED  BY <1>6, <1>7, <1>8, <1>9, <1>10, <1>11 DEF IInv

\* A pop fails on an empty queue only, never for a client that was found ready;
\* the snapshot taken afterwards only forgets observations.
LEMMA NothingToPopIInv ==
  ASSUME IInv, PopFails \/ PeekClient
  PROVE  IInv'
<1> DEFINE d == cursor
<1>1. /\ TypeOK /\ ObservedInv /\ MixInv /\ LatencyBounded
      /\ \A c \in Clients : ClientInv(client[c])
      /\ d \in Clients /\ cursor \in Int
  BY DEF IInv, TypeOK, PopFails, PeekClient, Clients
<1>2. UNCHANGED <<client, arrivals, clock, steady, acceptPc, ticks, now, counted, ready,
                  trigger, incoming, wakeAgain>>
  BY DEF PopFails, PeekClient, clientVars
<1> HIDE DEF d
<1>3. CASE PopFails
  <2>1. /\ mixPc = "pop" /\ mixPc' = "peek" /\ cursor' = cursor
        /\ observed' = [observed EXCEPT ![d] = client[d].activityGeneration]
        /\ ~TryPopSucceeds(client[d])
    BY <1>3 DEF PopFails, d
  <2>2. client[d].activityGeneration \in Nat
    BY <1>1 DEF ClientInv, Client
  <2>3. TypeOK'
    <3>1. observed' \in [Clients -> Nat \cup {NoObservation}]
      BY <1>1, <2>1, <2>2 DEF TypeOK
    <3> QED  BY <1>1, <1>2, <2>1, <3>1 DEF TypeOK, d
  <2>4. client[d].state = "Connected" => client[d].queue.packetQueue = {}
    BY <1>1, <2>1 DEF TryPopSucceeds, IsOpen, ClientInv
  <2>5. ObservedInv'
    BY <1>1, <1>2, <2>1, <2>2, <2>4 DEF ObservedInv, TypeOK
  <2>6. trigger = "AllClientsReady" => d \notin counted
    <3> SUFFICES ASSUME trigger = "AllClientsReady", d \in counted PROVE FALSE
      OBVIOUS
    <3>1. IsOpen(client[d]) /\ Size(client[d].queue) > Jitter
      BY <1>1, <2>1 DEF MixInv, d
    <3>2. Size(client[d].queue) # 0
      BY <1>1, <3>1, SizeType, SchedulerAssumption
    <3> QED  BY <1>1, <2>1, <3>1, <3>2, SizeType DEF TryPopSucceeds
  <2>7. MixInv'
    <3>1. trigger = "AllClientsReady" => \A c \in counted : observed'[c] = observed[c]
      BY <1>1, <2>1, <2>6 DEF TypeOK
    <3> QED  BY <1>1, <1>2, <2>1, <2>6, <3>1 DEF MixInv, d
  <2>8. ReadyInv' /\ LatencyBounded'
    BY <1>1, <1>2, <2>1 DEF ReadyInv, LatencyBounded
  <2> QED  BY <1>1, <1>2, <2>3, <2>5, <2>7, <2>8 DEF IInv
<1>4. CASE PeekClient
  <2>1. /\ mixPc = "peek" /\ mixPc' = "pop" /\ cursor' = cursor + 1
        /\ observed' = IF client[d].state = "Disconnected"
                       THEN [observed EXCEPT ![d] = NoObservation] ELSE observed
    BY <1>4 DEF PeekClient, d
  <2>2. TypeOK'
    <3>1. observed' \in [Clients -> Nat \cup {NoObservation}]
      BY <1>1, <2>1 DEF TypeOK
    <3>2. cursor' \in 1..(NumClients + 1)
      BY <1>1, <2>1, SchedulerAssumption DEF TypeOK, Clients, d
    <3> QED  BY <1>1, <1>2, <2>1, <3>1, <3>2 DEF TypeOK
  <2>3. \A c \in Clients : observed'[c] = NoObservation \/ observed'[c] = observed[c]
    BY <1>1, <2>1 DEF TypeOK
  <2>4. ObservedInv'
    BY <1>1, <1>2, <2>3 DEF ObservedInv
  <2>5. MixInv'
    <3> SUFFICES ASSUME trigger = "AllClientsReady", NEW c \in counted
                 PROVE  /\ IsOpen(client[c]) /\ observed'[c] = NoObservation
                        /\ Size(client[c].queue) >= Jitter
                        /\ IF c < cursor + 1 THEN incoming[c] # NoPacket
                           ELSE Size(client[c].queue) > Jitter
      BY <1>2, <2>1 DEF MixInv
    <3>1. c \in Clients /\ c \in Int /\ c # cursor
      BY <1>1, <2>1 DEF TypeOK, Clients, MixInv
    <3>2. c < cursor + 1 <=> c < cursor
      BY <1>1, <3>1
    <3> QED  BY <1>1, <2>1, <2>3, <3>1, <3>2 DEF MixInv
  <2>6. ReadyInv' /\ LatencyBounded'
    BY <1>1, <1>2, <2>1 DEF ReadyInv, LatencyBounded
  <2> QED  BY <1>1, <1>2, <2>2, <2>4, <2>5, <2>6 DEF IInv
<1> QED  BY <1>3, <1>4

\* The ends of the second and of the third loop.
LEMMA LoopEndsIInv ==
  ASSUME IInv, AllPopped \/ FinishMix
  PROVE  IInv'
<1>1. /\ TypeOK /\ ObservedInv /\ MixInv /\ LatencyBounded
      /\ \A c \in Clients : ClientInv(client[c])
  BY DEF IInv
<1>2. UNCHANGED <<client, arrivals, clock, steady, acceptPc, now, counted, ready,
                  trigger, incoming, observed, wakeAgain>>
  BY DEF AllPopped, FinishMix, clientVars, localVars
<1>3. ObservedInv'
  BY <1>1, <1>2 DEF ObservedInv
<1>4. CASE AllPopped
  <2>1. /\ mixPc = "pop" /\ mixPc' = "mark" /\ cursor = NumClients + 1 /\ cursor' = 1
        /\ ticks' = ticks
    BY <1>4 DEF AllPopped
  <2>2. TypeOK'
    <3>1. cursor' \in 1..(NumClients + 1)
      BY <2>1, SchedulerAssumption
    <3> QED  BY <1>1, <1>2, <2>1, <3>1 DEF TypeOK
  <2>3. \A c \in counted : c < cursor
    BY <1>1, <2>1, SchedulerAssumption DEF TypeOK, Clients
  <2>4. MixInv'
    BY <1>1, <1>2, <2>1, <2>3 DEF MixInv
  <2>5. ReadyInv' /\ LatencyBounded'
    BY <1>1, <1>2, <2>1 DEF ReadyInv, LatencyBounded
  <2> QED  BY <1>1, <1>2, <1>3, <2>2, <2>4, <2>5 DEF IInv
<1>5. CASE FinishMix
  <2>1. /\ mixPc = "mark" /\ mixPc' = "wait" /\ cursor' = cursor
        /\ ticks' = IF wakeAgain THEN ticks + 1 ELSE ticks
    BY <1>5 DEF FinishMix, localVars
  <2>2. ticks' \in Nat /\ (ticks > 0 => ticks' > 0)
    BY <1>1, <2>1 DEF TypeOK
  <2>3. TypeOK'
    BY <1>1, <1>2, <2>1, <2>2 DEF TypeOK
  <2>4. ReadyInv' /\ MixInv'
    BY <2>1 DEF ReadyInv, MixInv
  <2>5. LatencyBounded'
    BY <1>1, <1>2, <2>1, <2>2 DEF LatencyBounded
  <2> QED  BY <1>1, <1>2, <1>3, <2>3, <2>4, <2>5 DEF IInv
<1> QED  BY <1>4, <1>5

\* A client is marked on a current observation only, and so with an empty queue.
LEMMA MarkClientIInv ==
  ASSUME IInv, MarkClient
  PROVE  IInv'
<1> DEFINE d == cursor
           new == MarkUnderrun(client[d], observed[d], now)
<1>1. /\ TypeOK /\ ObservedInv /\ MixInv /\ LatencyBounded
      /\ \A c \in Clients : ClientInv(client[c])
      /\ d \in Clients /\ now \in Nat
  BY DEF IInv, TypeOK, MarkClient
<1>2. /\ mixPc = "mark" /\ mixPc' = mixPc /\ cursor' = cursor + 1
      /\ client' = IF observed[d] = NoObservation THEN client
                   ELSE [client EXCEPT ![d] = new]
      /\ UNCHANGED <<arrivals, clock, steady, acceptPc, ticks, now, counted,
                     ready, trigger, incoming, observed, wakeAgain>>
  BY DEF MarkClient
<1>3. cursor' \in 1..(NumClients + 1)
  BY <1>1, <1>2, SchedulerAssumption DEF TypeOK, Clients
<1>4. CASE observed[d] = NoObservation
  <2>1. client' = client
    BY <1>2, <1>4
  <2>2. TypeOK'
    BY <1>1, <1>2, <1>3, <2>1 DEF TypeOK
  <2>3. ObservedInv' /\ MixInv' /\ ReadyInv' /\ LatencyBounded'
    BY <1>1, <1>2, <2>1 DEF ObservedInv, MixInv, ReadyInv, LatencyBounded
  <2> QED  BY <1>1, <2>1, <2>2, <2>3 DEF IInv
<1>5. CASE observed[d] # NoObservation
  <2>1. observed[d] = client[d].activityGeneration /\ client[d].state = "Connected" =>
          client[d].queue.packetQueue = {}
    BY <1>1, <1>5 DEF ObservedInv
  <2>2. /\ ClientInv(new) /\ new.queue = client[d].queue
        /\ new.activityGeneration = client[d].activityGeneration
        /\ (IsOpen(new) <=> IsOpen(client[d]))
        /\ new.state = "Connected" => client[d].state = "Connected"
    BY <1>1, <2>1, MarkUnderrunInv
  <2>3. client' = [client EXCEPT ![d] = new]
    BY <1>2, <1>5
  <2> HIDE DEF d, new
  <2>4. /\ client' \in [Clients -> Client] /\ client'[d] = new
        /\ \A c \in Clients : c # d => client'[c] = client[c]
        /\ \A c \in Clients : ClientInv(client'[c])
    BY <1>1, <2>2, <2>3, OneClientChanges
  <2>5. TypeOK'
    BY <1>1, <1>2, <1>3, <2>4 DEF TypeOK
  <2>6. ObservedInv'
    BY <1>1, <1>2, <2>2, <2>4 DEF ObservedInv
  <2>7. trigger = "AllClientsReady" => \A c \in counted : client'[c] = client[c]
    BY <1>1, <1>2, <1>5, <2>4 DEF MixInv, TypeOK
  <2>8. MixInv' /\ ReadyInv'
    BY <1>1, <1>2, <2>7 DEF MixInv, ReadyInv
  <2>9. \A c \in Clients : QueueLength(client'[c]) = QueueLength(client[c])
    BY <2>2, <2>4 DEF QueueLength
  <2>10. LatencyBounded'
    BY <1>1, <1>2, <2>9 DEF LatencyBounded
  <2> QED  BY <2>4, <2>5, <2>6, <2>8, <2>10 DEF IInv
<1> QED  BY <1>4, <1>5

\* Every step of either thread keeps the invariant.
LEMMA NextIInv == IInv /\ [Next]_vars => IInv'
<1> SUFFICES ASSUME IInv, [Next]_vars PROVE IInv'
  OBVIOUS
<1>1. CASE \E c \in Clients, ctr \in FirstCounter..MaxCounter : AcceptAudio(c, ctr)
  BY <1>1, AcceptAudioIInv
<1>2. CASE WakeMixer \/ AcceptTimeout \/ AdvanceClock
  BY <1>2, TickIInv
<1>3. CASE Mixer
  BY <1>3, MixerWakesIInv, ExpireClientIInv, PressureClientIInv, BarrierIInv,
     PopClientIInv, NothingToPopIInv, LoopEndsIInv, MarkClientIInv DEF Mixer
<1>4. CASE UNCHANGED vars
  <2>1. UNCHANGED <<client, arrivals, clock, steady, acceptPc, ticks, mixPc, cursor, now,
                    counted, ready, trigger, incoming, observed, wakeAgain>>
    BY <1>4 DEF vars, clientVars, localVars
  <2>2. TypeOK'
    BY <2>1 DEF IInv, TypeOK
  <2>3. ObservedInv' /\ ReadyInv' /\ MixInv' /\ LatencyBounded'
    BY <2>1 DEF IInv, ObservedInv, ReadyInv, MixInv, LatencyBounded
  <2> QED  BY <2>1, <2>2, <2>3 DEF IInv
<1> QED  BY <1>1, <1>2, <1>3, <1>4 DEF Next

\* The invariant holds whatever arrives and however the threads interleave.
THEOREM SchedulerInvariant == Spec => []IInv
BY InitIInv, NextIInv, PTL DEF Spec

\* The scheduler's variables keep their types; no wake-up is taken that was
\* not given.
THEOREM SchedulerTypeCorrect == Spec => []TypeOK
<1>1. IInv => TypeOK
  BY DEF IInv
<1> QED  BY <1>1, SchedulerInvariant, PTL

\* A client is in its grace period only with an empty queue, so the end of the
\* grace period destroys no audio.
THEOREM SchedulerUnderrunIsReal == Spec => []UnderrunIsReal
<1>1. IInv => UnderrunIsReal
  BY DEF IInv, ClientInv, UnderrunIsReal
<1> QED  BY <1>1, SchedulerInvariant, PTL

\* A client that comes back after its grace period is heard at once.
THEOREM SchedulerReconnectIsHeard == Spec => []ReconnectIsHeard
<1>1. IInv => ReconnectIsHeard
  <2> SUFFICES ASSUME IInv, NEW c \in Clients, NEW ctr \in FirstCounter..MaxCounter,
                      client[c].state = "Disconnected"
               PROVE  IsQueued(client[c], ctr)
    BY DEF ReconnectIsHeard
  <2>1. ctr \in 1..(CounterModulus - 1)
    BY SchedulerAssumption, ClientAssumption
  <2>2. ClientInv(client[c]) /\ ~client[c].hasQueue
    BY DEF IInv, ClientInv
  <2> QED  BY <2>1, <2>2, QueueForPushInv
<1> QED  BY <1>1, SchedulerInvariant, PTL

\* A mix for which all clients were ready is a mix of all of them.
THEOREM SchedulerMixIsComplete == Spec => []MixIsComplete
<1>1. IInv => MixIsComplete
  BY DEF IInv, MixInv, MixIsComplete
<1> QED  BY <1>1, SchedulerInvariant, PTL

\* Such a mix leaves every one of them its jitter reserve.
THEOREM SchedulerKeepsReserve == Spec => []JitterReserveKept
<1>1. IInv => JitterReserveKept
  BY DEF IInv, MixInv, JitterReserveKept, QueueLength
<1> QED  BY <1>1, SchedulerInvariant, PTL

\* No wake-up is lost: the mixer is bound to look at a queue that is too long.
THEOREM SchedulerBoundsLatency == Spec => []LatencyBounded
<1>1. IInv => LatencyBounded
  BY DEF IInv
<1> QED  BY <1>1, SchedulerInvariant, PTL

-----------------------------------------------------------------------------
(* The padding of the first connection *)

Joined(c) == client[c].state # "Disconnected"
Length(c) == Size(client[c].queue)
IsAlone(c) == Joined(c) /\ \A d \in Clients : d # c => ~Joined(d)

\* What a lone client's queue still owes to the pass under way: the packet that
\* will be popped, or the wake-up that follows a fill-in.
Debt(c) ==
  IF mixPc \in {"expire", "pressure"} \/ (mixPc \in {"pop", "peek"} /\ cursor <= c) THEN 1
  ELSE IF mixPc # "wait" /\ wakeAgain THEN 1 ELSE 0

Notice == IF acceptPc = "notify" THEN 1 ELSE 0

\* Nobody has left, everybody has the padding, and before the first connection
\* nothing has happened.
ReserveInv ==
  /\ \A c \in Clients : Joined(c) => Length(c) >= Prefill
  /\ \A c \in Clients : Joined(c) \/ ~client[c].hasConnected
  /\ (\A c \in Clients : ~Joined(c)) => ticks = 0 /\ acceptPc = "wait" /\ mixPc = "wait"

\* First loop.  A client that joined behind the cursor has a packet to spare; one
\* that will be counted has, or is not the only one.
CountingInv ==
  mixPc \in {"expire", "pressure"} =>
    /\ ~wakeAgain
    /\ \A c \in counted : Joined(c)
    /\ \A c \in Clients : Joined(c) /\ c < cursor /\ c \notin counted => Length(c) > Prefill
    /\ \A c \in Clients : Joined(c) /\ (c \in counted \/ c >= cursor) =>
         \/ Length(c) > Prefill
         \/ \E d \in Clients : d # c /\ Joined(d) /\ (d \in counted \/ d >= cursor)

\* Second loop.  Who has not been popped yet has a packet to spare.
PoppingInv ==
  mixPc \in {"pop", "peek"} =>
    /\ \A c \in Clients : Joined(c) /\ c >= cursor => Length(c) > Prefill
    /\ wakeAgain => \E d \in Clients : Joined(d) /\ d < cursor

\* Every tick for a lone client stands for a packet of its queue above the padding.
AloneInv ==
  \A c \in Clients : IsAlone(c) => Length(c) >= Prefill + ticks + Notice + Debt(c)

SteadyInv == ReserveInv /\ CountingInv /\ PoppingInv /\ AloneInv

\* The defaults: a prefill of the jitter length, three blocks, and a first counter
\* of ten "because of the pre-fill on server side".
PrefillFits == Prefill > 0 /\ Prefill <= Jitter /\ Prefill < FirstCounter

\* The padding before a counter above the prefill is as many packets as the prefill.
LEMMA PaddingSize ==
  ASSUME NEW ctr \in 0..(CounterModulus - 1), Prefill < ctr
  PROVE  LET S == {PrePadding(ctr, i) : i \in 1..Prefill}
         IN  Cardinality(S) = Prefill /\ \A p \in S : p.ctr > 0
<1> DEFINE S == {PrePadding(ctr, i) : i \in 1..Prefill}
           f == [i \in 1..Prefill |-> PrePadding(ctr, i)]
<1>0. CounterModulus \in Nat \ {0} /\ Prefill \in Nat
  BY ClientAssumption
<1>1. \A i \in 1..Prefill : (ctr - i) % CounterModulus = ctr - i /\ ctr - i \in Nat /\ ctr - i > 0
  <2> SUFFICES ASSUME NEW i \in 1..Prefill
               PROVE  (ctr - i) % CounterModulus = ctr - i /\ ctr - i \in Nat /\ ctr - i > 0
    OBVIOUS
  <2>1. ctr - i \in 0..(CounterModulus - 1) /\ ctr - i > 0
    BY <1>0
  <2> QED  BY <1>0, <2>1
<1>2. \A i \in 1..Prefill : PrePadding(ctr, i).ctr = ctr - i
  BY <1>1 DEF PrePadding, AudioPacket
<1>3. \A i, j \in 1..Prefill : PrePadding(ctr, i) = PrePadding(ctr, j) => i = j
  BY <1>0, <1>2
<1>4. \A p \in S : p.ctr > 0
  BY <1>1, <1>2
<1>5. f \in Bijection(1..Prefill, S)
  BY <1>3 DEF Bijection, Injection, Surjection, IsInjective
<1>6. ExistsBijection(1..Prefill, S)
  BY <1>5 DEF ExistsBijection
<1>7. IsFiniteSet(1..Prefill) /\ Cardinality(1..Prefill) = Prefill
  BY <1>0, FS_Interval
<1> HIDE DEF S, f
<1>8. Cardinality(S) = Prefill
  BY <1>6, <1>7, FS_Bijection
<1> QED  BY <1>4, <1>8 DEF S

\* The first packet of a client finds the padding complete.
LEMMA FirstPush ==
  ASSUME NEW cs, ClientInv(cs), ~cs.hasConnected,
         NEW ctr \in 1..(CounterModulus - 1), Prefill < ctr
  PROVE  Size(PushToClient(cs, ctr).queue) = Prefill + 1 /\ IsQueued(cs, ctr)
<1> DEFINE S == {PrePadding(ctr, i) : i \in 1..Prefill}
           q == QueueForPush(cs, ctr)
           p == AudioPacket(ctr)
<1>0. CounterModulus \in Nat \ {0} /\ ctr \in Nat /\ ctr \in 0..(CounterModulus - 1)
  BY ClientAssumption
<1>1. ~cs.hasQueue /\ cs \in Client
  BY DEF ClientInv
<1>2. WellFormed(q) /\ IsQueued(cs, ctr)
  BY <1>1, QueueForPushInv
<1>3. p \in Packet
  BY <1>0, AudioPacketType
<1>4. Cardinality(S) = Prefill /\ \A s \in S : s.ctr > 0
  BY <1>0, PaddingSize
<1>5. S \subseteq Packet
  BY <1>0, PaddingType
<1>6. q = PushAll(EmptyQueue, S)
  BY <1>1 DEF QueueForPush
<1> HIDE DEF S
<1>7. \A s \in S : ~HasBeenPushedBefore(EmptyQueue, s)
  BY <1>4, <1>5 DEF HasBeenPushedBefore, TooLateOrDuplicate, EmptyQueue, Packet
<1>8. {s \in S : ~HasBeenPushedBefore(EmptyQueue, s)} = S
  BY <1>7
<1>9. q = [EmptyQueue EXCEPT !.packetQueue = {} \cup S,
                             !.currentlyInQueue = {} \cup {s.ctr : s \in S}]
  BY <1>6, <1>8 DEF PushAll, EmptyQueue
<1>10. q.packetQueue = S
  BY <1>9 DEF EmptyQueue
<1>11. Size(q) = Prefill
  BY <1>4, <1>10 DEF Size
<1>12. Size(PushPacket(q, p)) = Size(q) + 1
  BY <1>2, <1>3, PushKeepsWellFormed DEF IsQueued
<1>13. PushToClient(cs, ctr).queue = PushPacket(q, p)
  BY <1>1 DEF PushToClient, Client
<1> QED  BY <1>2, <1>11, <1>12, <1>13

\* A later packet makes the queue longer by one exactly if it earns a tick.
LEMMA LaterPush ==
  ASSUME NEW cs, ClientInv(cs), cs.hasQueue, NEW ctr \in 1..(CounterModulus - 1)
  PROVE  Size(PushToClient(cs, ctr).queue)
           = IF IsQueued(cs, ctr) THEN Size(cs.queue) + 1 ELSE Size(cs.queue)
<1> DEFINE q == QueueForPush(cs, ctr)
           p == AudioPacket(ctr)
<1>0. ctr \in Nat /\ cs \in Client
  BY ClientAssumption DEF ClientInv
<1>1. WellFormed(q) /\ q = cs.queue
  BY QueueForPushInv
<1>2. p \in Packet
  BY <1>0, AudioPacketType
<1>3. PushToClient(cs, ctr).queue = PushPacket(q, p)
  BY <1>0 DEF PushToClient, Client
<1>4. IsQueued(cs, ctr) <=> ~HasBeenPushedBefore(q, p)
  BY DEF IsQueued
<1>5. ~HasBeenPushedBefore(q, p) => Size(PushPacket(q, p)) = Size(q) + 1
  BY <1>1, <1>2, PushKeepsWellFormed
<1>6. HasBeenPushedBefore(q, p) => PushPacket(q, p) = q
  BY DEF PushPacket
<1> HIDE DEF q, p
<1> QED  BY <1>1, <1>3, <1>4, <1>5, <1>6

\* A fill-in leaves the queue as long as it was.
LEMMA FillInTakesNothing ==
  ASSUME NEW cs, ClientInv(cs), TryPopSucceeds(cs), PoppedElement(cs.queue).kind # "real"
  PROVE  Size(AfterTryPop(cs).queue) = Size(cs.queue)
<1> DEFINE q == cs.queue
<1>1. WellFormed(q) /\ q.packetQueue # {} /\ cs \in Client
  BY DEF ClientInv, TryPopSucceeds
<1>2. ~IsExpected(q)
  BY DEF PoppedElement
<1>3. AfterTryPop(cs).queue = PopFillIn(q)
  BY <1>1, <1>2 DEF AfterTryPop, AfterPop, Client
<1>4. PopFillIn(q).packetQueue = q.packetQueue
  BY <1>1, <1>2, PopFillInKeepsWellFormed
<1> QED  BY <1>3, <1>4 DEF Size

\* The types the proof is about.
LEMMA SteadyTypes ==
  ASSUME IInv
  PROVE  /\ \A c \in Clients : Length(c) \in Nat /\ c \in Int
         /\ ticks \in Nat /\ cursor \in Int /\ Prefill \in Nat /\ Jitter \in Nat
         /\ counted \subseteq Clients
<1>1. /\ TypeOK /\ \A c \in Clients : ClientInv(client[c])
  BY DEF IInv
<1>2. \A c \in Clients : Length(c) \in Nat
  BY <1>1, SizeType DEF Length
<1> QED  BY <1>1, <1>2, SchedulerAssumption, ClientAssumption DEF TypeOK, Clients

\* Who has joined has something to pop, so it is never in a grace period.
LEMMA JoinedIsHeard ==
  ASSUME IInv, SteadyInv, PrefillFits, NEW c \in Clients
  PROVE  /\ Joined(c) => /\ TryPopSucceeds(client[c]) /\ client[c].hasQueue
                         /\ client[c].state = "Connected"
                         /\ client[c].queue.packetQueue # {}
         /\ ~Joined(c) => /\ client[c].state = "Disconnected" /\ ~client[c].hasConnected
                          /\ ~TryPopSucceeds(client[c])
<1>1. ClientInv(client[c]) /\ client[c] \in Client
  BY DEF IInv, ClientInv
<1>2. CASE Joined(c)
  <2>1. Size(client[c].queue) >= Prefill
    BY <1>2 DEF SteadyInv, ReserveInv, Length
  <2>2. Size(client[c].queue) # 0
    BY <1>1, <2>1, SizeType, ClientAssumption DEF PrefillFits
  <2>3. client[c].queue.packetQueue # {}
    BY <1>1, <2>2, SizeType
  <2> QED  BY <1>1, <1>2, <2>3 DEF Joined, ClientInv, Client, TryPopSucceeds, IsOpen
<1>3. CASE ~Joined(c)
  BY <1>3 DEF SteadyInv, ReserveInv, Joined, TryPopSucceeds, IsOpen
<1> QED  BY <1>2, <1>3

\* A step that leaves the clients alone.
LEMMA SameClients ==
  ASSUME \A c \in Clients : client'[c] = client[c]
  PROVE  \A c \in Clients : /\ Joined(c)' <=> Joined(c)
                            /\ Length(c)' = Length(c)
                            /\ IsAlone(c)' <=> IsAlone(c)
                            /\ client'[c].hasConnected = client[c].hasConnected
BY DEF Joined, Length, IsAlone

\* A packet that arrives makes its client longer, or joins it with one packet above
\* the padding.
LEMMA AcceptAudioSteady ==
  ASSUME IInv, SteadyInv, PrefillFits,
         NEW d \in Clients, NEW ctr \in FirstCounter..MaxCounter, AcceptAudio(d, ctr)
  PROVE  SteadyInv'
<1> DEFINE new == PushToClient(client[d], ctr)
           queued == IsQueued(client[d], ctr)
<1>1. ctr \in 1..(CounterModulus - 1) /\ Prefill < ctr
  BY SchedulerAssumption, ClientAssumption DEF PrefillFits
<1>2. /\ acceptPc = "wait" /\ client' = [client EXCEPT ![d] = new]
      /\ acceptPc' = IF queued THEN "notify" ELSE "wait"
      /\ UNCHANGED <<ticks, steady, mixPc, cursor, counted, wakeAgain>>
  BY DEF AcceptAudio, localVars
<1>3. ClientInv(client[d]) /\ ClientInv(new) /\ new.state = "Connected"
  BY <1>1, PushToClientInv DEF IInv
<1>4. /\ Joined(d) => Size(new.queue) = IF queued THEN Length(d) + 1 ELSE Length(d)
      /\ ~Joined(d) => Size(new.queue) = Prefill + 1 /\ queued
  BY <1>1, <1>3, JoinedIsHeard, FirstPush, LaterPush DEF Length
<1> HIDE DEF new, queued
<1>5. client'[d] = new /\ \A c \in Clients : c # d => client'[c] = client[c]
  BY <1>2, <1>3, OneClientChanges
<1>6. /\ Joined(d)'
      /\ \A c \in Clients : c # d => (Joined(c)' <=> Joined(c)) /\ Length(c)' = Length(c)
      /\ \A c \in Clients : Joined(c) => Joined(c)'
  BY <1>3, <1>5 DEF Joined, Length
<1>7. /\ Joined(d) => Length(d)' = IF queued THEN Length(d) + 1 ELSE Length(d)
      /\ ~Joined(d) => Length(d)' = Prefill + 1 /\ queued
  BY <1>4, <1>5 DEF Length
<1>8. /\ \A c \in Clients : Length(c) \in Nat /\ c \in Int
      /\ ticks \in Nat /\ cursor \in Int /\ Prefill \in Nat /\ counted \subseteq Clients
  BY SteadyTypes
<1>9. /\ \A c \in Clients : Joined(c) => Length(c)' >= Length(c)
      /\ \A c \in Clients : Joined(c)' /\ ~Joined(c) => Length(c)' > Prefill
      /\ \A c \in Clients : Length(c)' \in Nat
  BY <1>6, <1>7, <1>8
<1>10. ReserveInv'
  <2>1. \A c \in Clients : Joined(c)' => Length(c)' >= Prefill
    BY <1>8, <1>9 DEF SteadyInv, ReserveInv
  <2>2. \A c \in Clients : Joined(c)' \/ ~client'[c].hasConnected
    BY <1>5, <1>6 DEF SteadyInv, ReserveInv
  <2> QED  BY <1>6, <2>1, <2>2 DEF ReserveInv
<1>11. CountingInv'
  <2> SUFFICES ASSUME mixPc \in {"expire", "pressure"}
               PROVE  CountingInv'
    BY <1>2 DEF CountingInv
  <2>1. CountingInv
    BY DEF SteadyInv
  <2>2. ~wakeAgain' /\ \A c \in counted' : Joined(c)'
    BY <1>2, <1>6, <1>8, <2>1 DEF CountingInv
  <2>3. \A c \in Clients : Joined(c)' /\ c < cursor /\ c \notin counted => Length(c)' > Prefill
    BY <1>8, <1>9, <2>1 DEF CountingInv
  <2>4. \A c \in Clients : Joined(c)' /\ (c \in counted \/ c >= cursor) =>
          \/ Length(c)' > Prefill
          \/ \E e \in Clients : e # c /\ Joined(e)' /\ (e \in counted \/ e >= cursor)
    BY <1>6, <1>8, <1>9, <2>1 DEF CountingInv
  <2> QED  BY <1>2, <2>2, <2>3, <2>4 DEF CountingInv
<1>12. PoppingInv'
  <2>1. PoppingInv
    BY DEF SteadyInv
  <2> QED  BY <1>2, <1>6, <1>8, <1>9, <2>1 DEF PoppingInv
<1>13. AloneInv'
  <2> SUFFICES ASSUME NEW c \in Clients, IsAlone(c)'
               PROVE  Length(c)' >= Prefill + ticks' + Notice' + Debt(c)'
    BY DEF AloneInv
  <2>1. c = d /\ \A e \in Clients : e # d => ~Joined(e)
    BY <1>6 DEF IsAlone
  <2>2. Notice' = IF queued THEN 1 ELSE 0
    BY <1>2 DEF Notice
  <2>3. Notice = 0 /\ ticks' = ticks /\ Debt(d)' = Debt(d) /\ Debt(d) \in {0, 1}
    BY <1>2 DEF Notice, Debt
  <2>4. CASE Joined(d)
    <3>1. Length(d) >= Prefill + ticks + Notice + Debt(d)
      BY <2>1, <2>4 DEF SteadyInv, AloneInv, IsAlone
    <3>2. Length(d)' = IF queued THEN Length(d) + 1 ELSE Length(d)
      BY <1>7, <2>4
    <3> QED  BY <1>8, <2>1, <2>2, <2>3, <3>1, <3>2
  <2>5. CASE ~Joined(d)
    <3>1. ticks = 0 /\ mixPc = "wait"
      BY <2>1, <2>5 DEF SteadyInv, ReserveInv
    <3>2. Debt(d) = 0
      BY <3>1 DEF Debt
    <3> QED  BY <1>7, <1>8, <2>1, <2>2, <2>3, <2>5, <3>1, <3>2
  <2> QED  BY <2>4, <2>5
<1> QED  BY <1>10, <1>11, <1>12, <1>13 DEF SteadyInv

\* The tick that was announced is given; the clock matters to nothing here.
LEMMA TickSteady ==
  ASSUME IInv, SteadyInv, WakeMixer \/ AdvanceClock \/ UNCHANGED vars
  PROVE  SteadyInv'
<1>1. UNCHANGED <<client, mixPc, cursor, counted, wakeAgain>>
  BY DEF WakeMixer, AdvanceClock, vars, clientVars, localVars
<1>2. \A c \in Clients : /\ Joined(c)' <=> Joined(c)
                         /\ Length(c)' = Length(c)
                         /\ IsAlone(c)' <=> IsAlone(c)
                         /\ client'[c].hasConnected = client[c].hasConnected
  BY <1>1, SameClients
<1>3. ReserveInv /\ CountingInv /\ PoppingInv /\ AloneInv
  BY DEF SteadyInv
<1>4. CountingInv' /\ PoppingInv'
  <2>1. counted \subseteq Clients
    BY SteadyTypes
  <2> QED  BY <1>1, <1>2, <1>3, <2>1 DEF CountingInv, PoppingInv
<1>5. \/ acceptPc = "notify" /\ acceptPc' = "wait" /\ ticks' = ticks + 1
      \/ UNCHANGED <<acceptPc, ticks>>
  BY DEF WakeMixer, AdvanceClock, vars
<1>6. ReserveInv'
  BY <1>1, <1>2, <1>3, <1>5 DEF ReserveInv
<1>7. \/ Notice = 1 /\ Notice' = 0 /\ ticks' = ticks + 1
      \/ Notice' = Notice /\ Notice \in {0, 1} /\ ticks' = ticks
  BY <1>5 DEF Notice
<1>8. AloneInv'
  <2> SUFFICES ASSUME NEW c \in Clients, IsAlone(c)'
               PROVE  Length(c)' >= Prefill + ticks' + Notice' + Debt(c)'
    BY DEF AloneInv
  <2>1. Debt(c)' = Debt(c) /\ Debt(c) \in {0, 1}
    BY <1>1 DEF Debt
  <2>2. Length(c) >= Prefill + ticks + Notice + Debt(c) /\ Length(c)' = Length(c)
    BY <1>2, <1>3 DEF AloneInv
  <2>3. Length(c) \in Nat /\ ticks \in Nat /\ Prefill \in Nat
    BY SteadyTypes
  <2> QED  BY <1>7, <2>1, <2>2, <2>3
<1> QED  BY <1>4, <1>6, <1>8 DEF SteadyInv

\* The mixer takes its tick as a debt of the pass that begins.
LEMMA MixerWakesSteady ==
  ASSUME IInv, SteadyInv, MixerWakes
  PROVE  SteadyInv'
<1>1. /\ mixPc = "wait" /\ ticks > 0 /\ ticks' = ticks - 1 /\ mixPc' = "expire"
      /\ cursor' = 1 /\ counted' = {} /\ wakeAgain' = FALSE /\ UNCHANGED <<client, acceptPc>>
  BY DEF MixerWakes, clientVars
<1>2. \A c \in Clients : /\ Joined(c)' <=> Joined(c)
                         /\ Length(c)' = Length(c)
                         /\ IsAlone(c)' <=> IsAlone(c)
                         /\ client'[c].hasConnected = client[c].hasConnected
  BY <1>1, SameClients
<1>3. ReserveInv /\ AloneInv
  BY DEF SteadyInv
<1>4. /\ \A c \in Clients : Length(c) \in Nat /\ c >= 1 /\ Debt(c) = 0 /\ Debt(c)' = 1
      /\ ticks \in Nat /\ Prefill \in Nat
  BY <1>1, SteadyTypes DEF Clients, Debt
<1>5. Notice' = Notice /\ Notice \in {0, 1}
  BY <1>1 DEF Notice
<1>6. ReserveInv'
  <2>1. \E c \in Clients : Joined(c)
    BY <1>1, <1>3, <1>4 DEF ReserveInv
  <2> QED  BY <1>2, <1>3, <2>1 DEF ReserveInv
<1>7. AloneInv'
  <2> SUFFICES ASSUME NEW c \in Clients, IsAlone(c)'
               PROVE  Length(c)' >= Prefill + ticks' + Notice' + Debt(c)'
    BY DEF AloneInv
  <2>1. Length(c) >= Prefill + ticks + Notice + Debt(c) /\ Length(c)' = Length(c)
    BY <1>2, <1>3 DEF AloneInv
  <2> QED  BY <1>1, <1>4, <1>5, <2>1
<1>8. CountingInv'
  <2>1. \A c \in Clients : IsAlone(c) => Length(c) > Prefill
    <3> SUFFICES ASSUME NEW c \in Clients, IsAlone(c) PROVE Length(c) > Prefill
      OBVIOUS
    <3>1. Length(c) >= Prefill + ticks + Notice + Debt(c)
      BY <1>3 DEF AloneInv
    <3> QED  BY <1>1, <1>4, <1>5, <3>1
  <2>2. \A c \in Clients : Joined(c)' =>
          Length(c)' > Prefill \/ \E d \in Clients : d # c /\ Joined(d)' /\ d >= 1
    BY <1>2, <1>4, <2>1 DEF IsAlone
  <2>3. \A c \in Clients : ~(c < 1)
    BY DEF Clients
  <2> QED  BY <1>1, <2>2, <2>3 DEF CountingInv
<1>9. PoppingInv'
  BY <1>1 DEF PoppingInv
<1> QED  BY <1>6, <1>7, <1>8, <1>9 DEF SteadyInv

\* Nobody is in a grace period, so nobody is disconnected.
LEMMA ExpireClientSteady ==
  ASSUME IInv, SteadyInv, PrefillFits, ExpireClient
  PROVE  SteadyInv'
<1> DEFINE d == cursor
           new == DisconnectIfGraceExpired(client[d], now)
<1>1. /\ mixPc = "expire" /\ mixPc' = "pressure" /\ d \in Clients
      /\ client' = [client EXCEPT ![d] = new]
      /\ UNCHANGED <<acceptPc, ticks, cursor, counted, wakeAgain>>
  BY DEF ExpireClient, localVars
<1>2. client[d].state # "Disconnecting"
  BY <1>1, JoinedIsHeard
<1>3. new = client[d]
  BY <1>2 DEF DisconnectIfGraceExpired
<1>4. client \in [Clients -> Client]
  BY DEF IInv, TypeOK
<1>5. \A c \in Clients : client'[c] = client[c]
  BY <1>1, <1>3, <1>4
<1>6. \A c \in Clients : /\ Joined(c)' <=> Joined(c)
                         /\ Length(c)' = Length(c)
                         /\ IsAlone(c)' <=> IsAlone(c)
                         /\ client'[c].hasConnected = client[c].hasConnected
  BY <1>5, SameClients
<1>7. ReserveInv /\ CountingInv /\ AloneInv
  BY DEF SteadyInv
<1>8. Notice' = Notice /\ \A c \in Clients : Debt(c)' = Debt(c)
  BY <1>1 DEF Notice, Debt
<1>9. ReserveInv' /\ AloneInv'
  BY <1>1, <1>6, <1>7, <1>8 DEF ReserveInv, AloneInv
<1>10. CountingInv' /\ PoppingInv'
  <2>1. counted \subseteq Clients
    BY SteadyTypes
  <2> QED  BY <1>1, <1>6, <1>7, <2>1 DEF CountingInv, PoppingInv
<1> QED  BY <1>9, <1>10 DEF SteadyInv

\* A client that is not cut back is counted if it has joined.
LEMMA PressureClientSteady ==
  ASSUME IInv, SteadyInv, PressureClient, steady'
  PROVE  SteadyInv'
<1> DEFINE d == cursor
           new == ApplyQueuePressure(client[d], Maximum, TargetQueueDepth)
<1>1. /\ mixPc = "pressure" /\ mixPc' = "expire" /\ cursor' = d + 1
      /\ client' = [client EXCEPT ![d] = new] /\ new = client[d]
      /\ counted' = IF new.state = "Disconnected" THEN counted ELSE counted \cup {d}
      /\ UNCHANGED <<acceptPc, ticks, wakeAgain>>
  BY DEF PressureClient
<1>2. client \in [Clients -> Client] /\ d \in Clients /\ d \in Int
  BY <1>1 DEF IInv, TypeOK, Clients
<1> HIDE DEF new
<1>3. \A c \in Clients : client'[c] = client[c]
  BY <1>1, <1>2
<1>4. \A c \in Clients : /\ Joined(c)' <=> Joined(c)
                         /\ Length(c)' = Length(c)
                         /\ IsAlone(c)' <=> IsAlone(c)
                         /\ client'[c].hasConnected = client[c].hasConnected
  BY <1>3, SameClients
<1>5. counted' = IF Joined(d) THEN counted \cup {d} ELSE counted
  BY <1>1 DEF Joined
<1>6. ReserveInv /\ CountingInv /\ AloneInv
  BY DEF SteadyInv
<1>7. Notice' = Notice /\ \A c \in Clients : Debt(c)' = Debt(c)
  BY <1>1 DEF Notice, Debt
<1>8. ReserveInv' /\ AloneInv'
  BY <1>1, <1>4, <1>6, <1>7 DEF ReserveInv, AloneInv
<1>9. counted \subseteq Clients /\ \A c \in Clients : c \in Int
  BY SteadyTypes
<1>10. CountingInv'
  <2>1. \A c \in Clients : Joined(c) /\ (c \in counted \/ c >= cursor)
                             <=> Joined(c) /\ (c \in counted' \/ c >= d + 1)
    BY <1>2, <1>5, <1>9
  <2>2. \A c \in Clients : Joined(c) /\ c < d + 1 /\ c \notin counted' =>
                             c < cursor /\ c \notin counted
    BY <1>2, <1>5, <1>9
  <2>3. \A c \in counted' : Joined(c)
    BY <1>1, <1>5, <1>6 DEF CountingInv
  <2>4. counted' \subseteq Clients
    BY <1>2, <1>5, <1>9
  <2>5. \A c \in Clients : Joined(c) /\ c < d + 1 /\ c \notin counted' => Length(c) > Prefill
    BY <1>1, <1>6, <2>2 DEF CountingInv
  <2>6. \A c \in Clients : Joined(c) /\ (c \in counted' \/ c >= d + 1) =>
          \/ Length(c) > Prefill
          \/ \E e \in Clients : e # c /\ Joined(e) /\ (e \in counted' \/ e >= d + 1)
    BY <1>1, <1>6, <2>1 DEF CountingInv
  <2>7. ~wakeAgain'
    BY <1>1, <1>6 DEF CountingInv
  <2> HIDE DEF d
  <2> QED  BY <1>1, <1>4, <2>3, <2>4, <2>5, <2>6, <2>7 DEF CountingInv
<1>11. PoppingInv'
  BY <1>1 DEF PoppingInv
<1> QED  BY <1>8, <1>10, <1>11 DEF SteadyInv

\* A set of clients that leaves one out has no more elements than it.
LEMMA OnlyOne ==
  ASSUME NEW S, NEW c, IsFiniteSet(S), Cardinality(S) <= 1, c \in S
  PROVE  S = {c}
<1>1. Cardinality(S) \in Nat /\ Cardinality(S \ {c}) = Cardinality(S) - 1 /\ IsFiniteSet(S \ {c})
  BY FS_RemoveElement, FS_CardinalityType
<1>2. Cardinality(S \ {c}) \in Nat
  BY <1>1, FS_CardinalityType
<1>3. Cardinality(S \ {c}) = 0
  BY <1>1, <1>2
<1>4. S \ {c} = {}
  BY <1>1, <1>3, FS_EmptySet
<1> QED  BY <1>4

\* The barrier never stops a lone client, and lets nobody through without a packet
\* to spare.
LEMMA BarrierSteady ==
  ASSUME IInv, SteadyInv, PrefillFits, NotReady \/ StartMix
  PROVE  SteadyInv'
<1>1. /\ mixPc = "expire" /\ cursor = NumClients + 1
      /\ UNCHANGED <<client, acceptPc, ticks, counted, wakeAgain>>
  BY DEF NotReady, StartMix, clientVars, localVars
<1>2. \A c \in Clients : /\ Joined(c)' <=> Joined(c)
                         /\ Length(c)' = Length(c)
                         /\ IsAlone(c)' <=> IsAlone(c)
                         /\ client'[c].hasConnected = client[c].hasConnected
  BY <1>1, SameClients
<1>3. ReserveInv /\ CountingInv /\ AloneInv
  BY DEF SteadyInv
<1>4. /\ \A c \in Clients : Length(c) \in Nat /\ c \in Int /\ c < cursor /\ ~(c >= cursor)
      /\ counted \subseteq Clients /\ IsFiniteSet(counted)
      /\ Prefill \in Nat /\ Jitter \in Nat
  <2>1. IsFiniteSet(Clients)
    BY SchedulerAssumption, FS_Interval DEF Clients
  <2>2. \A c \in Clients : c < cursor /\ ~(c >= cursor)
    BY <1>1, SchedulerAssumption DEF Clients
  <2> QED  BY <2>1, <2>2, SteadyTypes, FS_Subset
<1>5. \E c \in Clients : Joined(c)
  BY <1>1, <1>3 DEF ReserveInv
<1>6. ReserveInv'
  BY <1>2, <1>3, <1>5 DEF ReserveInv
<1>7. Notice' = Notice
  BY <1>1 DEF Notice
<1>8. CASE NotReady
  <2>1. mixPc' = "wait" /\ Cardinality(counted) > 1
    BY <1>8 DEF NotReady
  <2>2. CountingInv' /\ PoppingInv'
    BY <2>1 DEF CountingInv, PoppingInv
  <2>3. \A c \in Clients : ~IsAlone(c)
    <3> SUFFICES ASSUME NEW c \in Clients, IsAlone(c) PROVE FALSE
      OBVIOUS
    <3>1. counted \subseteq {c}
      BY <1>1, <1>3, <1>4 DEF CountingInv, IsAlone
    <3>2. IsFiniteSet({c}) /\ Cardinality({c}) = 1
      BY FS_Singleton
    <3>3. Cardinality(counted) <= 1 /\ Cardinality(counted) \in Nat
      BY <1>4, <3>1, <3>2, FS_Subset, FS_CardinalityType
    <3> QED  BY <2>1, <3>3
  <2>4. AloneInv'
    BY <1>2, <2>3 DEF AloneInv
  <2> QED  BY <1>6, <2>2, <2>4 DEF SteadyInv
<1>9. CASE StartMix
  <2>1. mixPc' = "pop" /\ cursor' = 1 /\ (AllClientsReady \/ Cardinality(counted) <= 1)
    BY <1>9 DEF StartMix
  <2>2. CountingInv'
    BY <2>1 DEF CountingInv
  <2>3. \A c \in Clients : Joined(c) => Length(c) > Prefill
    <3> SUFFICES ASSUME NEW c \in Clients, Joined(c) PROVE Length(c) > Prefill
      OBVIOUS
    <3>1. CASE c \notin counted
      BY <1>1, <1>3, <1>4, <3>1 DEF CountingInv
    <3>2. CASE c \in counted /\ AllClientsReady
      <4>1. c \in ready
        BY <3>2, AllReadyMeansEach DEF IInv
      <4>2. Length(c) > Jitter
        BY <1>1, <4>1 DEF IInv, ReadyInv, Length
      <4> QED  BY <1>4, <4>2 DEF PrefillFits
    <3>3. CASE c \in counted /\ Cardinality(counted) <= 1
      <4>1. counted = {c}
        BY <1>4, <3>3, OnlyOne
      <4>2. ~\E e \in Clients : e # c /\ Joined(e) /\ (e \in counted \/ e >= cursor)
        BY <1>4, <4>1
      <4> QED  BY <1>1, <1>3, <3>3, <4>2 DEF CountingInv
    <3> QED  BY <2>1, <3>1, <3>2, <3>3
  <2>4. ~wakeAgain'
    BY <1>1, <1>3 DEF CountingInv
  <2>5. PoppingInv'
    BY <1>2, <2>3, <2>4 DEF PoppingInv
  <2>6. \A c \in Clients : Debt(c)' = Debt(c)
    BY <1>1, <2>1 DEF Debt, Clients
  <2>7. AloneInv'
    BY <1>1, <1>2, <1>3, <1>7, <2>6 DEF AloneInv
  <2> QED  BY <1>6, <2>2, <2>5, <2>7 DEF SteadyInv
<1> QED  BY <1>8, <1>9

\* A pop takes the packet that was to spare, or nothing and then wakes the mixer
\* again.
LEMMA PopClientSteady ==
  ASSUME IInv, SteadyInv, PrefillFits, PopClient
  PROVE  SteadyInv'
<1>0. PICK d \in Clients : d = cursor
  BY DEF PopClient
<1> DEFINE new == AfterTryPop(client[d])
           filled == PoppedElement(client[d].queue).kind # "real"
<1>1. /\ mixPc = "pop" /\ mixPc' = "pop" /\ d \in Clients /\ cursor' = d + 1
      /\ TryPopSucceeds(client[d]) /\ client' = [client EXCEPT ![d] = new]
      /\ wakeAgain' = (wakeAgain \/ filled)
      /\ cursor = d /\ UNCHANGED <<acceptPc, ticks, counted>>
  BY <1>0 DEF PopClient
<1>2. ClientInv(client[d])
  BY <1>1 DEF IInv
<1>3. /\ ClientInv(new) /\ new.state = client[d].state
      /\ Size(new.queue) >= Size(client[d].queue) - 1
      /\ filled => Size(new.queue) = Size(client[d].queue)
  BY <1>1, <1>2, TryPopInv, FillInTakesNothing
<1>4. new.hasConnected = client[d].hasConnected
  BY <1>2 DEF AfterTryPop, ClientInv, Client
<1>5. Size(new.queue) \in Nat
  BY <1>3, SizeType
<1> HIDE DEF new, filled
<1>6. client'[d] = new /\ \A c \in Clients : c # d => client'[c] = client[c]
  BY <1>1, <1>3, OneClientChanges
<1>7. /\ \A c \in Clients : (Joined(c)' <=> Joined(c)) /\ (IsAlone(c)' <=> IsAlone(c))
      /\ \A c \in Clients : c # d => Length(c)' = Length(c)
      /\ Length(d)' \in Nat /\ Length(d)' >= Length(d) - 1 /\ (filled => Length(d)' = Length(d))
  <2>1. \A c \in Clients : Joined(c)' <=> Joined(c)
    BY <1>3, <1>6 DEF Joined
  <2>2. \A c \in Clients : c # d => Length(c)' = Length(c)
    BY <1>6 DEF Length
  <2>3. Length(d)' = Size(new.queue) /\ Length(d) = Size(client[d].queue)
    BY <1>6 DEF Length
  <2> QED  BY <1>3, <1>5, <2>1, <2>2, <2>3 DEF IsAlone
<1>8. Joined(d)
  BY <1>1, JoinedIsHeard
<1>9. /\ \A c \in Clients : Length(c) \in Nat /\ c \in Int
      /\ ticks \in Nat /\ Prefill \in Nat
  BY SteadyTypes
<1>10. ReserveInv /\ PoppingInv /\ AloneInv
  BY DEF SteadyInv
<1>11. Length(d) > Prefill
  BY <1>1, <1>8, <1>9, <1>10 DEF PoppingInv
<1>12. ReserveInv'
  <2>1. \A c \in Clients : Joined(c)' => Length(c)' >= Prefill
    BY <1>7, <1>9, <1>10, <1>11 DEF ReserveInv
  <2>2. \A c \in Clients : Joined(c)' \/ ~client'[c].hasConnected
    BY <1>4, <1>6, <1>7, <1>10 DEF ReserveInv
  <2> QED  BY <1>1, <1>7, <1>8, <2>1, <2>2 DEF ReserveInv
<1>13. CountingInv'
  BY <1>1 DEF CountingInv
<1>14. PoppingInv'
  <2>1. \A c \in Clients : Joined(c)' /\ c >= d + 1 => Length(c)' > Prefill
    BY <1>1, <1>7, <1>9, <1>10 DEF PoppingInv
  <2>2. Joined(d)' /\ d < d + 1
    BY <1>1, <1>7, <1>8, <1>9
  <2> QED  BY <1>1, <2>1, <2>2 DEF PoppingInv
<1>15. AloneInv'
  <2> SUFFICES ASSUME NEW c \in Clients, IsAlone(c)'
               PROVE  Length(c)' >= Prefill + ticks' + Notice' + Debt(c)'
    BY DEF AloneInv
  <2>1. IsAlone(c) /\ Length(c) >= Prefill + ticks + Notice + Debt(c)
    BY <1>7, <1>10 DEF AloneInv
  <2>2. c = d
    BY <1>1, <1>8, <2>1 DEF IsAlone
  <2>3. ~wakeAgain
    BY <1>1, <1>9, <1>10, <2>1, <2>2 DEF PoppingInv, IsAlone
  <2>4. wakeAgain' <=> filled
    BY <1>1, <2>3
  <2>5. Debt(d) = 1 /\ Debt(d)' = IF filled THEN 1 ELSE 0
    <3>1. ~(d + 1 <= d) /\ d <= d
      BY <1>9
    <3> QED  BY <1>1, <2>4, <3>1 DEF Debt
  <2>6. Notice' = Notice /\ Notice \in {0, 1} /\ ticks' = ticks
    BY <1>1 DEF Notice
  <2>7. CASE filled
    BY <1>7, <1>9, <2>1, <2>2, <2>5, <2>6, <2>7
  <2>8. CASE ~filled
    BY <1>7, <1>9, <2>1, <2>2, <2>5, <2>6, <2>8
  <2> QED  BY <2>7, <2>8
<1> QED  BY <1>12, <1>13, <1>14, <1>15 DEF SteadyInv

\* Only a client that has not joined has nothing to pop, and the cursor moves on.
LEMMA NothingToPopSteady ==
  ASSUME IInv, SteadyInv, PrefillFits, PopFails \/ PeekClient \/ AllPopped
  PROVE  SteadyInv'
<1>1. /\ mixPc \in {"pop", "peek"} /\ UNCHANGED <<client, acceptPc, ticks, counted, wakeAgain>>
  BY DEF PopFails, PeekClient, AllPopped, clientVars
<1>2. \A c \in Clients : /\ Joined(c)' <=> Joined(c)
                         /\ Length(c)' = Length(c)
                         /\ IsAlone(c)' <=> IsAlone(c)
                         /\ client'[c].hasConnected = client[c].hasConnected
  BY <1>1, SameClients
<1>3. ReserveInv /\ PoppingInv /\ AloneInv
  BY DEF SteadyInv
<1>4. /\ \A c \in Clients : Length(c) \in Nat /\ c \in Int
      /\ ticks \in Nat /\ Prefill \in Nat /\ cursor \in Int
  BY SteadyTypes
<1>5. \/ mixPc' \in {"pop", "peek"} /\ cursor' \in {cursor, cursor + 1}
      \/ mixPc' = "mark" /\ cursor = NumClients + 1
  BY DEF PopFails, PeekClient, AllPopped
<1>6. ReserveInv'
  BY <1>1, <1>2, <1>3 DEF ReserveInv
<1>7. CountingInv'
  BY <1>5 DEF CountingInv
<1>8. PoppingInv'
  <2> SUFFICES ASSUME mixPc' \in {"pop", "peek"}
               PROVE  /\ \A c \in Clients : Joined(c) /\ c >= cursor' => Length(c) > Prefill
                      /\ wakeAgain => \E d \in Clients : Joined(d) /\ d < cursor'
    BY <1>1, <1>2 DEF PoppingInv
  <2>1. \A c \in Clients : (c >= cursor' => c >= cursor) /\ (c < cursor => c < cursor')
    BY <1>4, <1>5
  <2> QED  BY <1>1, <1>3, <2>1 DEF PoppingInv
<1>9. \A c \in Clients : Debt(c)' \in {0, 1} /\ Debt(c) \in {0, 1} /\ Debt(c)' <= Debt(c)
  <2> SUFFICES ASSUME NEW c \in Clients
               PROVE  Debt(c)' \in {0, 1} /\ Debt(c) \in {0, 1} /\ Debt(c)' <= Debt(c)
    OBVIOUS
  <2>1. CASE cursor <= c
    <3>1. Debt(c) = 1 /\ Debt(c)' \in {0, 1}
      BY <1>1, <2>1 DEF Debt
    <3> QED  BY <3>1
  <2>2. CASE ~(cursor <= c)
    <3>1. ~(cursor' <= c) \/ mixPc' = "mark"
      BY <1>4, <1>5, <2>2
    <3>2. Debt(c) = (IF wakeAgain THEN 1 ELSE 0) /\ Debt(c)' = (IF wakeAgain THEN 1 ELSE 0)
      BY <1>1, <1>5, <2>2, <3>1 DEF Debt
    <3> QED  BY <3>2
  <2> QED  BY <2>1, <2>2
<1>10. AloneInv'
  <2> SUFFICES ASSUME NEW c \in Clients, IsAlone(c)'
               PROVE  Length(c)' >= Prefill + ticks' + Notice' + Debt(c)'
    BY DEF AloneInv
  <2>1. Length(c) >= Prefill + ticks + Notice + Debt(c)
    BY <1>2, <1>3 DEF AloneInv
  <2>2. Notice' = Notice /\ Notice \in {0, 1} /\ ticks' = ticks /\ Length(c)' = Length(c)
    BY <1>1, <1>2 DEF Notice
  <2> QED  BY <1>4, <1>9, <2>1, <2>2
<1> QED  BY <1>6, <1>7, <1>8, <1>10 DEF SteadyInv

\* Nobody is marked, for who has joined has packets and an observation of it is out
\* of date.
LEMMA MarkClientSteady ==
  ASSUME IInv, SteadyInv, PrefillFits, MarkClient
  PROVE  SteadyInv'
<1>0. PICK d \in Clients : d = cursor
  BY DEF MarkClient
<1> DEFINE new == MarkUnderrun(client[d], observed[d], now)
<1>1. /\ mixPc = "mark" /\ mixPc' = mixPc
      /\ client' = IF observed[d] = NoObservation THEN client ELSE [client EXCEPT ![d] = new]
      /\ UNCHANGED <<acceptPc, ticks, wakeAgain>>
  BY <1>0 DEF MarkClient
<1>2. ObservedInv /\ client \in [Clients -> Client]
  BY DEF IInv, TypeOK
<1>3. observed[d] # NoObservation => new = client[d]
  <2>1. client[d].state = "Connected" => client[d].queue.packetQueue # {}
    BY JoinedIsHeard DEF Joined
  <2>2. observed[d] # NoObservation =>
          ~(client[d].state = "Connected" /\ client[d].activityGeneration = observed[d])
    BY <1>2, <2>1 DEF ObservedInv
  <2> QED  BY <2>2 DEF MarkUnderrun
<1> HIDE DEF new
<1>4. \A c \in Clients : client'[c] = client[c]
  BY <1>1, <1>2, <1>3
<1>5. \A c \in Clients : /\ Joined(c)' <=> Joined(c)
                         /\ Length(c)' = Length(c)
                         /\ IsAlone(c)' <=> IsAlone(c)
                         /\ client'[c].hasConnected = client[c].hasConnected
  BY <1>4, SameClients
<1>6. ReserveInv /\ AloneInv
  BY DEF SteadyInv
<1>7. Notice' = Notice /\ \A c \in Clients : Debt(c)' = Debt(c)
  BY <1>1 DEF Notice, Debt
<1>8. ReserveInv' /\ AloneInv'
  BY <1>1, <1>5, <1>6, <1>7 DEF ReserveInv, AloneInv
<1>9. CountingInv' /\ PoppingInv'
  BY <1>1 DEF CountingInv, PoppingInv
<1> QED  BY <1>8, <1>9 DEF SteadyInv

\* The wake-up after a fill-in becomes a tick.
LEMMA FinishMixSteady ==
  ASSUME IInv, SteadyInv, FinishMix
  PROVE  SteadyInv'
<1>1. /\ mixPc = "mark" /\ mixPc' = "wait" /\ UNCHANGED <<client, acceptPc>>
      /\ ticks' = IF wakeAgain THEN ticks + 1 ELSE ticks
  BY DEF FinishMix, clientVars
<1>2. \A c \in Clients : /\ Joined(c)' <=> Joined(c)
                         /\ Length(c)' = Length(c)
                         /\ IsAlone(c)' <=> IsAlone(c)
                         /\ client'[c].hasConnected = client[c].hasConnected
  BY <1>1, SameClients
<1>3. ReserveInv /\ AloneInv
  BY DEF SteadyInv
<1>4. \A c \in Clients : Debt(c)' = 0 /\ Debt(c) = IF wakeAgain THEN 1 ELSE 0
  BY <1>1 DEF Debt
<1>5. ReserveInv'
  BY <1>1, <1>2, <1>3 DEF ReserveInv
<1>6. AloneInv'
  <2> SUFFICES ASSUME NEW c \in Clients, IsAlone(c)'
               PROVE  Length(c)' >= Prefill + ticks' + Notice' + Debt(c)'
    BY DEF AloneInv
  <2>1. Length(c) >= Prefill + ticks + Notice + Debt(c) /\ Length(c)' = Length(c)
    BY <1>2, <1>3 DEF AloneInv
  <2>2. Notice' = Notice /\ Notice \in {0, 1}
    BY <1>1 DEF Notice
  <2>3. Length(c) \in Nat /\ ticks \in Nat /\ Prefill \in Nat
    BY SteadyTypes
  <2> QED  BY <1>1, <1>4, <2>1, <2>2, <2>3
<1>7. CountingInv' /\ PoppingInv'
  BY <1>1 DEF CountingInv, PoppingInv
<1> QED  BY <1>5, <1>6, <1>7 DEF SteadyInv

\* Before the first packet nobody has joined.
LEMMA InitSteady == Init => SteadyInv
<1> SUFFICES ASSUME Init PROVE SteadyInv
  OBVIOUS
<1>1. \A c \in Clients : ~Joined(c) /\ ~client[c].hasConnected
  BY DEF Init, Joined, NewClient
<1> QED  BY <1>1 DEF Init, SteadyInv, ReserveInv, CountingInv, PoppingInv, AloneInv, IsAlone

\* Every step of either thread keeps it, as long as there is no time-out and no
\* fast-forward.
LEMMA NextSteady ==
  ASSUME PrefillFits
  PROVE  IInv /\ (steady => SteadyInv) /\ [Next]_vars => (steady' => SteadyInv')
<1> SUFFICES ASSUME IInv, steady => SteadyInv, [Next]_vars, steady' PROVE SteadyInv'
  OBVIOUS
<1>1. CASE AcceptTimeout
  BY <1>1 DEF AcceptTimeout
<1>2. CASE PressureClient
  <2>1. steady
    BY <1>2 DEF PressureClient
  <2> QED  BY <1>2, <2>1, PressureClientSteady
<1>3. CASE ~AcceptTimeout /\ ~PressureClient
  <2>1. steady
    BY <1>3 DEF Next, Mixer, vars, clientVars, AcceptAudio, WakeMixer, AdvanceClock, MixerWakes,
                ExpireClient, NotReady, StartMix, PopClient, PopFails, PeekClient, AllPopped,
                MarkClient, FinishMix
  <2>2. CASE \E c \in Clients, ctr \in FirstCounter..MaxCounter : AcceptAudio(c, ctr)
    BY <2>1, <2>2, AcceptAudioSteady
  <2>3. CASE WakeMixer \/ AdvanceClock \/ UNCHANGED vars
    BY <2>1, <2>3, TickSteady
  <2>4. CASE Mixer
    BY <1>3, <2>1, <2>4, MixerWakesSteady, ExpireClientSteady, BarrierSteady, PopClientSteady,
       NothingToPopSteady, MarkClientSteady, FinishMixSteady DEF Mixer
  <2> QED  BY <1>3, <2>2, <2>3, <2>4 DEF Next
<1> QED  BY <1>1, <1>2, <1>3

\* The invariant of a server without time-outs and fast-forwards: what each tick in
\* flight stands for.
THEOREM SteadyInvariant ==
  ASSUME PrefillFits
  PROVE  Spec => [](steady => SteadyInv)
BY InitSteady, NextSteady, SchedulerInvariant, PTL DEF Spec

\* processAudioMessage ticks for packets that were queued only, so without time-outs
\* and fast-forwards no client's queue falls below the padding it began with.
THEOREM SchedulerPrefillLasts ==
  ASSUME Prefill <= Jitter, Prefill < FirstCounter
  PROVE  Spec => []PrefillLasts
<1>1. CASE Prefill = 0
  <2>1. IInv => PrefillLasts
    <3> SUFFICES ASSUME IInv, NEW c \in Clients PROVE QueueLength(client[c]) >= Prefill
      BY DEF PrefillLasts
    <3>1. QueueLength(client[c]) \in Nat
      BY SizeType DEF IInv, QueueLength
    <3> QED  BY <1>1, <3>1
  <2> QED  BY <2>1, SchedulerInvariant, PTL
<1>2. CASE Prefill # 0
  <2>1. PrefillFits
    BY <1>2, ClientAssumption DEF PrefillFits
  <2>2. IInv /\ (steady => SteadyInv) => PrefillLasts
    <3> SUFFICES ASSUME IInv, SteadyInv, NEW c \in Clients, client[c].state # "Disconnected"
                 PROVE  QueueLength(client[c]) >= Prefill
      BY DEF PrefillLasts
    <3>1. ClientInv(client[c]) /\ Joined(c)
      BY DEF IInv, Joined
    <3>2. Length(c) >= Prefill
      BY <3>1 DEF SteadyInv, ReserveInv
    <3> QED  BY <3>1, <3>2 DEF QueueLength, Length, IsOpen, ClientInv
  <2>3. Spec => [](steady => SteadyInv)
    BY <2>1, SteadyInvariant
  <2> QED  BY <2>2, <2>3, SchedulerInvariant, PTL
<1> QED  BY <1>1, <1>2
=============================================================================
