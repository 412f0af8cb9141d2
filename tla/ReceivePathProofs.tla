-------------------------- MODULE ReceivePathProofs --------------------------
(***************************************************************************)
(* The way of the server's mix through the client, for every number of     *)
(* packets and requests and for all queue, frame and block sizes: frames   *)
(* are labelled with a generation they belong to, nothing old is played    *)
(* after a reset, the timing markers stay with their samples, and what     *)
(* waits is bounded.  And the way of a control message to the server that  *)
(* the configuration names.                                                *)
(***************************************************************************)
EXTENDS ReceivePath, Transport, StreamQueueProofs

-----------------------------------------------------------------------------
(* The worker's queue operations *)

\* The packets of the server's mix, as the worker queues them.
Plain(q) == \A p \in q.packetQueue : p.fec = NoFec /\ p.ctr \in 1..MaxCounter

Arrived == {inbound[i] : i \in 1..Len(inbound)}

\* drainInbound keeps the queue well formed and adds nothing but what arrived.
LEMMA DrainedIsWellFormed ==
  ASSUME NEW q, WellFormed(q), Plain(q), inbound \in Seq(1..MaxCounter)
  PROVE  /\ WellFormed(Drained(q)) /\ Plain(Drained(q))
         /\ Counters(Drained(q)) \subseteq Counters(q) \cup Arrived
         /\ Drained(q).lastPopped = q.lastPopped
         /\ Drained(q).hasPoppedData = q.hasPoppedData
<1> DEFINE fresh == {c \in Arrived : c > q.lastPopped}
           added == {[ctr |-> c, fec |-> NoFec] : c \in fresh}
           r == Drained(q)
<1>1. /\ q \in Queue /\ IsFiniteSet(q.packetQueue) /\ IndexIsExact(q)
      /\ AheadOfPosition(q) /\ GapIsClosing(q)
  BY DEF WellFormed
<1>2. r = [q EXCEPT !.packetQueue = @ \cup added, !.currentlyInQueue = @ \cup fresh]
  BY DEF Drained, Arrived
<1>3. Len(inbound) \in Nat /\ Arrived \subseteq 1..MaxCounter /\ MaxCounter \in Nat
  <2>1. MaxCounter \in Nat
    BY ReceiveAssumption
  <2>2. \A i \in 1..Len(inbound) : inbound[i] \in 1..MaxCounter
    BY <2>1
  <2> QED  BY <2>1, <2>2 DEF Arrived
<1>4. fresh \subseteq Nat /\ \A c \in fresh : c \in 1..MaxCounter /\ c \in Arrived /\ c > q.lastPopped
  <2>1. 1..MaxCounter \subseteq Nat
    BY <1>3
  <2> QED  BY <1>3, <2>1
<1>5. IsFiniteSet(added)
  <2>1. IsFiniteSet(1..MaxCounter)
    BY <1>3, FS_Interval
  <2>2. fresh \in SUBSET (1..MaxCounter)
    BY <1>4
  <2>3. IsFiniteSet(fresh)
    BY <2>1, <2>2, FS_Subset
  <2> HIDE DEF fresh
  <2> DEFINE f == [c \in fresh |-> [ctr |-> c, fec |-> NoFec]]
  <2>4. f \in Surjection(fresh, added)
    BY DEF Surjection
  <2> QED  BY <2>3, <2>4, FS_Surjection
<1>6. /\ \A p \in added : p \in Packet /\ p.ctr \in fresh /\ p.fec = NoFec
      /\ \A c \in fresh : [ctr |-> c, fec |-> NoFec] \in added /\ [ctr |-> c, fec |-> NoFec].ctr = c
  BY <1>4 DEF Packet, NoFec
<1> HIDE DEF fresh, added
<1>7. /\ r.packetQueue = q.packetQueue \cup added
      /\ r.currentlyInQueue = q.currentlyInQueue \cup fresh
      /\ r.lastPopped = q.lastPopped /\ r.hasPoppedData = q.hasPoppedData
      /\ r.currentGap = q.currentGap
  BY <1>1, <1>2 DEF Queue
<1>8. r \in Queue
  BY <1>1, <1>2, <1>4, <1>6 DEF Queue
<1> HIDE DEF r
<1>9. Counters(r) = Counters(q) \cup fresh
  <2>1. \A c \in Counters(r) : c \in Counters(q) \cup fresh
    BY <1>6, <1>7 DEF Counters
  <2>2. \A c \in fresh : c \in Counters(r)
    <3> SUFFICES ASSUME NEW c \in fresh PROVE \E p \in r.packetQueue : p.ctr = c
      BY DEF Counters
    <3>1. [ctr |-> c, fec |-> NoFec] \in r.packetQueue
      BY <1>6, <1>7
    <3> WITNESS [ctr |-> c, fec |-> NoFec] \in r.packetQueue
    <3> QED  BY <1>6
  <2>3. Counters(q) \subseteq Counters(r)
    BY <1>7 DEF Counters
  <2> QED  BY <2>1, <2>2, <2>3
<1>10. IsFiniteSet(r.packetQueue)
  <2>1. IsFiniteSet(q.packetQueue) /\ IsFiniteSet(added)
    BY <1>1, <1>5
  <2>2. IsFiniteSet(q.packetQueue \cup added)
    BY <2>1, FS_Union
  <2> QED  BY <1>7, <2>2
<1>11. Plain(r)
  BY <1>4, <1>6, <1>7 DEF Plain
<1>12. \A x, y \in r.packetQueue : x.ctr = y.ctr => x = y
  <2>1. \A x \in r.packetQueue : x \in Packet /\ x.fec = NoFec
    BY <1>8, <1>11 DEF Plain, Queue
  <2> QED  BY <2>1 DEF Packet
<1>13. IndexIsExact(r)
  BY <1>1, <1>7, <1>9, <1>12 DEF IndexIsExact
<1>14. AheadOfPosition(r)
  BY <1>1, <1>4, <1>7, <1>9 DEF AheadOfPosition
<1>15. GapIsClosing(r)
  BY <1>1, <1>7, <1>9 DEF GapIsClosing
<1>16. Counters(r) \subseteq Counters(q) \cup Arrived
  BY <1>4, <1>9
<1> QED  BY <1>7, <1>8, <1>10, <1>11, <1>13, <1>14, <1>15, <1>16 DEF WellFormed, r

\* The recovery from an overrun keeps the queue well formed and short, and its
\* last pop is a packet that was queued.
LEMMA DiscardIsWellFormed ==
  ASSUME NEW q, WellFormed(q), Plain(q), least \in Nat, Len(out) \in Nat
  PROVE  LET n == IF least > Len(out) THEN least - Len(out) ELSE 0
             r == DiscardToMinimum(q)
         IN  /\ WellFormed(r) /\ Plain(r) /\ Counters(r) \subseteq Counters(q)
             /\ Size(r) <= n
             /\ \/ r = q
                \/ /\ r.lastPopped \in Counters(q) /\ r.hasPoppedData = TRUE
                   /\ r.lastPopped # q.lastPopped
<1> DEFINE n == IF least > Len(out) THEN least - Len(out) ELSE 0
           r == DiscardToMinimum(q)
           gone == Discarded(q, n)
           kept == NewestPackets(q.packetQueue, n)
           counters == {p.ctr : p \in gone}
<1>1. n \in Nat /\ MaxCounter \in Nat
  BY ReceiveAssumption
<1>2. /\ q \in Queue /\ IsFiniteSet(q.packetQueue) /\ IndexIsExact(q)
      /\ AheadOfPosition(q)
  BY DEF WellFormed
<1>3. Size(FastForwardToSize(q, n)) <= n
  BY <1>1, FastForwardShortens
<1>4. CASE gone = {}
  <2>1. r = q /\ FastForwardToSize(q, n) = q
    BY <1>4 DEF DiscardToMinimum, FastForwardToSize
  <2> QED  BY <1>3, <2>1
<1>5. CASE gone # {}
  <2>1. r = [q EXCEPT !.packetQueue = kept, !.currentlyInQueue = @ \ counters,
                      !.lastPopped = Max(counters), !.hasPoppedData = TRUE, !.currentGap = 0]
    BY <1>5 DEF DiscardToMinimum
  <2>2. FastForwardToSize(q, n).packetQueue = kept
    BY <1>2, <1>5 DEF FastForwardToSize, Queue
  <2>3. gone \subseteq q.packetQueue /\ kept \subseteq q.packetQueue
        /\ q.packetQueue = gone \cup kept /\ gone \cap kept = {}
    BY DEF Discarded, NewestPackets
  <2>4. \A p \in gone, k \in kept : p.ctr < k.ctr
    BY <1>1, DiscardedIsOlder
  <2> HIDE DEF gone, kept
  <2>5. counters \subseteq Counters(q) /\ counters # {} /\ counters \subseteq 0..MaxCounter
    BY <1>5, <2>3 DEF Counters, Plain
  <2>6. Max(counters) \in counters /\ \A c \in counters : c <= Max(counters)
    BY <1>1, <2>5, MaxOfBounded
  <2> HIDE DEF counters
  <2>17. Max(counters) \in Nat /\ counters \subseteq Nat
    <3>1. 0..MaxCounter \subseteq Nat
      BY <1>1
    <3> QED  BY <2>5, <2>6, <3>1
  <2>7. /\ r.packetQueue = kept /\ r.currentlyInQueue = q.currentlyInQueue \ counters
        /\ r.lastPopped = Max(counters) /\ r.hasPoppedData = TRUE /\ r.currentGap = 0
    BY <1>2, <2>1 DEF Queue
  <2>8. r \in Queue
    <3>1. kept \in SUBSET Packet /\ q.currentlyInQueue \ counters \in SUBSET Nat
      BY <1>2, <2>3 DEF Queue
    <3> DEFINE m == Max(counters)
               rest == q.currentlyInQueue \ counters
    <3>2. m \in Nat /\ rest \in SUBSET Nat
          /\ r = [q EXCEPT !.packetQueue = kept, !.currentlyInQueue = rest, !.lastPopped = m,
                           !.hasPoppedData = TRUE, !.currentGap = 0]
      BY <1>2, <2>1, <2>17, <3>1 DEF Queue
    <3> HIDE DEF m, rest, r
    <3> QED  BY <1>2, <3>1, <3>2 DEF Queue
  <2> HIDE DEF r
  <2>9. IsFiniteSet(r.packetQueue)
    BY <1>2, <2>3, <2>7, FS_Subset
  <2>10. Plain(r) /\ Counters(r) \subseteq Counters(q)
    BY <2>3, <2>7 DEF Plain, Counters
  <2>11. \A c \in Counters(r) : c > Max(counters)
    <3>1. \A c \in Counters(r) : \E k \in kept : k.ctr = c
      BY <2>7 DEF Counters
    <3>2. \E p \in gone : p.ctr = Max(counters)
      BY <2>6 DEF counters
    <3>3. \A k \in kept : k.ctr \in Nat
      BY <2>3, ReceiveAssumption DEF Plain
    <3> QED  BY <2>4, <2>17, <3>1, <3>2, <3>3
  <2>12. Counters(r) = Counters(q) \ counters
    <3>1. Counters(r) \cap counters = {}
      <4>1. \A c \in counters : ~(c > Max(counters))
        BY <2>6, <2>17
      <4> QED  BY <2>11, <4>1
    <3>2. Counters(q) = Counters(r) \cup counters
      BY <2>3, <2>7 DEF Counters, counters
    <3> QED  BY <3>1, <3>2
  <2>13. IndexIsExact(r)
    BY <1>2, <2>3, <2>7, <2>12 DEF IndexIsExact
  <2>14. AheadOfPosition(r) /\ GapIsClosing(r)
    BY <2>7, <2>11 DEF AheadOfPosition, GapIsClosing
  <2>15. Size(r) <= n
    BY <1>3, <2>2, <2>7 DEF Size
  <2>16. r.lastPopped \in Counters(q) /\ r.lastPopped # q.lastPopped
    <3>1. Max(counters) \in Counters(q)
      BY <2>5, <2>6
    <3>2. Max(counters) > q.lastPopped /\ Max(counters) \in Nat /\ q.lastPopped \in Nat
      BY <1>2, <2>17, <3>1 DEF AheadOfPosition, Queue
    <3> QED  BY <2>7, <3>1, <3>2
  <2> QED  BY <2>7, <2>8, <2>9, <2>10, <2>13, <2>14, <2>15, <2>16 DEF WellFormed, r
<1> QED  BY <1>4, <1>5

-----------------------------------------------------------------------------
(* Generations *)

\* The types of everything between network and callback.
WorkerData ==
  /\ sent \in 0..MaxCounter /\ inbound \in Seq(1..MaxCounter) /\ origin \in [1..MaxCounter -> Nat]
  /\ WellFormed(queue) /\ Plain(queue) /\ out \in Seq(Frame)
  /\ activeGeneration \in Nat /\ requestedGeneration \in Nat
  /\ minimumFrames \in Nat /\ maximumFrames \in Nat /\ wanted \in Nat
  /\ least \in Nat /\ limit \in Nat

\* What waits anywhere has arrived since the reset the worker applied last.
GenerationInv ==
  /\ activeGeneration <= requestedGeneration
  /\ \A c \in 1..MaxCounter : origin[c] <= requestedGeneration
  /\ \A c \in Arrived : origin[c] >= activeGeneration
  /\ \A c \in Counters(queue) : origin[c] >= activeGeneration
  /\ \A i \in 1..Len(out) : /\ out[i].origin >= out[i].generation
                            /\ out[i].origin <= requestedGeneration

WorkerInv == WorkerData /\ GenerationInv

\* The playout bounds are natural numbers.
LEMMA RangesAreNatural ==
  ASSUME NEW range \in PlayoutRanges
  PROVE  range[1] \in Nat /\ range[2] \in Nat /\ AtLeast(range[1], range[2]) \in Nat
BY ReceiveAssumption DEF AtLeast

\* The counters in the queue are counters the server sent.
LEMMA PlainCounters ==
  ASSUME NEW q, Plain(q) PROVE Counters(q) \subseteq 1..MaxCounter
BY DEF Plain, Counters

\* What one pass of the checks does to the ordered packets.
LEMMA CheckedQueue ==
  ASSUME WorkerData, CheckQueues
  PROVE  /\ WellFormed(queue') /\ Plain(queue') /\ Counters(queue') \subseteq Counters(queue)
         /\ \/ Len(out) + Size(queue') <= maximumFrames
            \/ Len(out) + Size(queue') <= least
            \/ Len(out) + Size(queue') <= Len(out)
<1> DEFINE over == recovering \/ Overrun(queue)
           kept == DiscardToMinimum(queue)
           n == IF least > Len(out) THEN least - Len(out) ELSE 0
<1>1. queue' = IF over THEN kept ELSE queue
  BY DEF CheckQueues, Checks
<1>2. WellFormed(queue) /\ Plain(queue) /\ Len(out) \in Nat /\ least \in Nat
  BY DEF WorkerData
<1>3. /\ WellFormed(kept) /\ Plain(kept) /\ Counters(kept) \subseteq Counters(queue)
      /\ Size(kept) <= n
  BY <1>2, DiscardIsWellFormed
<1>4. Size(kept) \in Nat /\ Size(queue) \in Nat
  BY <1>2, <1>3, FS_CardinalityType DEF WellFormed, Size
<1>5. ~over => Len(out) + Size(queue) <= maximumFrames
  BY <1>2, <1>4 DEF Overrun, Combined, WorkerData
<1> HIDE DEF over, kept
<1>6. CASE over
  <2>1. \/ Len(out) + Size(kept) <= least
        \/ Len(out) + Size(kept) <= Len(out)
    BY <1>2, <1>3, <1>4
  <2> QED  BY <1>1, <1>3, <1>6, <2>1
<1>7. CASE ~over
  BY <1>1, <1>2, <1>5, <1>7
<1> QED  BY <1>6, <1>7

\* The frame that is prepared, from the packet at the head of the queue, and the
\* queue it leaves behind.
LEMMA PreparedFrame ==
  ASSUME WorkerData, PrepareOneFrame
  PROVE  /\ WellFormed(queue') /\ Plain(queue') /\ Counters(queue') \subseteq Counters(queue)
         /\ TopCounter(queue) \in Counters(queue)
         /\ Size(queue) \in Nat /\ Size(queue') \in Nat /\ Size(queue') <= Size(queue)
<1>1. queue.packetQueue # {} /\ queue' = AfterPop(queue)
  BY DEF PrepareOneFrame, CanPrepare
<1>2. WellFormed(queue) /\ Plain(queue) /\ Size(queue) \in Nat
  BY FS_CardinalityType DEF WorkerData, WellFormed, Size
<1>5. TopCounter(queue) \in Counters(queue)
  BY <1>1, <1>2, TopIsOldest
<1>3. CASE IsExpected(queue)
  <2>1. queue' = PopReal(queue)
    BY <1>1, <1>3 DEF AfterPop
  <2>3. /\ WellFormed(PopReal(queue)) /\ Size(PopReal(queue)) = Size(queue) - 1
        /\ Counters(PopReal(queue)) \subseteq Counters(queue)
    BY <1>1, <1>2, PopRealKeepsWellFormed
  <2>4. Size(queue') \in Nat
    BY <2>1, <2>3, FS_CardinalityType DEF WellFormed, Size
  <2>5. Plain(queue')
    BY <1>2, <2>1 DEF PopReal, Plain, WellFormed, Queue
  <2> QED  BY <1>2, <1>5, <2>1, <2>3, <2>4, <2>5
<1>4. CASE ~IsExpected(queue)
  <2>1. queue' = PopFillIn(queue)
    BY <1>1, <1>4 DEF AfterPop
  <2>2. WellFormed(PopFillIn(queue)) /\ PopFillIn(queue).packetQueue = queue.packetQueue
    BY <1>1, <1>2, <1>4, PopFillInKeepsWellFormed
  <2> QED  BY <1>2, <1>5, <2>1, <2>2 DEF Plain, Counters, Size
<1> QED  BY <1>3, <1>4

\* A packet that arrives is of the generation requested last.
LEMMA ArriveWorkerInv ==
  ASSUME WorkerInv, Arrive PROVE WorkerInv'
<1> USE DEF WorkerInv, WorkerData
<1>1. PICK ctr \in {sent + 1, sent + 2} \cap 1..MaxCounter :
        /\ sent' = ctr /\ inbound' = TryWrite(inbound, ctr, InputCapacity)
        /\ origin' = [origin EXCEPT ![ctr] = requestedGeneration]
  BY DEF Arrive
<1>2. UNCHANGED <<queue, out, activeGeneration, requestedGeneration, minimumFrames,
                  maximumFrames, wanted, least, limit>>
  BY DEF Arrive, workerVars, sharedVars, messageVars
<1>3. MaxCounter \in Nat /\ ctr \in 1..MaxCounter
  BY ReceiveAssumption
<1>4. /\ origin' \in [1..MaxCounter -> Nat] /\ origin'[ctr] = requestedGeneration
      /\ \A c \in 1..MaxCounter : c # ctr => origin'[c] = origin[c]
  BY <1>1, <1>3
<1>5. /\ inbound' \in Seq(1..MaxCounter)
      /\ \A i \in 1..Len(inbound') : \/ inbound'[i] = ctr
                                     \/ i \in 1..Len(inbound) /\ inbound'[i] = inbound[i]
  <2>1. CASE inbound' = inbound
    BY <2>1
  <2>2. CASE inbound' = Append(inbound, ctr)
    <3>1. /\ inbound' \in Seq(1..MaxCounter) /\ Len(inbound') = Len(inbound) + 1
          /\ Len(inbound) \in Nat
      BY <1>3, <2>2
    <3> SUFFICES ASSUME NEW i \in 1..Len(inbound')
                 PROVE  \/ inbound'[i] = ctr
                        \/ i \in 1..Len(inbound) /\ inbound'[i] = inbound[i]
      BY <3>1
    <3>2. CASE i = Len(inbound) + 1
      BY <2>2, <3>2
    <3>3. CASE i # Len(inbound) + 1
      BY <2>2, <3>1, <3>3
    <3> QED  BY <3>2, <3>3
  <2> QED  BY <1>1, <2>1, <2>2 DEF TryWrite
<1>6. \A c \in Arrived' : c = ctr \/ c \in Arrived
  BY <1>5 DEF Arrived
<1>7. Arrived \subseteq 1..MaxCounter /\ Counters(queue) \subseteq 1..MaxCounter
  <2>1. \A i \in 1..Len(inbound) : inbound[i] \in 1..MaxCounter
    BY <1>3
  <2> QED  BY <2>1, PlainCounters DEF Arrived
<1>8. WorkerData'
  <2>1. sent' \in 0..MaxCounter
    BY <1>1, <1>3
  <2> QED  BY <1>2, <1>4, <1>5, <2>1 DEF Plain
<1>9. /\ \A c \in 1..MaxCounter : origin'[c] <= requestedGeneration
      /\ \A c \in Arrived' : origin'[c] >= activeGeneration
      /\ \A c \in Counters(queue) : origin'[c] >= activeGeneration
  <2>1. \A c \in 1..MaxCounter : origin'[c] = origin[c] \/ origin'[c] = requestedGeneration
    BY <1>4
  <2>2. /\ activeGeneration <= requestedGeneration
        /\ \A c \in 1..MaxCounter : origin[c] <= requestedGeneration
        /\ \A c \in Arrived : origin[c] >= activeGeneration
        /\ \A c \in Counters(queue) : origin[c] >= activeGeneration
    BY DEF GenerationInv
  <2>3. requestedGeneration <= requestedGeneration /\ requestedGeneration >= activeGeneration
    BY <2>2
  <2> HIDE DEF WorkerInv, WorkerData
  <2> QED  BY <1>3, <1>4, <1>6, <1>7, <2>1, <2>2, <2>3
<1> QED  BY <1>2, <1>8, <1>9 DEF GenerationInv

\* Queues that are emptied hold nothing old.
LEMMA EmptiedWorkerInv ==
  ASSUME WorkerInv, inbound' = <<>>, queue' = EmptyQueue, UNCHANGED <<sent, origin>>,
         activeGeneration' \in Nat, requestedGeneration' \in Nat,
         activeGeneration' <= requestedGeneration', requestedGeneration <= requestedGeneration',
         out' = out \/ out' = <<>>,
         UNCHANGED <<minimumFrames, maximumFrames, wanted, least, limit>>
  PROVE  WorkerInv'
<1> USE DEF WorkerInv, WorkerData
<1>1. WellFormed(queue') /\ Counters(queue') = {} /\ Plain(queue')
  BY EmptyIsWellFormed DEF Plain, EmptyQueue
<1>2. inbound' \in Seq(1..MaxCounter) /\ Arrived' = {}
  BY DEF Arrived
<1>3. out' \in Seq(Frame) /\ \A i \in 1..Len(out') : i \in 1..Len(out) /\ out'[i] = out[i]
  <2>1. CASE out' = out
    BY <2>1
  <2>2. CASE out' = <<>>
    BY <2>2
  <2> QED  BY <2>1, <2>2
<1>4. WorkerData'
  BY <1>1, <1>2, <1>3
<1>5. \A i \in 1..Len(out) : out[i].origin \in Nat
  <2>1. \A i \in 1..Len(out) : out[i] \in Frame
    OBVIOUS
  <2> QED  BY <2>1 DEF Frame
<1>6. \A c \in 1..MaxCounter : origin[c] \in Nat
  OBVIOUS
<1> QED  BY <1>1, <1>2, <1>3, <1>4, <1>5, <1>6 DEF GenerationInv

\* What is drained has arrived.
LEMMA DrainWorkerInv ==
  ASSUME WorkerInv, DrainInbound PROVE WorkerInv'
<1> USE DEF WorkerInv
<1>1. /\ WellFormed(queue') /\ Plain(queue')
      /\ Counters(queue') \subseteq Counters(queue) \cup Arrived
  BY DrainedIsWellFormed DEF WorkerData, DrainInbound
<1>2. /\ inbound' = <<>> /\ least' = minimumFrames
      /\ UNCHANGED <<sent, origin, activeGeneration, requestedGeneration, out, minimumFrames,
                     maximumFrames, wanted, limit>>
  BY DEF DrainInbound, messageVars
<1>3. inbound' \in Seq(1..MaxCounter) /\ Arrived' = {}
  BY <1>2 DEF Arrived
<1>4. WorkerData'
  BY <1>1, <1>2, <1>3 DEF WorkerData
<1>5. \A c \in Counters(queue') : origin[c] >= activeGeneration
  BY <1>1 DEF GenerationInv
<1> QED  BY <1>2, <1>3, <1>4, <1>5 DEF GenerationInv

\* The checks only give packets up.
LEMMA CheckWorkerInv ==
  ASSUME WorkerInv, CheckQueues PROVE WorkerInv'
<1> USE DEF WorkerInv
<1>1. WellFormed(queue') /\ Plain(queue') /\ Counters(queue') \subseteq Counters(queue)
  BY CheckedQueue
<1>2. /\ least' = 0 /\ limit' = maximumFrames
      /\ UNCHANGED <<sent, inbound, origin, activeGeneration, requestedGeneration, out,
                     minimumFrames, maximumFrames, wanted>>
  BY DEF CheckQueues, networkVars, sharedVars, messageVars
<1>3. WorkerData'
  BY <1>1, <1>2 DEF WorkerData
<1>4. Arrived' = Arrived /\ \A c \in Counters(queue') : origin[c] >= activeGeneration
  BY <1>1, <1>2 DEF GenerationInv, Arrived
<1> QED  BY <1>2, <1>3, <1>4 DEF GenerationInv

\* The frame that is prepared comes from a packet of the worker's generation, or
\* stands in for one before it.
LEMMA PrepareWorkerInv ==
  ASSUME WorkerInv, PrepareOneFrame PROVE WorkerInv'
<1> USE DEF WorkerInv
<1> DEFINE from == origin[TopCounter(queue)]
           frame == [generation |-> activeGeneration, origin |-> from]
<1>1. /\ WellFormed(queue') /\ Plain(queue') /\ Counters(queue') \subseteq Counters(queue)
      /\ TopCounter(queue) \in Counters(queue)
  BY PreparedFrame
<1>2. /\ out' = Append(out, frame) /\ limit' = 0
      /\ UNCHANGED <<sent, inbound, origin, activeGeneration, requestedGeneration, minimumFrames,
                     maximumFrames, wanted, least>>
  BY DEF PrepareOneFrame, networkVars, sharedVars, messageVars
<1>3. from \in Nat /\ from >= activeGeneration /\ from <= requestedGeneration
  <2>1. \A c \in Counters(queue) : c \in 1..MaxCounter
    BY PlainCounters DEF WorkerData
  <2> QED  BY <1>1, <2>1 DEF WorkerData, GenerationInv
<1>4. frame \in Frame /\ frame.origin = from /\ frame.generation = activeGeneration
  BY <1>3 DEF Frame, WorkerData
<1> HIDE DEF frame, from
<1>5. /\ out' \in Seq(Frame) /\ Len(out') = Len(out) + 1 /\ Len(out) \in Nat
      /\ out'[Len(out) + 1] = frame
      /\ \A i \in 1..Len(out) : out'[i] = out[i]
  BY <1>2, <1>4 DEF WorkerData
<1>6. \A i \in 1..Len(out') : /\ out'[i].origin >= out'[i].generation
                              /\ out'[i].origin <= requestedGeneration
  <2> SUFFICES ASSUME NEW i \in 1..Len(out')
               PROVE  out'[i].origin >= out'[i].generation /\ out'[i].origin <= requestedGeneration
    OBVIOUS
  <2>1. CASE i = Len(out) + 1
    BY <1>3, <1>4, <1>5, <2>1
  <2>2. CASE i # Len(out) + 1
    <3>1. i \in 1..Len(out)
      BY <1>5, <2>2
    <3> QED  BY <1>5, <3>1 DEF GenerationInv
  <2> QED  BY <2>1, <2>2
<1>7. WorkerData'
  BY <1>1, <1>2, <1>3, <1>5 DEF WorkerData, Plain
<1>8. Arrived' = Arrived
  BY <1>2 DEF Arrived
<1> QED  BY <1>1, <1>2, <1>3, <1>6, <1>7, <1>8 DEF GenerationInv

\* The callback takes the oldest frame away.
LEMMA FetchWorkerInv ==
  ASSUME WorkerInv, FetchFrame PROVE WorkerInv'
<1> USE DEF WorkerInv
<1>1. /\ out # <<>> /\ out' = Tail(out)
      /\ UNCHANGED <<sent, inbound, origin, queue, activeGeneration, requestedGeneration,
                     minimumFrames, maximumFrames, wanted, least, limit>>
  BY DEF FetchFrame, networkVars, workerVars, sharedVars, messageVars
<1>2. /\ out' \in Seq(Frame) /\ Len(out') = Len(out) - 1 /\ Len(out) \in Nat
      /\ \A i \in 1..Len(out') : i + 1 \in 1..Len(out) /\ out'[i] = out[i + 1]
  BY <1>1 DEF WorkerData
<1>3. WorkerData' /\ Arrived' = Arrived
  BY <1>1, <1>2 DEF WorkerData, Arrived, Plain
<1> QED  BY <1>1, <1>2, <1>3 DEF GenerationInv

\* A step that leaves what the invariant speaks of alone keeps it, a later reset
\* request included.
LEMMA RequestWorkerInv ==
  ASSUME WorkerInv,
         UNCHANGED <<sent, inbound, origin, queue, out, activeGeneration, least, limit>>,
         requestedGeneration' \in Nat, requestedGeneration <= requestedGeneration',
         minimumFrames' \in Nat, maximumFrames' \in Nat, wanted' \in Nat
  PROVE  WorkerInv'
<1> USE DEF WorkerInv
<1>1. WorkerData' /\ Arrived' = Arrived
  BY DEF WorkerData, Plain, Arrived
<1>2. \A c \in 1..MaxCounter : origin[c] \in Nat
  BY DEF WorkerData
<1>3. \A i \in 1..Len(out) : out[i].origin \in Nat
  <2>1. \A i \in 1..Len(out) : out[i] \in Frame
    BY DEF WorkerData
  <2> QED  BY <2>1 DEF Frame
<1>4. requestedGeneration \in Nat /\ activeGeneration \in Nat
  BY DEF WorkerData
<1> QED  BY <1>1, <1>2, <1>3, <1>4 DEF GenerationInv

\* Whatever the threads do in whatever order, what waits between them is labelled
\* with a generation it belongs to.
THEOREM ReceiveInvariant == Spec => []WorkerInv
<1>1. Init => WorkerInv
  <2> SUFFICES ASSUME Init PROVE WorkerInv
    OBVIOUS
  <2> USE DEF Init
  <2>1. WellFormed(queue) /\ Counters(queue) = {} /\ Plain(queue)
    BY EmptyIsWellFormed DEF Plain, EmptyQueue
  <2>2. inbound \in Seq(1..MaxCounter) /\ Arrived = {} /\ out \in Seq(Frame) /\ Len(out) = 0
    BY DEF Arrived
  <2>3. MaxCounter \in Nat /\ origin \in [1..MaxCounter -> Nat]
        /\ \A c \in 1..MaxCounter : origin[c] = 0
    BY ReceiveAssumption
  <2>4. minimumFrames \in Nat /\ maximumFrames \in Nat
    BY RangesAreNatural
  <2> QED  BY <2>1, <2>2, <2>3, <2>4 DEF WorkerInv, WorkerData, GenerationInv
<1>2. ASSUME WorkerInv, [Next]_vars PROVE WorkerInv'
  <2> USE <1>2
  <2>0. /\ requestedGeneration \in Nat /\ activeGeneration \in Nat /\ minimumFrames \in Nat
        /\ maximumFrames \in Nat /\ wanted \in Nat /\ limit \in Nat
        /\ activeGeneration <= requestedGeneration
    BY DEF WorkerInv, WorkerData, GenerationInv
  <2>1. CASE Arrive
    BY <2>1, ArriveWorkerInv
  <2>2. CASE ApplyResetIfRequested
    <3>1. CASE requestedGeneration # activeGeneration
      BY <2>0, <2>2, <3>1, EmptiedWorkerInv
         DEF ApplyResetIfRequested, ApplyReset, sharedVars, messageVars
    <3>2. CASE requestedGeneration = activeGeneration
      BY <2>0, <2>2, <3>2, RequestWorkerInv DEF ApplyResetIfRequested, sharedVars, messageVars
    <3> QED  BY <3>1, <3>2
  <2>13. CASE DrainInbound
    BY <2>13, DrainWorkerInv
  <2>3. CASE CheckQueues
    BY <2>3, CheckWorkerInv
  <2>4. CASE PrepareOneFrame
    BY <2>4, PrepareWorkerInv
  <2>5. CASE PrepareNothing
    <3>1. WorkerData'
      BY <2>5 DEF PrepareNothing, networkVars, sharedVars, messageVars, WorkerInv, WorkerData, Plain
    <3>2. GenerationInv'
      BY <2>5 DEF PrepareNothing, networkVars, sharedVars, messageVars, WorkerInv, GenerationInv, Arrived
    <3> QED  BY <3>1, <3>2 DEF WorkerInv
  <2>6. CASE FetchFrame
    BY <2>6, FetchWorkerInv
  <2>7. CASE CallbackBegins \/ PlayBlock \/ KeepWaiting \/ Underrun
    <3>1. UNCHANGED <<sent, inbound, origin, queue, out, activeGeneration, least, limit,
                      requestedGeneration, minimumFrames, maximumFrames, wanted>>
      BY <2>7 DEF CallbackBegins, PlayBlock, KeepWaiting, Underrun, networkVars, workerVars,
                  sharedVars, messageVars
    <3> QED  BY <2>0, <3>1, RequestWorkerInv
  <2>8. CASE RequestReset \/ PrepareEngine \/ ExpectGeneration \/ RequestPlayoutReset
    <3>1. /\ UNCHANGED <<sent, inbound, origin, queue, out, activeGeneration, least, limit,
                         minimumFrames, maximumFrames, wanted>>
          /\ requestedGeneration' = requestedGeneration \/ requestedGeneration' = requestedGeneration + 1
      BY <2>8 DEF RequestReset, PrepareEngine, ExpectGeneration, RequestPlayoutReset, networkVars,
                  workerVars
    <3> QED  BY <2>0, <3>1, RequestWorkerInv
  <2>9. CASE Reconnect
    <3>1. /\ inbound' = <<>> /\ out' = <<>> /\ queue' = EmptyQueue
          /\ requestedGeneration' = requestedGeneration + 1
          /\ UNCHANGED <<sent, origin, activeGeneration, minimumFrames, maximumFrames,
                         wanted, least, limit>>
      BY <2>9 DEF Reconnect
    <3> QED  BY <2>0, <3>1, EmptiedWorkerInv
  <2>10. CASE SetMinimum
    <3>1. minimumFrames' \in Nat /\ wanted' \in Nat
      BY <2>10, RangesAreNatural DEF SetMinimum
    <3> QED  BY <2>0, <2>10, <3>1, RequestWorkerInv DEF SetMinimum, networkVars, workerVars
  <2>11. CASE SetMaximum
    BY <2>0, <2>11, RequestWorkerInv DEF SetMaximum, networkVars, workerVars
  <2>12. CASE UNCHANGED vars
    <3>1. UNCHANGED <<sent, inbound, origin, queue, out, activeGeneration, least, limit,
                      requestedGeneration, minimumFrames, maximumFrames, wanted>>
      BY <2>12 DEF vars, networkVars, workerVars, sharedVars, messageVars
    <3> QED  BY <2>0, <3>1, RequestWorkerInv
  <2> QED  BY <2>1, <2>2, <2>3, <2>4, <2>5, <2>6, <2>7, <2>8, <2>9, <2>10, <2>11, <2>12, <2>13
           DEF Next, Worker, Callback, FinishRequest
<1> QED  BY <1>1, <1>2, PTL DEF Spec

\* AudioReceiveWorker: no frame claims a generation that was requested only after
\* its packet had arrived.
THEOREM FramesAreHonest == Spec => []GenerationIsHonest
<1>1. WorkerInv => GenerationIsHonest
  BY DEF WorkerInv, GenerationInv, GenerationIsHonest
<1> QED  BY <1>1, ReceiveInvariant, PTL

-----------------------------------------------------------------------------
(* After a reset *)

\* While the message thread is not between its two stores the callback expects the
\* generation requested last, and unless it still has to drop what it holds, holds
\* nothing else.
FreshInv ==
  /\ playout \in Seq(Nat) /\ expectedGeneration \in Nat
  /\ messagePc # "expect" => expectedGeneration = requestedGeneration
  /\ PlayedIsFresh

\* Where the elements of a concatenation come from.
LEMMA Concatenated ==
  ASSUME NEW S, NEW s \in Seq(S), NEW t \in Seq(S)
  PROVE  /\ s \o t \in Seq(S) /\ Len(s \o t) = Len(s) + Len(t) /\ Len(s) \in Nat
         /\ \A i \in 1..Len(s) : (s \o t)[i] = s[i]
         /\ \A i \in 1..Len(t) : (s \o t)[Len(s) + i] = t[i]
OBVIOUS

\* An interval has as many elements as its length says.
LEMMA IntervalSize ==
  ASSUME NEW n \in Nat PROVE Cardinality(1..n) = n
BY FS_Interval

\* playoutBuffer_ after a frame of one origin was appended.
LEMMA FrameAppended ==
  ASSUME NEW p \in Seq(Nat), NEW o \in Nat
  PROVE  LET r == p \o [i \in 1..FrameSamples |-> o]
         IN  /\ r \in Seq(Nat) /\ Len(r) = Len(p) + FrameSamples /\ Len(p) \in Nat
             /\ \A i \in 1..Len(p) : r[i] = p[i]
             /\ \A i \in 1..Len(r) : i > Len(p) => r[i] = o
<1> DEFINE t == [i \in 1..FrameSamples |-> o]
           r == p \o t
<1>1. FrameSamples \in Nat
  BY ReceiveAssumption
<1>2. t \in Seq(Nat) /\ Len(t) = FrameSamples /\ \A i \in 1..FrameSamples : t[i] = o
  BY <1>1
<1> HIDE DEF t
<1>3. /\ r \in Seq(Nat) /\ Len(r) = Len(p) + Len(t) /\ Len(p) \in Nat
      /\ \A i \in 1..Len(p) : r[i] = p[i]
      /\ \A i \in 1..Len(t) : r[Len(p) + i] = t[i]
  <2>1. t \in Seq(Nat)
    BY <1>2
  <2> QED  BY <2>1, Concatenated
<1> HIDE DEF r
<1>4. \A i \in 1..Len(r) : i > Len(p) => r[i] = o
  <2> SUFFICES ASSUME NEW i \in 1..Len(r), i > Len(p) PROVE r[i] = o
    OBVIOUS
  <2>1. i - Len(p) \in 1..FrameSamples /\ i = Len(p) + (i - Len(p))
    BY <1>1, <1>2, <1>3
  <2>2. r[Len(p) + (i - Len(p))] = t[i - Len(p)] /\ t[i - Len(p)] = o
    BY <1>2, <1>3, <2>1
  <2> QED  BY <2>1, <2>2
<1>5. Len(r) = Len(p) + FrameSamples
  BY <1>2, <1>3
<1> QED  BY <1>3, <1>4, <1>5 DEF r, t

\* A frame the callback takes is of the generation it expects.
LEMMA FetchFreshInv ==
  ASSUME WorkerInv, FreshInv, FetchFrame PROVE FreshInv'
<1>1. /\ out # <<>>
      /\ UNCHANGED <<expectedGeneration, requestedGeneration, messagePc, resetPlayoutRequested>>
      /\ \/ playout' = playout
         \/ /\ Head(out).generation = expectedGeneration
            /\ playout' = playout \o [i \in 1..FrameSamples |-> Head(out).origin]
  BY DEF FetchFrame, sharedVars, messageVars
<1>2. CASE playout' = playout
  BY <1>1, <1>2 DEF FreshInv, PlayedIsFresh
<1>3. CASE playout' # playout
  <2>1. /\ Head(out) = out[1] /\ out[1] \in Frame
        /\ out[1].origin >= out[1].generation /\ out[1].origin <= requestedGeneration
    <3>1. Head(out) = out[1] /\ out[1] \in Frame /\ 1 \in 1..Len(out)
      BY <1>1 DEF WorkerInv, WorkerData
    <3> QED  BY <3>1 DEF WorkerInv, GenerationInv
  <2>2. out[1].origin \in Nat /\ out[1].generation \in Nat /\ requestedGeneration \in Nat
    BY <2>1 DEF Frame, WorkerInv, WorkerData
  <2>3. expectedGeneration = requestedGeneration => Head(out).origin = requestedGeneration
    BY <1>1, <1>3, <2>1, <2>2
  <2>4. /\ playout' \in Seq(Nat) /\ Len(playout') = Len(playout) + FrameSamples
        /\ Len(playout) \in Nat
        /\ \A i \in 1..Len(playout) : playout'[i] = playout[i]
        /\ \A i \in 1..Len(playout') : i > Len(playout) => playout'[i] = Head(out).origin
    <3>1. playout \in Seq(Nat) /\ Head(out).origin \in Nat
      BY <2>1, <2>2 DEF FreshInv
    <3>2. playout' = playout \o [i \in 1..FrameSamples |-> Head(out).origin]
      BY <1>1, <1>3
    <3> QED  BY <3>1, <3>2, FrameAppended
  <2>5. PlayedIsFresh'
    <3> SUFFICES ASSUME messagePc \notin {"expect", "flag"}, ~resetPlayoutRequested,
                        NEW i \in 1..Len(playout')
                 PROVE  playout'[i] = requestedGeneration
      BY <1>1 DEF PlayedIsFresh
    <3>1. CASE i <= Len(playout)
      <4>1. i \in 1..Len(playout)
        BY <2>4, <3>1
      <4> QED  BY <2>4, <4>1 DEF FreshInv, PlayedIsFresh
    <3>2. CASE i > Len(playout)
      BY <2>3, <2>4, <3>2 DEF FreshInv
    <3> QED  BY <2>4, <3>1, <3>2
  <2> QED  BY <1>1, <2>4, <2>5 DEF FreshInv
<1> QED  BY <1>1, <1>2, <1>3

\* JammerNetzAudioEngine: once newServer is done and the callback has seen the reset,
\* nothing that had arrived before it is played, for any number of resets,
\* reconnections and packets under way.
THEOREM NothingOldIsPlayed == Spec => []PlayedIsFresh
<1>1. Init => FreshInv
  BY DEF Init, FreshInv, PlayedIsFresh
<1>2. ASSUME WorkerInv, FreshInv, [Next]_vars PROVE FreshInv'
  <2> USE <1>2
  <2>1. CASE FetchFrame
    BY <2>1, FetchFreshInv
  <2>2. CASE CallbackBegins \/ Underrun
    <3>1. /\ UNCHANGED <<expectedGeneration, requestedGeneration, messagePc>>
          /\ \/ playout' = <<>>
             \/ playout' = playout /\ ~resetPlayoutRequested
      BY <2>2 DEF CallbackBegins, Underrun, ResetPlayoutState, playoutVars, messageVars
    <3>2. CASE playout' = <<>>
      BY <3>1, <3>2 DEF FreshInv, PlayedIsFresh
    <3>3. CASE playout' = playout /\ ~resetPlayoutRequested
      BY <3>1, <3>3, Zenon DEF FreshInv, PlayedIsFresh
    <3> QED  BY <3>1, <3>2, <3>3
  <2>3. CASE PlayBlock
    <3>1. /\ UNCHANGED <<expectedGeneration, requestedGeneration, messagePc, resetPlayoutRequested>>
          /\ playout' = SubSeq(playout, BlockSamples + 1, Len(playout))
          /\ Len(playout) >= BlockSamples /\ BlockSamples \in Nat /\ Len(playout) \in Nat
      BY <2>3, ReceiveAssumption DEF PlayBlock, sharedVars, messageVars, FreshInv
    <3>2. /\ playout' \in Seq(Nat) /\ Len(playout') = Len(playout) - BlockSamples
          /\ \A i \in 1..Len(playout') : /\ i + BlockSamples \in 1..Len(playout)
                                         /\ playout'[i] = playout[i + BlockSamples]
      BY <3>1 DEF FreshInv
    <3> QED  BY <3>1, <3>2 DEF FreshInv, PlayedIsFresh
  <2>4. CASE RequestReset \/ Reconnect
    BY <2>4 DEF RequestReset, Reconnect, playoutVars, FreshInv, PlayedIsFresh
  <2>5. CASE ExpectGeneration
    BY <2>5 DEF ExpectGeneration, playoutVars, FreshInv, PlayedIsFresh, WorkerInv, WorkerData
  <2>6. CASE RequestPlayoutReset \/ PrepareEngine
    BY <2>6 DEF RequestPlayoutReset, PrepareEngine, playoutVars, FreshInv, PlayedIsFresh
  <2>7. CASE SetMinimum \/ SetMaximum
    BY <2>7 DEF SetMinimum, SetMaximum, playoutVars, FreshInv, PlayedIsFresh
  <2>8. CASE Arrive \/ Worker \/ KeepWaiting \/ UNCHANGED vars
    <3>1. UNCHANGED <<playout, expectedGeneration, requestedGeneration, messagePc,
                      resetPlayoutRequested>>
      BY <2>8 DEF Arrive, Worker, ApplyResetIfRequested, DrainInbound, CheckQueues, PrepareOneFrame, PrepareNothing,
                  KeepWaiting, vars, sharedVars, playoutVars, messageVars
    <3> QED  BY <3>1 DEF FreshInv, PlayedIsFresh
  <2> QED  BY <2>1, <2>2, <2>3, <2>4, <2>5, <2>6, <2>7, <2>8 DEF Next, Callback, FinishRequest
<1>3. FreshInv => PlayedIsFresh
  BY DEF FreshInv
<1> QED  BY <1>1, <1>2, <1>3, ReceiveInvariant, PTL DEF Spec

-----------------------------------------------------------------------------
(* Timing markers *)

\* The block that is played is never so short that a marker outlives it: less than
\* one frame is left over, and the last marker lies a whole frame before the end.
MarkerInv ==
  /\ playout \in Seq(Nat) /\ markers \in Seq(Marker)
  /\ samplesWritten \in Nat /\ samplesRead \in Nat
  /\ Len(playout) < BlockSamples + FrameSamples
  /\ \A i \in 1..Len(markers) : markers[i].sample + FrameSamples <= samplesWritten
  /\ MarkersKeepStep

\* Whole frames in a number of samples.
LEMMA WholeFrames ==
  ASSUME NEW n \in Nat
  PROVE  /\ (n + FrameSamples) \div FrameSamples = n \div FrameSamples + 1
         /\ n < FrameSamples => n \div FrameSamples = 0
BY ReceiveAssumption

\* A frame that is appended gets its marker at the end, if there is room.
LEMMA FetchMarkerInv ==
  ASSUME WorkerInv, MarkerInv, FetchFrame PROVE MarkerInv'
<1> USE DEF MarkerInv
<1> DEFINE frame == Head(out)
           marker == [sample |-> samplesWritten, origin |-> frame.origin]
<1>1. out # <<>> /\ Len(playout) < BlockSamples /\ UNCHANGED samplesRead
  BY DEF FetchFrame
<1>2. CASE UNCHANGED <<playout, markers, samplesWritten>>
  BY <1>1, <1>2 DEF MarkersKeepStep
<1>3. CASE ~UNCHANGED <<playout, markers, samplesWritten>>
  <2>1. /\ playout' = playout \o [i \in 1..FrameSamples |-> frame.origin]
        /\ markers' = IF Len(markers) < MarkerCapacity THEN Append(markers, marker) ELSE markers
        /\ samplesWritten' = samplesWritten + FrameSamples
    BY <1>3 DEF FetchFrame, AppendPlayoutTiming, TryWrite
  <2>2. frame.origin \in Nat
    <3>1. frame \in Frame
      BY <1>1 DEF WorkerInv, WorkerData
    <3> QED  BY <3>1 DEF Frame
  <2>3. marker \in Marker /\ marker.sample = samplesWritten /\ marker.origin = frame.origin
    BY <2>2 DEF Marker
  <2>4. FrameSamples \in Nat \ {0} /\ BlockSamples \in Nat \ {0} /\ MarkerCapacity \in Nat
    BY ReceiveAssumption
  <2>5. /\ playout' \in Seq(Nat) /\ Len(playout') = Len(playout) + FrameSamples
        /\ Len(playout) \in Nat
        /\ \A i \in 1..Len(playout) : playout'[i] = playout[i]
        /\ \A i \in 1..Len(playout') : i > Len(playout) => playout'[i] = frame.origin
    BY <2>1, <2>2, FrameAppended
  <2> HIDE DEF marker, frame
  <2>6. \A i \in 1..Len(markers) : /\ markers[i] \in Marker /\ markers[i].sample \in Nat
                                   /\ markers[i].sample \in samplesRead..(samplesWritten - 1)
                                   /\ playout[markers[i].sample - samplesRead + 1] = markers[i].origin
                                   /\ markers[i].sample + FrameSamples <= samplesWritten
    <3>1. \A i \in 1..Len(markers) : markers[i] \in Marker
      OBVIOUS
    <3> QED  BY <3>1 DEF Marker, MarkersKeepStep
  <2>7. samplesWritten - samplesRead = Len(playout)
    BY DEF MarkersKeepStep
  <2>8. \A i \in 1..Len(markers') :
          \/ i \in 1..Len(markers) /\ markers'[i] = markers[i]
          \/ markers'[i] = marker
    <3>1. CASE markers' = markers
      BY <3>1
    <3>2. CASE markers' = Append(markers, marker)
      <4> SUFFICES ASSUME NEW i \in 1..Len(markers')
                   PROVE  \/ i \in 1..Len(markers) /\ markers'[i] = markers[i]
                          \/ markers'[i] = marker
        OBVIOUS
      <4>1. Len(markers') = Len(markers) + 1 /\ Len(markers) \in Nat
        BY <2>3, <3>2
      <4>2. CASE i = Len(markers) + 1
        BY <3>2, <4>2
      <4>3. CASE i # Len(markers) + 1
        BY <3>2, <4>1, <4>3
      <4> QED  BY <4>2, <4>3
    <3> QED  BY <2>1, <3>1, <3>2
  <2>9. markers' \in Seq(Marker) /\ samplesWritten' \in Nat
    BY <2>1, <2>3, <2>4
  <2>10. \A i \in 1..Len(markers') :
           /\ markers'[i].sample \in samplesRead..(samplesWritten' - 1)
           /\ playout'[markers'[i].sample - samplesRead + 1] = markers'[i].origin
           /\ markers'[i].sample + FrameSamples <= samplesWritten'
    <3> SUFFICES ASSUME NEW i \in 1..Len(markers')
                 PROVE  /\ markers'[i].sample \in samplesRead..(samplesWritten' - 1)
                        /\ playout'[markers'[i].sample - samplesRead + 1] = markers'[i].origin
                        /\ markers'[i].sample + FrameSamples <= samplesWritten'
      OBVIOUS
    <3>1. CASE i \in 1..Len(markers) /\ markers'[i] = markers[i]
      <4>1. markers[i].sample - samplesRead + 1 \in 1..Len(playout)
        BY <2>6, <2>7, <3>1, SMTT(30)
      <4>2. playout'[markers[i].sample - samplesRead + 1] = markers[i].origin
        BY <2>5, <2>6, <3>1, <4>1
      <4>3. markers[i].sample \in samplesRead..(samplesWritten' - 1)
            /\ markers[i].sample + FrameSamples <= samplesWritten'
        <5> DEFINE m == markers[i].sample
        <5>1. m \in Nat /\ m \in samplesRead..(samplesWritten - 1) /\ m + FrameSamples <= samplesWritten
          BY <2>6, <3>1
        <5>2. samplesWritten' = samplesWritten + FrameSamples
          BY <2>1
        <5>3. samplesRead \in Nat /\ samplesWritten \in Nat /\ FrameSamples \in Nat \ {0}
          BY <2>4
        <5> HIDE DEF m
        <5>4. m \in samplesRead..(samplesWritten' - 1) /\ m + FrameSamples <= samplesWritten'
          BY <5>1, <5>2, <5>3
        <5> QED  BY <5>4 DEF m
      <4> QED  BY <3>1, <4>2, <4>3
    <3>2. CASE markers'[i] = marker
      <4>1. samplesWritten - samplesRead + 1 \in 1..Len(playout')
            /\ samplesWritten - samplesRead + 1 > Len(playout)
        BY <2>4, <2>5, <2>7
      <4>2. playout'[samplesWritten - samplesRead + 1] = frame.origin
        BY <2>5, <4>1
      <4>3. samplesWritten \in samplesRead..(samplesWritten' - 1)
            /\ samplesWritten + FrameSamples <= samplesWritten'
        BY <2>1, <2>4, <2>7
      <4> QED  BY <2>3, <3>2, <4>2, <4>3
    <3> QED  BY <2>8, <3>1, <3>2
  <2>11. Len(markers') < MarkerCapacity => Len(markers') = Len(playout') \div FrameSamples
    <3>1. Len(markers) < MarkerCapacity => Len(markers) = Len(playout) \div FrameSamples
      BY DEF MarkersKeepStep
    <3>2. Len(markers) \in Nat
      OBVIOUS
    <3>3. Len(playout') \div FrameSamples = Len(playout) \div FrameSamples + 1
      BY <2>5, WholeFrames
    <3>4. CASE Len(markers) < MarkerCapacity
      <4>1. Len(markers') = Len(markers) + 1
        BY <2>1, <2>3, <3>4
      <4> QED  BY <3>1, <3>3, <3>4, <4>1
    <3>5. CASE ~(Len(markers) < MarkerCapacity)
      BY <2>1, <3>5
    <3> QED  BY <3>4, <3>5
  <2>12. Len(playout') < BlockSamples + FrameSamples /\ samplesWritten' - samplesRead = Len(playout')
    BY <1>1, <2>1, <2>4, <2>5, <2>7
  <2> QED  BY <1>1, <2>5, <2>9, <2>10, <2>11, <2>12 DEF MarkersKeepStep
<1> QED  BY <1>2, <1>3

\* A block that is played uses up every marker: each lies before its end.
LEMMA PlayMarkerInv ==
  ASSUME MarkerInv, PlayBlock PROVE MarkerInv'
<1> USE DEF MarkerInv
<1>1. /\ Len(playout) >= BlockSamples /\ samplesRead' = samplesRead + BlockSamples
      /\ playout' = SubSeq(playout, BlockSamples + 1, Len(playout))
      /\ markers' = SubSeq(markers, MarkersBefore(samplesRead') + 1, Len(markers))
      /\ UNCHANGED samplesWritten
  BY DEF PlayBlock
<1>2. FrameSamples \in Nat \ {0} /\ BlockSamples \in Nat \ {0} /\ MarkerCapacity \in Nat \ {0}
  BY ReceiveAssumption
<1>3. Len(playout) \in Nat /\ Len(markers) \in Nat /\ samplesWritten - samplesRead = Len(playout)
  BY DEF MarkersKeepStep
<1>4. \A i \in 1..Len(markers) : markers[i].sample \in Nat
  <2>1. \A i \in 1..Len(markers) : markers[i] \in Marker
    OBVIOUS
  <2> QED  BY <2>1 DEF Marker
<1>5. \A i \in 1..Len(markers) : markers[i].sample < samplesRead'
  BY <1>1, <1>2, <1>3, <1>4, SMTT(30)
<1>6. MarkersBefore(samplesRead') = Len(markers)
  <2>1. {i \in 1..Len(markers) : markers[i].sample < samplesRead'} = 1..Len(markers)
    BY <1>5
  <2>2. Cardinality(1..Len(markers)) = Len(markers)
    BY <1>3, IntervalSize
  <2> QED  BY <2>1, <2>2 DEF MarkersBefore
<1>7. markers' = <<>>
  <2>1. markers' = SubSeq(markers, Len(markers) + 1, Len(markers))
    BY <1>1, <1>6
  <2> QED  BY <1>3, <2>1
<1>8. playout' \in Seq(Nat) /\ Len(playout') = Len(playout) - BlockSamples
  BY <1>1, <1>2, <1>3
<1>13. /\ samplesRead \in Nat /\ samplesWritten \in Nat
       /\ Len(playout) < BlockSamples + FrameSamples
  OBVIOUS
<1> HIDE DEF MarkerInv
<1>9. Len(playout') \in Nat /\ Len(playout') < FrameSamples
      /\ samplesWritten' - samplesRead' = Len(playout')
  BY <1>1, <1>2, <1>3, <1>8, <1>13
<1>10. Len(markers') = 0 /\ Len(playout') \div FrameSamples = 0
  BY <1>7, <1>9, WholeFrames
<1>11. markers' \in Seq(Marker) /\ samplesRead' \in Nat
  <2>1. markers' \in Seq(Marker)
    BY <1>7
  <2> QED  BY <1>1, <1>2, <1>13, <2>1
<1>12. MarkersKeepStep'
  BY <1>9, <1>10 DEF MarkersKeepStep
<1>14. Len(playout') < BlockSamples + FrameSamples /\ samplesWritten' \in Nat
  BY <1>1, <1>2, <1>9, <1>13
<1> QED  BY <1>8, <1>10, <1>11, <1>12, <1>14 DEF MarkerInv

\* JammerNetzAudioEngine: the timing markers keep step with the samples of the
\* playout buffer, for every frame, block and ring size.
THEOREM MarkersFollowSamples == Spec => []MarkersKeepStep
<1> DEFINE emptied == /\ playout = <<>> /\ markers = <<>>
                      /\ samplesWritten = 0 /\ samplesRead = 0
<1>1. emptied => MarkerInv
  BY ReceiveAssumption, WholeFrames DEF MarkerInv, MarkersKeepStep
<1>2. Init => MarkerInv
  BY <1>1 DEF Init
<1>3. ASSUME WorkerInv, MarkerInv, [Next]_vars PROVE MarkerInv'
  <2> USE <1>3
  <2>1. CASE FetchFrame
    BY <2>1, FetchMarkerInv
  <2>2. CASE PlayBlock
    BY <2>2, PlayMarkerInv
  <2>3. CASE ResetPlayoutState
    <3>1. emptied'
      BY <2>3 DEF ResetPlayoutState
    <3> QED  BY <1>1, <3>1, PTL
  <2>4. CASE UNCHANGED <<playout, markers, samplesWritten, samplesRead>>
    BY <2>4 DEF MarkerInv, MarkersKeepStep
  <2> QED  BY <2>1, <2>2, <2>3, <2>4
           DEF Next, Callback, FinishRequest, Worker, Arrive, ApplyResetIfRequested, DrainInbound, CheckQueues,
               PrepareOneFrame, PrepareNothing, CallbackBegins, KeepWaiting, Underrun, RequestReset,
               ExpectGeneration, RequestPlayoutReset, PrepareEngine, Reconnect, SetMinimum,
               SetMaximum, playoutVars, vars
<1>4. MarkerInv => MarkersKeepStep
  BY DEF MarkerInv
<1> QED  BY <1>2, <1>3, <1>4, ReceiveInvariant, PTL DEF Spec

-----------------------------------------------------------------------------
(* What waits *)

\* LargestMaximum is the largest bound setPlayoutBufferRange can store.
LEMMA LargestIsLargest ==
  /\ LargestMaximum \in Nat
  /\ \A range \in PlayoutRanges :
       range[1] <= LargestMaximum /\ AtLeast(range[1], range[2]) <= LargestMaximum
<1> DEFINE bound(range) == AtLeast(range[1], range[2])
           bounds == {bound(range) : range \in PlayoutRanges}
           f == [range \in PlayoutRanges |-> bound(range)]
<1>1. f \in Surjection(PlayoutRanges, bounds)
  BY DEF Surjection
<1>2. IsFiniteSet(bounds) /\ bounds # {}
  BY <1>1, FS_Surjection, ReceiveAssumption
<1>3. bounds \subseteq Nat
  BY RangesAreNatural
<1>4. PICK n \in Nat : bounds \subseteq 0..n
  BY <1>2, <1>3, FiniteIsBounded
<1>5. Max(bounds) \in bounds /\ \A b \in bounds : b <= Max(bounds)
  BY <1>2, <1>4, MaxOfBounded
<1>6. LargestMaximum = Max(bounds)
  BY DEF LargestMaximum
<1>7. \A range \in PlayoutRanges : range[1] <= bound(range)
  BY RangesAreNatural DEF AtLeast
<1>8. \A range \in PlayoutRanges : bound(range) \in bounds
  OBVIOUS
<1>9. LargestMaximum \in Nat
  BY <1>3, <1>5, <1>6
<1> HIDE DEF bounds
<1> QED  BY <1>5, <1>6, <1>7, <1>8, <1>9, RangesAreNatural

\* Every bound in use is one that was stored; before a frame is prepared the
\* maximum is kept, and a fill-in may exceed it by one.
LatencyInv ==
  /\ workerPc \in {"idle", "drain", "check", "prepare"}
  /\ minimumFrames <= LargestMaximum /\ maximumFrames <= LargestMaximum
  /\ wanted <= LargestMaximum /\ least <= LargestMaximum /\ limit <= LargestMaximum
  /\ Len(out) <= LargestMaximum
  /\ workerPc = "prepare" => Len(out) + Size(queue) <= LargestMaximum
  /\ LatencyBounded

\* AudioReceiveWorker: after every pass of the worker at most the largest playout
\* range and one fill-in wait, however the bounds change between its steps.
THEOREM WaitingIsBounded == Spec => []LatencyBounded
<1>0. LargestMaximum \in Nat
  BY LargestIsLargest
<1>1. Init => LatencyInv
  <2> SUFFICES ASSUME Init PROVE LatencyInv
    OBVIOUS
  <2>1. minimumFrames <= LargestMaximum /\ maximumFrames <= LargestMaximum
    BY LargestIsLargest DEF Init
  <2>2. Size(queue) = 0 /\ Len(out) = 0
    BY FS_EmptySet DEF Init, Size, EmptyQueue
  <2> QED  BY <1>0, <2>1, <2>2 DEF Init, LatencyInv, LatencyBounded
<1>2. ASSUME WorkerInv, LatencyInv, [Next]_vars PROVE LatencyInv'
  <2> USE <1>0, <1>2
  <2>0. /\ minimumFrames \in Nat /\ maximumFrames \in Nat /\ wanted \in Nat
        /\ least \in Nat /\ limit \in Nat /\ Len(out) \in Nat /\ Size(queue) \in Nat
    BY FS_CardinalityType DEF WorkerInv, WorkerData, WellFormed, Size
  <2>10. Size(EmptyQueue) = 0
    BY FS_EmptySet DEF Size, EmptyQueue
  <2>1. CASE ApplyResetIfRequested
    BY <2>0, <2>1 DEF ApplyResetIfRequested, sharedVars, messageVars, LatencyInv, LatencyBounded
  <2>11. CASE DrainInbound
    BY <2>0, <2>11 DEF DrainInbound, messageVars, LatencyInv, LatencyBounded
  <2>2. CASE CheckQueues
    <3>1. /\ \/ Len(out) + Size(queue') <= maximumFrames
             \/ Len(out) + Size(queue') <= least
             \/ Len(out) + Size(queue') <= Len(out)
          /\ Size(queue') \in Nat
      BY <2>2, CheckedQueue, FS_CardinalityType DEF WorkerInv, WellFormed, Size
    <3>2. /\ workerPc' = "prepare" /\ least' = 0 /\ limit' = maximumFrames
          /\ UNCHANGED <<out, minimumFrames, maximumFrames, wanted>>
      BY <2>2 DEF CheckQueues, sharedVars, messageVars
    <3> QED  BY <2>0, <3>1, <3>2 DEF LatencyInv, LatencyBounded
  <2>3. CASE PrepareOneFrame
    <3>1. Size(queue') \in Nat /\ Size(queue') <= Size(queue)
      BY <2>3, PreparedFrame DEF WorkerInv
    <3>2. /\ workerPc = "prepare" /\ Len(out) < limit /\ limit' = 0 /\ workerPc' = "idle"
          /\ UNCHANGED <<minimumFrames, maximumFrames, wanted, least>>
          /\ Len(out') = Len(out) + 1
      <4>1. out \in Seq(Frame)
        BY DEF WorkerInv, WorkerData
      <4> QED  BY <2>3, <4>1 DEF PrepareOneFrame, CanPrepare, sharedVars, messageVars
    <3> QED  BY <2>0, <3>1, <3>2 DEF LatencyInv, LatencyBounded
  <2>4. CASE PrepareNothing
    BY <2>0, <2>4 DEF PrepareNothing, sharedVars, messageVars, LatencyInv, LatencyBounded
  <2>5. CASE FetchFrame
    <3>1. Len(out') = Len(out) - 1
      BY <2>5 DEF FetchFrame, WorkerInv, WorkerData
    <3>2. UNCHANGED <<workerPc, queue, minimumFrames, maximumFrames, wanted, least, limit>>
      BY <2>5 DEF FetchFrame, workerVars, sharedVars, messageVars
    <3> QED  BY <2>0, <3>1, <3>2 DEF LatencyInv, LatencyBounded
  <2>6. CASE Reconnect
    <3>1. Len(out') = 0 /\ Size(queue') = 0 /\ workerPc' = workerPc /\ workerPc = "idle"
      BY <2>6, <2>10 DEF Reconnect
    <3> QED  BY <2>0, <2>6, <3>1 DEF Reconnect, LatencyInv, LatencyBounded
  <2>7. CASE SetMinimum
    <3>1. minimumFrames' <= LargestMaximum /\ wanted' <= LargestMaximum
      BY <2>7, LargestIsLargest DEF SetMinimum
    <3>2. UNCHANGED <<workerPc, queue, out, maximumFrames, least, limit>>
      BY <2>7 DEF SetMinimum, workerVars
    <3> QED  BY <3>1, <3>2 DEF LatencyInv, LatencyBounded
  <2>8. CASE SetMaximum
    BY <2>0, <2>8 DEF SetMaximum, workerVars, LatencyInv, LatencyBounded
  <2>9. CASE UNCHANGED <<workerPc, queue, out, minimumFrames, maximumFrames, wanted, least, limit>>
    BY <2>9 DEF LatencyInv, LatencyBounded
  <2> QED  BY <2>1, <2>2, <2>3, <2>4, <2>5, <2>6, <2>7, <2>8, <2>9, <2>11
           DEF Next, Callback, FinishRequest, Worker, Arrive, CallbackBegins, PlayBlock, KeepWaiting,
               Underrun, RequestReset, ExpectGeneration, RequestPlayoutReset, PrepareEngine,
               workerVars, sharedVars, messageVars, vars
<1>3. LatencyInv => LatencyBounded
  BY DEF LatencyInv
<1> QED  BY <1>1, <1>2, <1>3, ReceiveInvariant, PTL DEF Spec

-----------------------------------------------------------------------------
(* Transport *)

\* What a client can be configured to, at first to nothing, and the parts of it.
Unconfigured == [server |-> NoServer, key |-> NoKey, useFEC |-> FALSE]
Configured == Configurations \cup {Unconfigured}
Names == {c.server : c \in Configured}
Keys == {c.key : c \in Configured}
FecValues == {c.useFEC : c \in Configured}

\* What a client sends: the FEC switch, probes and audio.
FecBytes(value) == serialize(Control([FEC |-> value]))
ProbeBytes == serialize(Control([mtu_probe_v1 |-> "size"]))
AudioBytes == serialize(AudioToSend(Current))
Bytes == {FecBytes(value) : value \in FecValues} \cup {ProbeBytes, AudioBytes}
Datagram == [to : Names, key : Keys, bytes : Bytes]

\* The types of what the proof is about.
LinkData ==
  /\ configuration \in Configured /\ server \in Names /\ senderKey \in Keys
  /\ sending \in [pc : {"free", "control", "audio", "probe", "probeEncrypted"}, to : Names, key : Keys]
  /\ toServer \in Seq(Datagram) /\ fecSwitch \in [Servers -> FecValues]
  /\ updatePc \in {"idle", "senderKey", "fec", "receiverKey"}

\* What the message thread has done of its update.
UpdateInv ==
  /\ server = configuration.server
  /\ updatePc # "senderKey" => senderKey = configuration.key
  /\ sending.pc = "control" => updatePc = "fec" /\ sending.to = server

\* The control message of an update to configuration c.
FecDatagram(c) == [to |-> c.server, key |-> c.key, bytes |-> FecBytes(c.useFEC)]

\* The control message of the last update is under way and the last of its kind, or
\* it has arrived and nothing older can undo it.
UnderWay(q) ==
  \E i \in 1..Len(q) : /\ q[i] = FecDatagram(configuration)
                       /\ \A j \in 1..Len(q) : j > i => ~IsFecControl(q[j])

Through(q, switch) ==
  /\ \A j \in 1..Len(q) : ~IsFecControl(q[j])
  /\ switch[configuration.server] = configuration.useFEC

Settled(q, switch) == UnderWay(q) \/ Through(q, switch)

\* Once the control message is sent, and not lost, the switch is or will be set.
SwitchInv ==
  updatePc \in {"idle", "receiverKey"} /\ Reachable(configuration) /\ ~controlLost =>
    Settled(toServer, fecSwitch)

LinkInv == LinkData /\ UpdateInv /\ SwitchInv

\* What a control message looks like on the wire, and that it is read back.
LEMMA ControlOnTheWire ==
  ASSUME NEW json
  PROVE  serialize(Control(json)) = [type |-> "GENERIC_JSON", controlMessageJson |-> json]
BY DEF serialize, Control, SerializedControl

\* Audio is no control message.
LEMMA AudioOnTheWire == AudioBytes.type = "AUDIODATA"
BY DEF AudioBytes, AudioToSend, NewAudioData, AudioData, serialize, SerializedAudio

\* A message is read as a control message only if it is one.
LEMMA ControlIsRead ==
  ASSUME NEW b
  PROVE  /\ deserialize(b).type = "GENERIC_JSON" => b.type = "GENERIC_JSON"
         /\ b.type = "GENERIC_JSON" => /\ deserialize(b).type = "GENERIC_JSON"
                                       /\ deserialize(b).json = b.controlMessageJson
<1>1. CASE b.type \notin MessageType
  BY <1>1 DEF deserialize, NoMessage, MessageType
<1>2. CASE b.type = "AUDIODATA"
  BY <1>2 DEF deserialize, MessageType, ReadAudio, NoMessage, AudioData
<1>3. CASE b.type = "CLIENTINFO"
  BY <1>3 DEF deserialize, MessageType, ReadClientInfo, ClientInfo
<1>4. CASE b.type = "SESSIONSETUP"
  BY <1>4 DEF deserialize, MessageType, ReadSessionInfo, SessionInfo
<1>5. CASE b.type = "GENERIC_JSON"
  BY <1>5 DEF deserialize, MessageType, ReadControl, Control
<1> QED  BY <1>1, <1>2, <1>3, <1>4, <1>5 DEF MessageType

\* Of the datagrams of a client the FEC messages alone are FEC messages.
LEMMA WhatIsFecControl ==
  ASSUME NEW d \in Datagram
  PROVE  /\ IsFecControl(d) => /\ d.bytes.type = "GENERIC_JSON"
                               /\ \E v \in FecValues : d.bytes.controlMessageJson.FEC = v
         /\ \A v : d.bytes = FecBytes(v) => IsFecControl(d) /\ d.bytes.controlMessageJson.FEC = v
         /\ d.bytes = ProbeBytes => ~IsFecControl(d)
         /\ d.bytes = AudioBytes => ~IsFecControl(d)
<1>1. \A v : /\ FecBytes(v).type = "GENERIC_JSON" /\ "FEC" \in DOMAIN FecBytes(v).controlMessageJson
             /\ FecBytes(v).controlMessageJson.FEC = v
  BY ControlOnTheWire DEF FecBytes
<1>2. "FEC" \notin DOMAIN ProbeBytes.controlMessageJson
  BY ControlOnTheWire DEF ProbeBytes
<1>3. d.bytes \in Bytes
  BY DEF Datagram
<1>4. d.bytes = ProbeBytes => ~IsFecControl(d)
  BY <1>2 DEF IsFecControl
<1>5. d.bytes = AudioBytes => ~IsFecControl(d)
  BY AudioOnTheWire DEF IsFecControl
<1> QED  BY <1>1, <1>3, <1>4, <1>5 DEF IsFecControl, Bytes

\* A datagram without one element.
LEMMA WithoutOne ==
  ASSUME NEW S, NEW q \in Seq(S), NEW i \in 1..Len(q)
  PROVE  /\ Without(q, i) \in Seq(S) /\ Len(Without(q, i)) = Len(q) - 1 /\ Len(q) \in Nat
         /\ \A j \in 1..Len(Without(q, i)) :
              Without(q, i)[j] = IF j < i THEN q[j] ELSE q[j + 1]
<1> DEFINE a == SubSeq(q, 1, i - 1)
           b == SubSeq(q, i + 1, Len(q))
<1>1. Len(q) \in Nat /\ i \in Nat
  OBVIOUS
<1>2. /\ a \in Seq(S) /\ Len(a) = i - 1 /\ \A j \in 1..(i - 1) : a[j] = q[j]
      /\ b \in Seq(S) /\ Len(b) = Len(q) - i /\ \A j \in 1..(Len(q) - i) : b[j] = q[i + j]
  BY <1>1
<1> HIDE DEF a, b
<1>3. /\ a \o b \in Seq(S) /\ Len(a \o b) = Len(a) + Len(b)
      /\ \A j \in 1..Len(a) : (a \o b)[j] = a[j]
      /\ \A j \in 1..Len(b) : (a \o b)[Len(a) + j] = b[j]
  <2>1. a \in Seq(S) /\ b \in Seq(S)
    BY <1>2
  <2> QED  BY <2>1
<1>4. \A j \in 1..(Len(q) - 1) : (a \o b)[j] = IF j < i THEN q[j] ELSE q[j + 1]
  <2> SUFFICES ASSUME NEW j \in 1..(Len(q) - 1)
               PROVE  (a \o b)[j] = IF j < i THEN q[j] ELSE q[j + 1]
    OBVIOUS
  <2>1. CASE j < i
    BY <1>1, <1>2, <1>3, <2>1
  <2>2. CASE ~(j < i)
    <3>1. j - (i - 1) \in 1..Len(b) /\ Len(a) + (j - (i - 1)) = j /\ i + (j - (i - 1)) = j + 1
      BY <1>1, <1>2, <2>2
    <3>2. (a \o b)[Len(a) + (j - (i - 1))] = b[j - (i - 1)]
      BY <1>3, <3>1
    <3>3. b[j - (i - 1)] = q[i + (j - (i - 1))]
      BY <1>2, <3>1
    <3> QED  BY <2>2, <3>1, <3>2, <3>3
  <2> QED  BY <2>1, <2>2
<1>5. Without(q, i) = a \o b
  BY DEF Without, a, b
<1>6. Len(a \o b) = Len(q) - 1
  BY <1>1, <1>2, <1>3
<1> HIDE DEF Without
<1> QED  BY <1>1, <1>3, <1>4, <1>5, <1>6

\* Before the first configuration there is no server and no key.
LEMMA FreeType == NoServer \in Names /\ NoKey \in Keys /\ FALSE \in FecValues
<1>1. /\ Unconfigured \in Configured /\ Unconfigured.server = NoServer
      /\ Unconfigured.key = NoKey /\ Unconfigured.useFEC = FALSE
  BY DEF Configured, Unconfigured
<1> QED  BY <1>1, Zenon DEF Names, Keys, FecValues

\* Sending something else than the FEC message does not disturb it.
LEMMA OtherIsSent ==
  ASSUME LinkInv, NEW d \in Datagram, ~IsFecControl(d), toServer' = Append(toServer, d),
         UNCHANGED <<updatePc, configuration, controlLost, fecSwitch>>
  PROVE  SwitchInv'
<1>1. /\ toServer \in Seq(Datagram) /\ Len(toServer') = Len(toServer) + 1 /\ Len(toServer) \in Nat
      /\ toServer'[Len(toServer) + 1] = d
      /\ \A j \in 1..Len(toServer) : toServer'[j] = toServer[j]
  BY DEF LinkInv, LinkData
<1>2. \A j \in 1..Len(toServer') : j \in 1..Len(toServer) \/ toServer'[j] = d
  BY <1>1
<1>3. UnderWay(toServer) => UnderWay(toServer)'
  <2> SUFFICES ASSUME NEW i \in 1..Len(toServer), toServer[i] = FecDatagram(configuration),
                      \A j \in 1..Len(toServer) : j > i => ~IsFecControl(toServer[j])
               PROVE  UnderWay(toServer)'
    BY DEF UnderWay
  <2>1. i \in 1..Len(toServer') /\ toServer'[i] = FecDatagram(configuration)
    BY <1>1
  <2>2. \A j \in 1..Len(toServer') : j > i => ~IsFecControl(toServer'[j])
    BY <1>1, <1>2
  <2> QED  BY <2>1, <2>2 DEF UnderWay, FecDatagram
<1>4. Through(toServer, fecSwitch) => Through(toServer, fecSwitch)'
  BY <1>1, <1>2 DEF Through
<1> QED  BY <1>3, <1>4, Zenon DEF LinkInv, SwitchInv, Settled, Reachable

\* The control message of the update is the newest.
LEMMA ControlIsSent ==
  ASSUME LinkInv, SendControl PROVE LinkInv'
<1>1. /\ sending.pc = "control" /\ sending' = Free /\ updatePc' = AfterCall(updatePc)
      /\ UNCHANGED <<configuration, server, senderKey, fecSwitch>>
      /\ toServer' = Append(toServer, [to |-> sending.to, key |-> senderKey,
                                       bytes |-> FecBytes(configuration.useFEC)])
  BY DEF SendControl, remoteVars, FecBytes
<1>2. updatePc = "fec" /\ updatePc' = "receiverKey"
  BY <1>1 DEF LinkInv, UpdateInv, AfterCall
<1>3. sending.to = configuration.server /\ senderKey = configuration.key
  BY <1>1, <1>2 DEF LinkInv, UpdateInv
<1>4. toServer' = Append(toServer, FecDatagram(configuration))
  BY <1>1, <1>3 DEF FecDatagram
<1>5. FecDatagram(configuration) \in Datagram
  <2>1. /\ configuration.server \in Names /\ configuration.key \in Keys
        /\ configuration.useFEC \in FecValues
    BY DEF LinkInv, LinkData, Names, Keys, FecValues
  <2> QED  BY <2>1 DEF FecDatagram, Datagram, Bytes
<1>6. /\ toServer' \in Seq(Datagram) /\ Len(toServer') \in Nat \ {0}
      /\ toServer'[Len(toServer')] = FecDatagram(configuration)
  BY <1>4, <1>5 DEF LinkInv, LinkData
<1>7. UnderWay(toServer)'
  <2>1. Len(toServer') \in 1..Len(toServer')
        /\ \A j \in 1..Len(toServer') : ~(j > Len(toServer'))
    BY <1>6
  <2>2. configuration' = configuration
    BY <1>1
  <2> QED  BY <1>6, <2>1, <2>2 DEF UnderWay, FecDatagram
<1>8. SwitchInv'
  BY <1>7, Zenon DEF SwitchInv, Settled
<1>9. Free \in [pc : {"free", "control", "audio", "probe", "probeEncrypted"}, to : Names, key : Keys]
  BY FreeType DEF Free
<1>10. LinkData'
  BY <1>1, <1>2, <1>6, <1>9 DEF LinkInv, LinkData
<1>11. UpdateInv'
  BY <1>1, <1>2 DEF LinkInv, UpdateInv, Free
<1> QED  BY <1>8, <1>10, <1>11 DEF LinkInv

\* A server takes the oldest datagram: an FEC message sets its switch, under its key.
LEMMA DatagramArrives ==
  ASSUME LinkInv, ServerReceives PROVE LinkInv'
<1> DEFINE d == Head(toServer)
<1>1. /\ toServer # <<>> /\ toServer' = Tail(toServer)
      /\ UNCHANGED <<updatePc, configuration, controlLost, server, senderKey, sending>>
  BY DEF ServerReceives, updateVars, sendSideVars, lossVars
<1>2. /\ d = toServer[1] /\ d \in Datagram /\ toServer' \in Seq(Datagram)
      /\ Len(toServer) \in Nat \ {0} /\ Len(toServer') = Len(toServer) - 1
      /\ \A j \in 1..Len(toServer') : j + 1 \in 1..Len(toServer) /\ toServer'[j] = toServer[j + 1]
  BY <1>1 DEF LinkInv, LinkData
<1>3. \/ fecSwitch' = fecSwitch /\ ~(IsFecControl(d) /\ d.to \in Servers /\ d.key = ServerKey[d.to])
      \/ /\ d.to \in Servers /\ IsFecControl(d)
         /\ fecSwitch' = [fecSwitch EXCEPT ![d.to] = d.bytes.controlMessageJson.FEC]
  <2> DEFINE message == Decrypted(d, ServerKey[d.to])
  <2>1. CASE d.to \notin Servers
    BY <2>1 DEF ServerReceives, remoteVars
  <2>2. CASE d.to \in Servers
    <3>1. fecSwitch' = IF message.type = "GENERIC_JSON" /\ "FEC" \in DOMAIN message.json
                       THEN [fecSwitch EXCEPT ![d.to] = message.json.FEC] ELSE fecSwitch
      BY <2>2 DEF ServerReceives
    <3>2. CASE d.key = ServerKey[d.to]
      <4>1. message = deserialize(d.bytes)
        BY <3>2 DEF Decrypted
      <4>2. /\ message.type = "GENERIC_JSON" => d.bytes.type = "GENERIC_JSON"
            /\ d.bytes.type = "GENERIC_JSON" => /\ message.type = "GENERIC_JSON"
                                                /\ message.json = d.bytes.controlMessageJson
        BY <4>1, ControlIsRead
      <4> HIDE DEF message
      <4> QED  BY <2>2, <3>1, <4>2 DEF IsFecControl
    <3>3. CASE d.key # ServerKey[d.to]
      <4>1. message = deserialize([type |-> "garbage"])
        BY <3>3 DEF Decrypted
      <4>2. message.type # "GENERIC_JSON"
        BY <4>1, ControlIsRead
      <4> HIDE DEF message
      <4> QED  BY <3>1, <3>3, <4>2
    <3> QED  BY <3>2, <3>3
  <2> QED  BY <2>1, <2>2
<1> HIDE DEF d
<1>4. fecSwitch' \in [Servers -> FecValues]
  BY <1>2, <1>3, WhatIsFecControl DEF LinkInv, LinkData
<1>5. LinkData' /\ UpdateInv'
  BY <1>1, <1>2, <1>4 DEF LinkInv, LinkData, UpdateInv
<1>6. SwitchInv'
  <2>1. SUFFICES ASSUME updatePc \in {"idle", "receiverKey"}, Reachable(configuration), ~controlLost
                 PROVE  Settled(toServer, fecSwitch)'
    BY <1>1, Zenon DEF SwitchInv, Reachable
  <2>2. Settled(toServer, fecSwitch)
    BY <2>1, Zenon DEF LinkInv, SwitchInv
  <2>3. CASE Through(toServer, fecSwitch)
    <3>1. ~IsFecControl(d)
      BY <1>2, <2>3 DEF Through
    <3>2. Through(toServer, fecSwitch)'
      BY <1>1, <1>2, <1>3, <2>3, <3>1 DEF Through
    <3> QED  BY <3>2 DEF Settled
  <2>4. CASE UnderWay(toServer)
    <3>1. PICK i \in 1..Len(toServer) :
            /\ toServer[i] = FecDatagram(configuration)
            /\ \A j \in 1..Len(toServer) : j > i => ~IsFecControl(toServer[j])
      BY <2>4 DEF UnderWay
    <3>2. CASE i = 1
      <4>1. /\ d = FecDatagram(configuration) /\ d.to = configuration.server
            /\ d.key = configuration.key /\ d.bytes = FecBytes(configuration.useFEC)
        BY <1>2, <3>1, <3>2 DEF FecDatagram
      <4>2. IsFecControl(d) /\ d.bytes.controlMessageJson.FEC = configuration.useFEC
        BY <1>2, <4>1, WhatIsFecControl
      <4>3. d.to \in Servers /\ d.key = ServerKey[d.to]
        BY <2>1, <4>1 DEF Reachable
      <4>4. fecSwitch'[configuration.server] = configuration.useFEC
        BY <1>3, <4>1, <4>2, <4>3 DEF LinkInv, LinkData
      <4>5. \A j \in 1..Len(toServer') : ~IsFecControl(toServer'[j])
        BY <1>2, <3>1, <3>2
      <4>6. Through(toServer, fecSwitch)'
        BY <1>1, <4>4, <4>5 DEF Through
      <4> QED  BY <4>6 DEF Settled
    <3>3. CASE i # 1
      <4>1. i - 1 \in 1..Len(toServer') /\ toServer'[i - 1] = toServer[i]
        BY <1>2, <3>3
      <4>2. \A j \in 1..Len(toServer') : j > i - 1 => ~IsFecControl(toServer'[j])
        BY <1>2, <3>1
      <4>3. UnderWay(toServer)'
        BY <1>1, <3>1, <4>1, <4>2 DEF UnderWay, FecDatagram
      <4> QED  BY <4>3 DEF Settled
    <3> QED  BY <3>2, <3>3
  <2> QED  BY <2>2, <2>3, <2>4 DEF Settled
<1> QED  BY <1>5, <1>6 DEF LinkInv

\* A datagram that is lost is no FEC message, or the history says so.
LEMMA DatagramIsLost ==
  ASSUME LinkInv, Lose PROVE LinkInv'
<1>1. UNCHANGED <<updatePc, configuration, server, senderKey, sending, fecSwitch>>
  BY DEF Lose, updateVars, sendSideVars, remoteVars
<1>2. CASE UNCHANGED <<toServer, controlLost>>
  BY <1>1, <1>2 DEF LinkInv, LinkData, UpdateInv, SwitchInv, Settled, UnderWay, Through, Reachable,
                    FecDatagram
<1>3. CASE ~UNCHANGED <<toServer, controlLost>>
  <2>1. PICK k \in DOMAIN toServer : /\ toServer' = Without(toServer, k)
                                     /\ controlLost' = (controlLost \/ IsFecControl(toServer[k]))
    BY <1>3 DEF Lose
  <2>2. k \in 1..Len(toServer) /\ toServer \in Seq(Datagram)
    BY <2>1 DEF LinkInv, LinkData
  <2>3. /\ toServer' \in Seq(Datagram) /\ Len(toServer') = Len(toServer) - 1 /\ Len(toServer) \in Nat
        /\ \A j \in 1..Len(toServer') : toServer'[j] = IF j < k THEN toServer[j] ELSE toServer[j + 1]
    BY <2>1, <2>2, WithoutOne
  <2>4. LinkData' /\ UpdateInv'
    BY <1>1, <2>3 DEF LinkInv, LinkData, UpdateInv
  <2>5. SwitchInv'
    <3>1. SUFFICES ASSUME updatePc \in {"idle", "receiverKey"}, Reachable(configuration),
                          ~controlLost, ~IsFecControl(toServer[k])
                   PROVE  Settled(toServer, fecSwitch)'
      BY <1>1, <2>1, Zenon DEF SwitchInv, Reachable
    <3>2. Settled(toServer, fecSwitch)
      BY <3>1, Zenon DEF LinkInv, SwitchInv
    <3>3. CASE Through(toServer, fecSwitch)
      <4>1. Through(toServer, fecSwitch)'
        BY <1>1, <2>2, <2>3, <3>3 DEF Through
      <4> QED  BY <4>1 DEF Settled
    <3>4. CASE UnderWay(toServer)
      <4>1. PICK i \in 1..Len(toServer) :
              /\ toServer[i] = FecDatagram(configuration)
              /\ \A j \in 1..Len(toServer) : j > i => ~IsFecControl(toServer[j])
        BY <3>4 DEF UnderWay
      <4>2. i # k
        <5>1. toServer[i] \in Datagram /\ toServer[i].bytes = FecBytes(configuration.useFEC)
          BY <2>2, <4>1 DEF FecDatagram
        <5>2. IsFecControl(toServer[i])
          BY <5>1, WhatIsFecControl
        <5> QED  BY <3>1, <5>2
      <4> DEFINE at == IF i < k THEN i ELSE i - 1
      <4>3. at \in 1..Len(toServer') /\ toServer'[at] = toServer[i]
        <5>1. CASE i < k
          BY <2>2, <2>3, <5>1
        <5>2. CASE ~(i < k)
          <6>1. i - 1 \in 1..Len(toServer') /\ ~(i - 1 < k) /\ (i - 1) + 1 = i
            BY <2>2, <2>3, <4>2, <5>2
          <6>2. toServer'[i - 1] = toServer[(i - 1) + 1]
            BY <2>3, <6>1
          <6> QED  BY <5>2, <6>1, <6>2
        <5> QED  BY <5>1, <5>2
      <4>4. \A j \in 1..Len(toServer') : j > at => ~IsFecControl(toServer'[j])
        <5> SUFFICES ASSUME NEW j \in 1..Len(toServer'), j > at
                     PROVE  ~IsFecControl(toServer'[j])
          OBVIOUS
        <5>1. CASE j < k
          BY <2>2, <2>3, <4>1, <4>2, <5>1
        <5>2. CASE ~(j < k)
          BY <2>2, <2>3, <4>1, <4>2, <5>2
        <5> QED  BY <5>1, <5>2
      <4> HIDE DEF at
      <4>5. UnderWay(toServer)'
        BY <1>1, <4>1, <4>3, <4>4 DEF UnderWay, FecDatagram
      <4> QED  BY <4>5 DEF Settled
    <3> QED  BY <3>2, <3>3, <3>4 DEF Settled
  <2> QED  BY <2>4, <2>5 DEF LinkInv
<1> QED  BY <1>2, <1>3

\* The switch of the last update is on its way or through, whatever else is sent,
\* lost or received.
THEOREM LinkInvariant == TransportSpec => []LinkInv
<1>1. TransportInit => LinkInv
  <2> SUFFICES ASSUME TransportInit PROVE LinkInv
    OBVIOUS
  <2>1. configuration = Unconfigured /\ configuration \in Configured
    BY DEF TransportInit, Unconfigured, Configured
  <2>2. configuration.server = NoServer /\ configuration.key = NoKey /\ configuration.useFEC = FALSE
    BY <2>1 DEF Unconfigured
  <2>3. LinkData
    <3>1. fecSwitch \in [Servers -> FecValues]
      BY FreeType DEF TransportInit
    <3>2. sending \in [pc : {"free", "control", "audio", "probe", "probeEncrypted"}, to : Names, key : Keys]
      BY FreeType DEF TransportInit, Free
    <3>3. toServer \in Seq(Datagram) /\ server \in Names /\ senderKey \in Keys /\ updatePc = "idle"
      BY FreeType DEF TransportInit
    <3> QED  BY <2>1, <3>1, <3>2, <3>3 DEF LinkData
  <2>4. UpdateInv
    BY <2>2 DEF TransportInit, UpdateInv, Free
  <2>5. SwitchInv
    BY <2>2 DEF TransportInit, SwitchInv, Settled, Through, Reachable
  <2> QED  BY <2>3, <2>4, <2>5 DEF LinkInv
<1>2. ASSUME LinkInv, [TransportNext]_transportVars PROVE LinkInv'
  <2> USE <1>2
  <2>0. /\ Free \in [pc : {"free", "control", "audio", "probe", "probeEncrypted"}, to : Names, key : Keys]
        /\ Free.pc = "free"
    BY FreeType DEF Free
  <2>1. CASE SetServer
    <3>1. /\ configuration' \in Configurations /\ server' = configuration'.server
          /\ updatePc = "idle" /\ updatePc' = "senderKey"
          /\ UNCHANGED <<senderKey, sending, toServer, fecSwitch>>
      BY <2>1 DEF SetServer, AfterCall, remoteVars
    <3>2. configuration' \in Configured /\ server' \in Names
      BY <3>1 DEF Configured, Names
    <3> QED  BY <3>1, <3>2 DEF LinkInv, LinkData, UpdateInv, SwitchInv
  <2>2. CASE SetSenderKey
    <3>1. /\ updatePc' = "fec" /\ senderKey' = configuration.key
          /\ UNCHANGED <<configuration, server, sending, toServer, fecSwitch>>
          /\ updatePc = "senderKey"
      BY <2>2 DEF SetSenderKey, AfterCall, remoteVars
    <3>2. senderKey' \in Keys
      BY <3>1 DEF LinkInv, LinkData, Keys
    <3> QED  BY <3>1, <3>2 DEF LinkInv, LinkData, UpdateInv, SwitchInv
  <2>3. CASE BeginControl
    <3>1. /\ updatePc = "fec" /\ sending' = [Free EXCEPT !.pc = "control", !.to = server]
          /\ UNCHANGED <<updatePc, configuration, server, senderKey, toServer, fecSwitch>>
      BY <2>3 DEF BeginControl, updateVars, remoteVars
    <3>2. sending' \in [pc : {"free", "control", "audio", "probe", "probeEncrypted"}, to : Names, key : Keys]
          /\ sending'.to = server
      BY <3>1, FreeType DEF Free, LinkInv, LinkData
    <3> QED  BY <3>1, <3>2 DEF LinkInv, LinkData, UpdateInv, SwitchInv
  <2>4. CASE SendControl
    BY <2>4, ControlIsSent
  <2>5. CASE SetReceiverKey
    <3>1. /\ updatePc = "receiverKey" /\ updatePc' = "idle"
          /\ UNCHANGED <<configuration, server, senderKey, sending, toServer, fecSwitch, controlLost>>
      BY <2>5 DEF SetReceiverKey, AfterCall, sendSideVars, remoteVars, lossVars
    <3> QED  BY <3>1 DEF LinkInv, LinkData, UpdateInv, SwitchInv, Settled, UnderWay, Through, Reachable,
                         FecDatagram
  <2>6. CASE BeginAudio \/ EncryptProbe
    <3>1. UNCHANGED <<updatePc, configuration, server, senderKey, toServer, fecSwitch, controlLost>>
      BY <2>6 DEF BeginAudio, EncryptProbe, updateVars, remoteVars, lossVars
    <3>2. /\ sending' \in [pc : {"free", "control", "audio", "probe", "probeEncrypted"}, to : Names, key : Keys]
          /\ sending'.pc # "control"
      BY <2>6, FreeType DEF BeginAudio, EncryptProbe, Free, LinkInv, LinkData
    <3> QED  BY <3>1, <3>2 DEF LinkInv, LinkData, UpdateInv, SwitchInv, Settled, UnderWay, Through,
                               Reachable, FecDatagram
  <2>7. CASE SendAudio \/ SendProbeDatagram
    <3>1. UNCHANGED <<updatePc, configuration, server, senderKey, fecSwitch, controlLost>>
      BY <2>7 DEF SendAudio, SendProbeDatagram, updateVars, remoteVars, lossVars
    <3>2. /\ sending' \in [pc : {"free", "control", "audio", "probe", "probeEncrypted"}, to : Names, key : Keys]
          /\ sending'.pc # "control"
      BY <2>7, FreeType DEF SendAudio, SendProbeDatagram, Free
    <3>3. PICK to \in Names, key \in Keys, bytes \in {AudioBytes, ProbeBytes} :
            toServer' = Append(toServer, [to |-> to, key |-> key, bytes |-> bytes])
      BY <2>7 DEF SendAudio, SendProbeDatagram, AudioBytes, ProbeBytes, LinkInv, LinkData
    <3> DEFINE d == [to |-> to, key |-> key, bytes |-> bytes]
    <3>4. d \in Datagram /\ ~IsFecControl(d)
      <4>1. d \in Datagram /\ d.bytes = bytes
        BY DEF Datagram, Bytes
      <4> QED  BY <4>1, WhatIsFecControl
    <3> HIDE DEF d
    <3>5. toServer' = Append(toServer, d) /\ toServer' \in Seq(Datagram)
      BY <3>3, <3>4 DEF LinkInv, LinkData, d
    <3>6. SwitchInv'
      BY <3>1, <3>4, <3>5, OtherIsSent
    <3> QED  BY <3>1, <3>2, <3>5, <3>6 DEF LinkInv, LinkData, UpdateInv
  <2>8. CASE ServerReceives
    BY <2>8, DatagramArrives
  <2>9. CASE Lose
    BY <2>9, DatagramIsLost
  <2>10. CASE ClientReceives \/ ReceiveTimeout \/ UNCHANGED transportVars
    <3>1. UNCHANGED <<updatePc, configuration, server, senderKey, sending, toServer, fecSwitch, controlLost>>
      BY <2>10 DEF ClientReceives, ReceiveTimeout, updateVars, sendSideVars, remoteVars, lossVars,
                   transportVars
    <3> QED  BY <3>1 DEF LinkInv, LinkData, UpdateInv, SwitchInv, Settled, UnderWay, Through, Reachable,
                         FecDatagram
  <2> QED  BY <2>1, <2>2, <2>3, <2>4, <2>5, <2>6, <2>7, <2>8, <2>9, <2>10
           DEF TransportNext, UpdateGoesOn, WorkerSends
<1> QED  BY <1>1, <1>2, PTL DEF TransportSpec

\* JammerNetzSession::updateConfiguration: the server the last update names ends up
\* with the FEC switch of that update, although the worker sends all the time, older
\* control messages are still under way and the update may change the key too.
THEOREM ControlArrives == TransportSpec => []ControlReachesServer
<1>1. LinkInv => ControlReachesServer
  <2> SUFFICES ASSUME LinkInv, updatePc = "idle", Reachable(configuration), ~controlLost,
                      \A i \in DOMAIN toServer : ~IsFecControl(toServer[i])
               PROVE  fecSwitch[configuration.server] = configuration.useFEC
    BY DEF ControlReachesServer
  <2>1. Settled(toServer, fecSwitch)
    BY Zenon DEF LinkInv, SwitchInv
  <2>2. ~UnderWay(toServer)
    <3> SUFFICES ASSUME NEW i \in 1..Len(toServer), toServer[i] = FecDatagram(configuration)
                 PROVE  FALSE
      BY DEF UnderWay
    <3>1. toServer[i] \in Datagram /\ toServer[i].bytes = FecBytes(configuration.useFEC)
      BY DEF FecDatagram, LinkInv, LinkData
    <3>2. IsFecControl(toServer[i]) /\ i \in DOMAIN toServer
      BY <3>1, WhatIsFecControl DEF LinkInv, LinkData
    <3> QED  BY <3>2
  <2> QED  BY <2>1, <2>2 DEF Settled, Through
<1> QED  BY <1>1, LinkInvariant, PTL
==============================================================================
