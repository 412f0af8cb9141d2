-------------------------- MODULE StreamQueueProofs --------------------------
(***************************************************************************)
(* Every method of the packet stream queue keeps the structure well formed *)
(* and moves the play position as its callers rely on.  The lemmas are     *)
(* about queue values, so the proofs about the queue as a component and    *)
(* about the server's queues cite the same facts.                          *)
(***************************************************************************)
EXTENDS StreamQueue, TLAPS, FiniteSetTheorems

-----------------------------------------------------------------------------
(* Minima and maxima: Min and Max of FiniteSetsExt, which CHOOSE, are what their *)
(* names say *)

\* A non-empty set of naturals has the minimum that the head of the heap is.
LEMMA MinOfNaturals ==
  ASSUME NEW S, S \subseteq Nat, S # {}
  PROVE  Min(S) \in S /\ \A y \in S : Min(S) <= y
<1> DEFINE R == OpToRel(<, Nat)
<1>1. IsWellFoundedOn(R, Nat)
  BY NatLessThanWellFounded
<1>2. \E x \in S : \A y \in S : ~ (<<y, x>> \in R)
  <2> HIDE DEF R
  <2> QED  BY <1>1, WFMin
<1>3. \A x, y \in Nat : <<y, x>> \in R <=> y < x
  BY DEF OpToRel
<1> HIDE DEF R
<1>4. PICK x \in S : \A y \in S : <<y, x>> \notin R
  BY <1>2
<1>5. \A y \in S : ~ (y < x)
  BY <1>3, <1>4
<1>6. \A y \in S : x <= y
  BY <1>5
<1> QED  BY <1>6 DEF Min

\* A non-empty bounded set of naturals has a maximum.
LEMMA MaxOfBounded ==
  ASSUME NEW S, NEW n \in Nat, S \subseteq 0..n, S # {}
  PROVE  Max(S) \in S /\ \A y \in S : y <= Max(S)
<1> DEFINE T == {n - y : y \in S}
<1>0. \A y \in S : y \in Nat /\ n - y \in Nat
  OBVIOUS
<1>1. T \subseteq Nat /\ T # {}
  BY <1>0
<1>2. Min(T) \in T /\ \A t \in T : Min(T) <= t
  BY <1>1, MinOfNaturals
<1>3. PICK x \in S : Min(T) = n - x
  BY <1>2
<1>4. \A y \in S : n - y \in T
  OBVIOUS
<1> HIDE DEF T
<1>5. \A y \in S : n - x <= n - y
  BY <1>2, <1>3, <1>4
<1>6. \A y \in S : y <= x
  BY <1>0, <1>5
<1> QED  BY <1>6 DEF Max

\* A finite set of naturals is bounded: a smallest unbounded one would still be
\* unbounded without one of its elements.
LEMMA FiniteIsBounded ==
  ASSUME NEW S, S \subseteq Nat, IsFiniteSet(S)
  PROVE  \E n \in Nat : S \subseteq 0..n
<1> DEFINE Bounded(T) == \E n \in Nat : T \subseteq 0..n
           Unbounded == {T \in SUBSET S : ~Bounded(T)}
           Sizes == {Cardinality(T) : T \in Unbounded}
<1>1. SUFFICES ASSUME ~Bounded(S) PROVE FALSE
  OBVIOUS
<1>2. \A T \in Unbounded : T \subseteq S /\ IsFiniteSet(T) /\ Cardinality(T) \in Nat
  BY FS_Subset, FS_CardinalityType
<1>3. Sizes \subseteq Nat /\ Sizes # {}
  <2>1. S \in Unbounded
    BY <1>1
  <2> HIDE DEF Unbounded
  <2> QED  BY <1>2, <2>1
<1>4. Min(Sizes) \in Sizes /\ \A k \in Sizes : Min(Sizes) <= k
  BY <1>3, MinOfNaturals
<1>5. PICK T \in Unbounded : Cardinality(T) = Min(Sizes)
  BY <1>4
<1>6. T # {}
  <2>1. {} \subseteq 0..0 /\ 0 \in Nat
    OBVIOUS
  <2> QED  BY <1>5, <2>1
<1>7. PICK x \in T : TRUE
  BY <1>6
<1> DEFINE U == T \ {x}
<1>8. x \in Nat /\ U \in SUBSET S
  BY <1>2, <1>5, <1>7
<1>9. Cardinality(U) = Cardinality(T) - 1 /\ Cardinality(T) \in Nat
  BY <1>2, <1>5, <1>7, FS_RemoveElement
<1>10. Bounded(U)
  <2>1. SUFFICES ASSUME U \in Unbounded PROVE FALSE
    BY <1>8
  <2>2. Cardinality(U) \in Sizes
    BY <2>1
  <2> HIDE DEF Sizes, Unbounded, U
  <2> QED  BY <1>4, <1>5, <1>9, <2>2
<1>11. PICK n \in Nat : U \subseteq 0..n
  BY <1>10
<1> DEFINE m == IF x > n THEN x ELSE n
<1>12. m \in Nat /\ T \subseteq 0..m
  <2>1. m \in Nat /\ x \in 0..m /\ 0..n \subseteq 0..m
    BY <1>8, <1>11
  <2> QED  BY <1>11, <2>1
<1>13. Bounded(T)
  BY <1>12
<1> QED  BY <1>5, <1>13

-----------------------------------------------------------------------------
(* The methods *)

\* A new or reset queue is well formed.
LEMMA EmptyIsWellFormed == WellFormed(EmptyQueue) /\ Counters(EmptyQueue) = {}
BY FS_EmptySet
   DEF WellFormed, EmptyQueue, Queue, Packet, Counters, IndexIsExact,
       AheadOfPosition, GapIsClosing

\* The counters of a queue are naturals, one for each packet.
LEMMA CountersType ==
  ASSUME NEW q \in Queue
  PROVE  /\ Counters(q) \subseteq Nat
         /\ Counters(q) = {} <=> q.packetQueue = {}
         /\ \A p \in q.packetQueue : p \in Packet /\ p.ctr \in Counters(q)
         /\ \A c \in Counters(q) : \E p \in q.packetQueue : p.ctr = c
BY DEF Queue, Packet, Counters

\* The head of the heap is a queued packet, the oldest one, and lies ahead of
\* the play position.
LEMMA TopIsOldest ==
  ASSUME NEW q, WellFormed(q), q.packetQueue # {}
  PROVE  /\ Top(q) \in q.packetQueue /\ Top(q).ctr = TopCounter(q)
         /\ TopCounter(q) \in Counters(q) /\ TopCounter(q) \in Nat
         /\ \A c \in Counters(q) : TopCounter(q) <= c
         /\ TopCounter(q) > q.lastPopped
         /\ \A p \in q.packetQueue : p.ctr = TopCounter(q) => p = Top(q)
<1>1. q \in Queue /\ AheadOfPosition(q) /\ IndexIsExact(q)
  BY DEF WellFormed
<1>2. TopCounter(q) \in Counters(q) /\ \A c \in Counters(q) : TopCounter(q) <= c
  BY <1>1, CountersType, MinOfNaturals DEF TopCounter
<1>3. TopCounter(q) \in Nat /\ TopCounter(q) > q.lastPopped
  BY <1>1, <1>2, CountersType DEF AheadOfPosition
<1>4. \E p \in q.packetQueue : p.ctr = TopCounter(q)
  BY <1>1, <1>2, CountersType
<1>5. Top(q) \in q.packetQueue /\ Top(q).ctr = TopCounter(q)
  BY <1>4 DEF Top
<1> QED  BY <1>1, <1>2, <1>3, <1>5 DEF IndexIsExact

\* push() keeps the queue well formed: a refused packet changes nothing, and a
\* taken one lies ahead of the position and has a counter of its own.
LEMMA PushKeepsWellFormed ==
  ASSUME NEW q, WellFormed(q), NEW p \in Packet
  PROVE  /\ WellFormed(PushPacket(q, p))
         /\ PushPacket(q, p).lastPopped = q.lastPopped
         /\ PushPacket(q, p).hasPoppedData = q.hasPoppedData
         /\ PushPacket(q, p).currentGap = q.currentGap
         /\ ~HasBeenPushedBefore(q, p) =>
              /\ p.ctr \notin Counters(q) /\ p.ctr > q.lastPopped
              /\ Counters(PushPacket(q, p)) = Counters(q) \cup {p.ctr}
              /\ Size(PushPacket(q, p)) = Size(q) + 1
<1> DEFINE r == PushPacket(q, p)
<1>1. CASE HasBeenPushedBefore(q, p)
  BY <1>1 DEF PushPacket
<1>2. CASE ~HasBeenPushedBefore(q, p)
  <2>1. /\ q \in Queue /\ IsFiniteSet(q.packetQueue) /\ IndexIsExact(q)
        /\ AheadOfPosition(q) /\ GapIsClosing(q)
    BY DEF WellFormed
  <2>2. r = [q EXCEPT !.packetQueue = q.packetQueue \cup {p},
                      !.currentlyInQueue = q.currentlyInQueue \cup {p.ctr}]
    BY <1>2 DEF PushPacket
  <2> DEFINE heap == q.packetQueue \cup {p}
             index == q.currentlyInQueue \cup {p.ctr}
  <2>a. heap \in SUBSET Packet /\ index \in SUBSET Nat
    BY <2>1 DEF Queue, Packet
  <2>b. r = [q EXCEPT !.packetQueue = heap, !.currentlyInQueue = index]
    BY <2>2
  <2> HIDE DEF heap, index, r
  <2>c. /\ r \in Queue /\ r.packetQueue = heap /\ r.currentlyInQueue = index
        /\ r.lastPopped = q.lastPopped /\ r.hasPoppedData = q.hasPoppedData
        /\ r.currentGap = q.currentGap
    BY <2>1, <2>a, <2>b DEF Queue
  <2>3. /\ r \in Queue /\ r.packetQueue = q.packetQueue \cup {p}
        /\ r.currentlyInQueue = q.currentlyInQueue \cup {p.ctr}
        /\ r.lastPopped = q.lastPopped /\ r.hasPoppedData = q.hasPoppedData
        /\ r.currentGap = q.currentGap
    BY <2>c DEF heap, index
  <2>4. p.ctr \in Nat /\ p.ctr > q.lastPopped /\ p.ctr \notin Counters(q)
    BY <1>2, <2>1
       DEF HasBeenPushedBefore, TooLateOrDuplicate, IndexIsExact, Packet, Queue
  <2> HIDE DEF r
  <2>5. Counters(r) = Counters(q) \cup {p.ctr}
    BY <2>3 DEF Counters
  <2>6. p \notin q.packetQueue
    BY <2>4 DEF Counters
  <2>7. IsFiniteSet(r.packetQueue) /\ Size(r) = Size(q) + 1
    BY <2>1, <2>3, <2>6, FS_AddElement DEF Size
  <2>8. IndexIsExact(r)
    <3>1. r.currentlyInQueue = Counters(r)
      BY <2>1, <2>3, <2>5 DEF IndexIsExact
    <3>2. \A a \in q.packetQueue : a.ctr # p.ctr
      BY <2>4 DEF Counters
    <3>3. \A a, b \in r.packetQueue : a.ctr = b.ctr => a = b
      BY <2>1, <2>3, <3>2 DEF IndexIsExact
    <3> QED  BY <3>1, <3>3 DEF IndexIsExact
  <2>9. AheadOfPosition(r)
    BY <2>1, <2>3, <2>4, <2>5 DEF AheadOfPosition
  <2>10. GapIsClosing(r)
    BY <2>1, <2>3, <2>5 DEF GapIsClosing
  <2> QED
    BY <2>3, <2>4, <2>5, <2>7, <2>8, <2>9, <2>10 DEF WellFormed, r
<1> QED  BY <1>1, <1>2

\* try_pop on the expected packet takes exactly that packet out of heap and
\* index and moves the position onto its counter.
LEMMA PopRealKeepsWellFormed ==
  ASSUME NEW q, WellFormed(q), q.packetQueue # {}
  PROVE  /\ WellFormed(PopReal(q))
         /\ Counters(PopReal(q)) = Counters(q) \ {TopCounter(q)}
         /\ Size(PopReal(q)) = Size(q) - 1
         /\ PopReal(q).lastPopped = TopCounter(q)
         /\ PopReal(q).hasPoppedData = TRUE
         /\ PopReal(q).currentGap = 0
<1> DEFINE r == PopReal(q)
           t == TopCounter(q)
<1>1. /\ q \in Queue /\ IsFiniteSet(q.packetQueue) /\ IndexIsExact(q)
      /\ AheadOfPosition(q) /\ GapIsClosing(q)
  BY DEF WellFormed
<1>2. /\ Top(q) \in q.packetQueue /\ Top(q).ctr = t
      /\ t \in Counters(q) /\ t \in Nat
      /\ \A c \in Counters(q) : t <= c
      /\ \A p \in q.packetQueue : p.ctr = t => p = Top(q)
  BY TopIsOldest
<1>3. /\ r \in Queue /\ r.packetQueue = q.packetQueue \ {Top(q)}
      /\ r.currentlyInQueue = q.currentlyInQueue \ {t}
      /\ r.lastPopped = t /\ r.hasPoppedData = TRUE /\ r.currentGap = 0
  BY <1>1, <1>2 DEF PopReal, Queue
<1> HIDE DEF r, t
<1>4. Counters(r) = Counters(q) \ {t}
  BY <1>2, <1>3 DEF Counters
<1>5. IsFiniteSet(r.packetQueue) /\ Size(r) = Size(q) - 1
  <2>1. /\ IsFiniteSet(q.packetQueue \ {Top(q)})
        /\ Cardinality(q.packetQueue \ {Top(q)}) = Cardinality(q.packetQueue) - 1
    BY <1>1, <1>2, FS_RemoveElement
  <2> QED  BY <1>3, <2>1 DEF Size
<1>6. IndexIsExact(r)
  BY <1>1, <1>3, <1>4 DEF IndexIsExact
<1>7. AheadOfPosition(r)
  <2> SUFFICES ASSUME NEW c \in Counters(r)  PROVE c > r.lastPopped
    BY DEF AheadOfPosition
  <2>1. c \in Counters(q) /\ c # t /\ c \in Nat
    BY <1>1, <1>4, CountersType
  <2> QED  BY <1>2, <1>3, <2>1
<1>8. GapIsClosing(r)
  BY <1>3 DEF GapIsClosing
<1> QED  BY <1>3, <1>4, <1>5, <1>6, <1>7, <1>8 DEF WellFormed, r, t

\* try_pop on a gap leaves heap and index alone, and moves the position
\* forward but not past the head of the heap; the second fill-in in a row
\* moves it directly before the head, so there is no third.
LEMMA PopFillInKeepsWellFormed ==
  ASSUME NEW q, WellFormed(q), q.packetQueue # {}, ~IsExpected(q)
  PROVE  /\ WellFormed(PopFillIn(q))
         /\ PopFillIn(q).packetQueue = q.packetQueue
         /\ Counters(PopFillIn(q)) = Counters(q)
         /\ PopFillIn(q).lastPopped = FillInCounter(q)
         /\ PopFillIn(q).hasPoppedData = q.hasPoppedData
         /\ PopFillIn(q).currentGap = q.currentGap + 1
         /\ q.currentGap \in {0, 1} /\ q.hasPoppedData
         /\ FillInCounter(q) \in Nat
         /\ FillInCounter(q) > q.lastPopped /\ FillInCounter(q) < TopCounter(q)
<1> DEFINE r == PopFillIn(q)
           t == TopCounter(q)
           f == FillInCounter(q)
<1>1. /\ q \in Queue /\ IsFiniteSet(q.packetQueue) /\ IndexIsExact(q)
      /\ AheadOfPosition(q) /\ GapIsClosing(q)
      /\ q.lastPopped \in Nat /\ q.currentGap \in Nat
  BY DEF WellFormed, Queue
<1>2. /\ t \in Counters(q) /\ t \in Nat /\ t > q.lastPopped
      /\ \A c \in Counters(q) : t <= c
  BY TopIsOldest
<1>3. t # q.lastPopped + 1 /\ q.hasPoppedData
  BY DEF IsExpected
<1>4. q.lastPopped + 1 \notin Counters(q)
  BY <1>1, <1>2, <1>3
<1>5. q.currentGap \in {0, 1}
  BY <1>1, <1>4 DEF GapIsClosing
<1>6. /\ f \in Nat /\ f > q.lastPopped /\ f < t
      /\ q.currentGap = 1 => f = t - 1
  BY <1>1, <1>2, <1>3, <1>5 DEF FillInCounter
<1> HIDE DEF f, t
<1>7. r = [q EXCEPT !.lastPopped = f, !.currentGap = q.currentGap + 1]
  BY DEF PopFillIn, f
<1> HIDE DEF r
<1>8. /\ r \in Queue /\ r.packetQueue = q.packetQueue
      /\ r.currentlyInQueue = q.currentlyInQueue
      /\ r.lastPopped = f /\ r.hasPoppedData = q.hasPoppedData
      /\ r.currentGap = q.currentGap + 1
  <2>1. q.currentGap + 1 \in Nat
    BY <1>1
  <2> QED  BY <1>1, <1>6, <1>7, <2>1 DEF Queue
<1>9. Counters(r) = Counters(q)
  BY <1>8 DEF Counters
<1>10. IndexIsExact(r)
  BY <1>1, <1>8, <1>9 DEF IndexIsExact
<1>11. AheadOfPosition(r)
  <2> SUFFICES ASSUME NEW c \in Counters(r)  PROVE c > r.lastPopped
    BY DEF AheadOfPosition
  <2>1. c \in Nat /\ t <= c
    BY <1>1, <1>2, <1>9, CountersType
  <2> QED  BY <1>2, <1>6, <1>8, <2>1
<1>12. GapIsClosing(r)
  <2>1. q.currentGap = 1 => r.lastPopped + 1 = t
    BY <1>2, <1>6, <1>8
  <2> QED  BY <1>2, <1>3, <1>5, <1>8, <1>9, <2>1 DEF GapIsClosing
<1> QED
  BY <1>1, <1>3, <1>5, <1>6, <1>8, <1>9, <1>10, <1>11, <1>12
     DEF WellFormed, r, t, f

\* The packets a fast-forward drops are all older than the ones it keeps.
LEMMA DiscardedIsOlder ==
  ASSUME NEW q, WellFormed(q), NEW n \in Nat
  PROVE  \A p \in Discarded(q, n), k \in NewestPackets(q.packetQueue, n) :
            p.ctr < k.ctr
<1> DEFINE S == q.packetQueue
           Above(p) == {x \in S : x.ctr > p.ctr}
<1>1. q \in Queue /\ IsFiniteSet(S) /\ \A p \in S : p.ctr \in Nat
  BY CountersType DEF WellFormed, Queue, Packet
<1>2. SUFFICES ASSUME NEW p \in Discarded(q, n), NEW k \in NewestPackets(S, n),
                      ~(p.ctr < k.ctr)
               PROVE  FALSE
  OBVIOUS
<1>3. p \in S /\ k \in S
  BY DEF Discarded, NewestPackets
<1>4. Cardinality(Above(k)) < n /\ ~(Cardinality(Above(p)) < n)
  BY <1>3 DEF Discarded, NewestPackets
<1>5. Above(p) \subseteq Above(k)
  BY <1>1, <1>2, <1>3
<1>6. IsFiniteSet(Above(k)) /\ IsFiniteSet(Above(p))
  BY <1>1, FS_Subset
<1>7. Cardinality(Above(p)) <= Cardinality(Above(k))
  BY <1>5, <1>6, FS_Subset
<1>8. Cardinality(Above(p)) \in Nat /\ Cardinality(Above(k)) \in Nat
  BY <1>6, FS_CardinalityType
<1> QED  BY <1>4, <1>7, <1>8

\* A fast-forward that drops something keeps the queue well formed, drops only
\* what it says, moves the position forward onto or past everything dropped and
\* not onto anything kept, and forgets the stream's context.
LEMMA FastForwardKeepsWellFormed ==
  ASSUME NEW q, WellFormed(q), NEW n \in Nat, Discarded(q, n) # {},
         NEW m \in Nat, Counters(q) \subseteq 0..m
  PROVE  LET r == FastForwardToSize(q, n)
             gone == {p.ctr : p \in Discarded(q, n)}
         IN  /\ WellFormed(r)
             /\ Counters(r) = Counters(q) \ gone
             /\ gone \subseteq Counters(q)
             /\ Size(r) = Size(q) - Cardinality(Discarded(q, n))
             /\ \A c \in gone : c <= r.lastPopped
             /\ r.lastPopped >= q.lastPopped /\ r.lastPopped \in 0..m
             /\ r.hasPoppedData = FALSE /\ r.currentGap = 0
<1> DEFINE r == FastForwardToSize(q, n)
           kept == NewestPackets(q.packetQueue, n)
           out == Discarded(q, n)
           gone == {p.ctr : p \in out}
           keptCounters == {p.ctr : p \in kept}
           pos == IF kept = {} THEN Max(gone)
                  ELSE IF Min(keptCounters) = 0 THEN 0
                  ELSE Min(keptCounters) - 1
<1>1. /\ q \in Queue /\ IsFiniteSet(q.packetQueue) /\ IndexIsExact(q)
      /\ AheadOfPosition(q) /\ q.lastPopped \in Nat
      /\ q.packetQueue \subseteq Packet /\ q.currentlyInQueue \subseteq Nat
  BY DEF WellFormed, Queue
<1>2. kept \subseteq q.packetQueue /\ out = q.packetQueue \ kept
  BY DEF NewestPackets, Discarded
<1>3. r = [q EXCEPT !.packetQueue = kept,
                    !.currentlyInQueue = q.currentlyInQueue \ gone,
                    !.hasPoppedData = FALSE, !.currentGap = 0,
                    !.lastPopped = pos]
  BY DEF FastForwardToSize
<1>4. \A p \in out, k \in kept : p.ctr < k.ctr
  BY DiscardedIsOlder
<1>5. \A p \in q.packetQueue :
        p.ctr \in Counters(q) /\ p.ctr \in 0..m /\ p.ctr > q.lastPopped
  BY <1>1 DEF Counters, AheadOfPosition
<1>6. gone \subseteq Counters(q) /\ gone \subseteq 0..m /\ gone # {}
  BY <1>2, <1>5
<1>7. keptCounters \subseteq 0..m /\ keptCounters \subseteq Nat
      /\ (kept # {} => keptCounters # {})
  BY <1>2, <1>5
<1>8. \A g \in gone, k \in keptCounters : g < k
  BY <1>4
<1>9. Counters(q) = gone \cup keptCounters
  BY <1>2 DEF Counters
<1> HIDE DEF kept, out, gone, keptCounters
<1>10. Counters(q) = gone \cup keptCounters /\ gone \cap keptCounters = {}
  BY <1>9, <1>6, <1>7, <1>8
<1>11. /\ pos \in 0..m /\ pos >= q.lastPopped
       /\ \A c \in gone : c <= pos
       /\ \A c \in keptCounters : c > pos
  <2>0. \A c \in gone : c \in Nat /\ c > q.lastPopped
    BY <1>1, <1>6 DEF AheadOfPosition
  <2>1. CASE kept = {}
    <3>1. Max(gone) \in gone /\ \A c \in gone : c <= Max(gone)
      BY <1>6, MaxOfBounded
    <3>2. keptCounters = {}
      BY <2>1 DEF keptCounters
    <3>3. pos = Max(gone)
      BY <2>1
    <3>4. Max(gone) \in 0..m /\ Max(gone) > q.lastPopped
      BY <1>6, <2>0, <3>1
    <3> HIDE DEF pos
    <3> QED  BY <1>1, <3>1, <3>2, <3>3, <3>4
  <2>2. CASE kept # {}
    <3> DEFINE k == Min(keptCounters)
    <3>1. k \in keptCounters /\ \A c \in keptCounters : k <= c
      BY <1>7, <2>2, MinOfNaturals
    <3>2. k \in 0..m /\ k > q.lastPopped /\ k # 0
      <4>1. k \in 0..m /\ k \in Counters(q)
        BY <1>7, <1>10, <3>1
      <4> QED  BY <1>1, <4>1 DEF AheadOfPosition
    <3>3. pos = k - 1
      BY <2>2, <3>2
    <3> HIDE DEF k
    <3>4. \A c \in gone : c < k
      BY <1>8, <3>1
    <3>5. \A c \in keptCounters : c \in Nat /\ k <= c
      BY <1>7, <3>1
    <3> HIDE DEF pos
    <3> QED  BY <1>1, <2>0, <3>2, <3>3, <3>4, <3>5
  <2> QED  BY <2>1, <2>2
<1> HIDE DEF pos, r
<1>12. /\ r \in Queue /\ r.packetQueue = kept
       /\ r.currentlyInQueue = q.currentlyInQueue \ gone
       /\ r.hasPoppedData = FALSE /\ r.currentGap = 0 /\ r.lastPopped = pos
  <2>1. kept \subseteq Packet /\ q.currentlyInQueue \ gone \subseteq Nat /\ pos \in Nat
    BY <1>1, <1>2, <1>11
  <2> QED  BY <1>1, <1>3, <2>1 DEF Queue
<1>13. Counters(r) = keptCounters
  BY <1>12 DEF Counters, keptCounters
<1>14. Counters(r) = Counters(q) \ gone
  BY <1>10, <1>13
<1>15. IsFiniteSet(r.packetQueue)
  BY <1>1, <1>2, <1>12, FS_Subset
<1>16. Size(r) = Size(q) - Cardinality(out)
  <2>1. /\ IsFiniteSet(out)
        /\ Cardinality(out) = Cardinality(q.packetQueue) - Cardinality(q.packetQueue \cap kept)
    BY <1>1, <1>2, FS_Difference
  <2>2. Cardinality(q.packetQueue \cap kept) = Cardinality(kept)
    <3>1. q.packetQueue \cap kept = kept
      BY <1>2
    <3> QED  BY <3>1
  <2>3. Cardinality(kept) \in Nat /\ Cardinality(q.packetQueue) \in Nat
    BY <1>1, <1>12, <1>15, FS_CardinalityType
  <2>4. Cardinality(kept) = Cardinality(q.packetQueue) - Cardinality(out)
    BY <2>1, <2>2, <2>3
  <2> QED  BY <1>12, <2>4 DEF Size
<1>17. IndexIsExact(r)
  <2>1. r.currentlyInQueue = Counters(r)
    BY <1>1, <1>12, <1>14 DEF IndexIsExact
  <2> QED  BY <1>1, <1>2, <1>12, <2>1 DEF IndexIsExact
<1>18. AheadOfPosition(r)
  BY <1>11, <1>12, <1>13 DEF AheadOfPosition
<1>19. GapIsClosing(r)
  BY <1>12 DEF GapIsClosing
<1>20. WellFormed(r)
  BY <1>12, <1>15, <1>17, <1>18, <1>19 DEF WellFormed
<1> QED
  BY <1>6, <1>11, <1>12, <1>14, <1>16, <1>20 DEF r, gone, out

\* A fast-forward to n packets leaves at most n: all that is kept but the
\* oldest is newer than the oldest, and fewer than n packets are.
LEMMA FastForwardShortens ==
  ASSUME NEW q, WellFormed(q), NEW n \in Nat
  PROVE  Size(FastForwardToSize(q, n)) <= n
<1> DEFINE S == q.packetQueue
           K == NewestPackets(S, n)
           Above(p) == {x \in S : x.ctr > p.ctr}
           C == {p.ctr : p \in K}
<1>1. /\ IsFiniteSet(S) /\ \A p \in S : p.ctr \in Nat
      /\ \A p, r \in S : p.ctr = r.ctr => p = r
  BY CountersType DEF WellFormed, Queue, Packet, IndexIsExact
<1>2. K \subseteq S /\ IsFiniteSet(K)
  BY <1>1, FS_Subset DEF NewestPackets
<1>3. Size(FastForwardToSize(q, n)) = Cardinality(K)
  <2>1. CASE Discarded(q, n) = {}
    <3>1. K = S
      BY <1>2, <2>1 DEF Discarded
    <3> QED  BY <2>1, <3>1 DEF FastForwardToSize, Size
  <2>2. CASE Discarded(q, n) # {}
    <3>1. q \in Queue
      BY DEF WellFormed
    <3>2. FastForwardToSize(q, n).packetQueue = K
      BY <2>2, <3>1 DEF FastForwardToSize, Queue
    <3> QED  BY <3>2 DEF Size
  <2> QED  BY <2>1, <2>2
<1>4. CASE K = {}
  BY <1>3, <1>4, FS_EmptySet
<1>5. CASE K # {}
  <2>1. C # {} /\ C \subseteq Nat
    BY <1>1, <1>2, <1>5
  <2>2. Min(C) \in C /\ \A c \in C : Min(C) <= c
    BY <2>1, MinOfNaturals
  <2>3. PICK m \in K : m.ctr = Min(C)
    BY <2>2
  <2>4. \A p \in K : m.ctr <= p.ctr
    BY <2>2, <2>3
  <2>5. m \in S /\ Cardinality(Above(m)) < n
    BY <1>2 DEF NewestPackets
  <2>6. IsFiniteSet(Above(m))
    BY <1>1, FS_Subset
  <2> DEFINE A == Above(m)
             R == K \ {m}
  <2>7. R \subseteq A
    BY <1>1, <1>2, <2>4, <2>5
  <2>8. Cardinality(R) = Cardinality(K) - 1 /\ IsFiniteSet(R)
    BY <1>2, FS_RemoveElement
  <2> HIDE DEF A, R, K
  <2>9. Cardinality(R) <= Cardinality(A)
    BY <2>6, <2>7, FS_Subset DEF A
  <2>10. Cardinality(A) \in Nat /\ Cardinality(R) \in Nat /\ Cardinality(K) \in Nat
    BY <1>2, <2>6, <2>8, FS_CardinalityType DEF A
  <2>11. Cardinality(A) < n
    BY <2>5 DEF A
  <2> QED  BY <1>3, <2>8, <2>9, <2>10, <2>11
<1> QED  BY <1>4, <1>5
=============================================================================
