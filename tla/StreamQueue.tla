----------------------------- MODULE StreamQueue -----------------------------
(***************************************************************************)
(* The data structure inside common/PacketStreamQueue: the priority queue  *)
(* of audio packets that both the server (one per client) and the client   *)
(* (one for the server's mix) use to put a lossy, reordering packet stream *)
(* back in order.  Every method is an operator from the queue before to    *)
(* the queue after, so that the module of the queue itself and the module  *)
(* of the server, which owns one queue per client, share one translation.  *)
(*                                                                         *)
(* A packet is its message counter and the counter of the forward error    *)
(* correction block it carries; audio samples and time stamps are left     *)
(* out.  packetQueue is a set: push() never adds a counter that            *)
(* currentlyInQueue holds, and IndexMatchesHeap of PacketStreamQueue shows *)
(* that this keeps two packets with one counter out of the heap.           *)
(***************************************************************************)
EXTENDS Integers, FiniteSets, FiniteSetsExt

\* fecBlock_ is null.  Fill-ins are numbered from 1, so no block counted 0
\* could be used either.
NoFec == 0

Packet == [ctr : Nat, fec : Nat]

Elements == {"real", "healed", "repeated", "silent"}

Queue == [packetQueue : SUBSET Packet, currentlyInQueue : SUBSET Nat,
          lastPopped : Nat, hasPoppedData : BOOLEAN, currentGap : Nat]

EmptyQueue ==
  [packetQueue |-> {}, currentlyInQueue |-> {},
   lastPopped |-> 0, hasPoppedData |-> FALSE, currentGap |-> 0]

Counters(q) == {p.ctr : p \in q.packetQueue}

Size(q) == Cardinality(q.packetQueue)

-----------------------------------------------------------------------------
(* push *)

TooLateOrDuplicate(q, p) == p.ctr <= q.lastPopped

HasBeenPushedBefore(q, p) ==
  TooLateOrDuplicate(q, p) \/ p.ctr \in q.currentlyInQueue

PushPacket(q, p) ==
  IF HasBeenPushedBefore(q, p) THEN q
  ELSE [q EXCEPT !.packetQueue = @ \cup {p},
                 !.currentlyInQueue = @ \cup {p.ctr}]

-----------------------------------------------------------------------------
(* try_pop *)

TopCounter(q) == Min(Counters(q))

Top(q) == CHOOSE p \in q.packetQueue : p.ctr = TopCounter(q)

\* The head of the heap continues the stream, or there is no stream yet.
IsExpected(q) ==
  q.lastPopped + 1 = TopCounter(q) \/ ~q.hasPoppedData

PopReal(q) ==
  [q EXCEPT !.packetQueue = @ \ {Top(q)},
            !.currentlyInQueue = @ \ {TopCounter(q)},
            !.lastPopped = TopCounter(q),
            !.hasPoppedData = TRUE,
            !.currentGap = 0]

\* Mutant: the jump is off by one and passes the packet at the head.
FillInCounterOffByOne(q) ==
  IF q.currentGap < 1 THEN q.lastPopped + 1 ELSE TopCounter(q)

\* One fill-in repeats (or heals) the next number; a second one jumps to the
\* number before the head of the heap.
FillInCounter(q) ==
  IF q.currentGap < 1 THEN q.lastPopped + 1 ELSE TopCounter(q) - 1

FillInKind(q) ==
  CASE q.currentGap >= 1                -> "silent"
    [] q.currentGap < 1 /\ Top(q).fec = FillInCounter(q) -> "healed"
    [] OTHER                            -> "repeated"

PopFillIn(q) ==
  [q EXCEPT !.lastPopped = FillInCounter(q), !.currentGap = @ + 1]

\* The queue after try_pop on a non-empty queue, and what it returned.
AfterPop(q) == IF IsExpected(q) THEN PopReal(q) ELSE PopFillIn(q)

PoppedElement(q) ==
  IF IsExpected(q) THEN [ctr |-> TopCounter(q), kind |-> "real"]
  ELSE [ctr |-> FillInCounter(q), kind |-> FillInKind(q)]

-----------------------------------------------------------------------------
(* fastForwardToSize *)

\* The n newest packets: the loop pops the oldest until n are left.
NewestPackets(S, n) ==
  {p \in S : Cardinality({r \in S : r.ctr > p.ctr}) < n}

Discarded(q, n) == q.packetQueue \ NewestPackets(q.packetQueue, n)

\* Mutants: the rebase keeps the old stream as its context, or starts the
\* numbering over.
FastForwardKeepsContext(q, n) ==
  IF Discarded(q, n) = {} THEN q
  ELSE [q EXCEPT
          !.packetQueue = NewestPackets(q.packetQueue, n),
          !.currentlyInQueue = @ \ {p.ctr : p \in Discarded(q, n)}]

FastForwardRewinds(q, n) ==
  IF Discarded(q, n) = {} THEN q
  ELSE [q EXCEPT
          !.packetQueue = NewestPackets(q.packetQueue, n),
          !.currentlyInQueue = @ \ {p.ctr : p \in Discarded(q, n)},
          !.hasPoppedData = FALSE,
          !.currentGap = 0,
          !.lastPopped = 0]

FastForwardToSize(q, n) ==
  IF Discarded(q, n) = {} THEN q
  ELSE LET kept == NewestPackets(q.packetQueue, n)
           gone == {p.ctr : p \in Discarded(q, n)}
           keptCounters == {p.ctr : p \in kept}
       IN  [q EXCEPT
              !.packetQueue = kept,
              !.currentlyInQueue = @ \ gone,
              !.hasPoppedData = FALSE,
              !.currentGap = 0,
              !.lastPopped = IF kept = {} THEN Max(gone)
                             ELSE IF Min(keptCounters) = 0 THEN 0
                             ELSE Min(keptCounters) - 1]

-----------------------------------------------------------------------------
(* What the methods keep true of the structure, whoever owns the queue *)

IndexIsExact(q) ==
  /\ q.currentlyInQueue = Counters(q)
  /\ \A p, r \in q.packetQueue : p.ctr = r.ctr => p = r

AheadOfPosition(q) == \A c \in Counters(q) : c > q.lastPopped

\* A gap opens only in a running stream, and the second fill-in parks the
\* position directly before the head of the heap.
GapIsClosing(q) ==
  /\ q.currentGap <= 2
  /\ q.currentGap >= 1 => q.hasPoppedData
  /\ q.currentGap >= 2 => q.lastPopped + 1 \in Counters(q)

WellFormed(q) ==
  /\ q \in Queue
  /\ IsFiniteSet(q.packetQueue)
  /\ IndexIsExact(q)
  /\ AheadOfPosition(q)
  /\ GapIsClosing(q)
=============================================================================
