------------------------- MODULE RingOfAudioBuffers -------------------------
(***************************************************************************)
(* The ring that keeps the blocks sent last for forward error correction.  *)
(* Indices count from 0 as in the code; one place always stays free, so a  *)
(* ring of capacity n holds n - 1 blocks.                                  *)
(***************************************************************************)
EXTENDS Naturals, FiniteSets

EmptyRing(capacity) ==
  [data |-> [i \in 0..capacity - 1 |-> "null"], endIndex |-> 0, headIndex |-> 0]

RingCapacity(ring) == Cardinality(DOMAIN ring.data)

incIndex(ring, index) == (index + 1) % RingCapacity(ring)

isEmpty(ring) == ring.endIndex = ring.headIndex

push(ring, audioBuffer) ==
  LET end == incIndex(ring, ring.endIndex)
  IN  [data      |-> [ring.data EXCEPT ![ring.endIndex] = audioBuffer],
       endIndex  |-> end,
       headIndex |-> IF end = ring.headIndex THEN incIndex(ring, ring.headIndex)
                     ELSE ring.headIndex]

\* Of a ring that is not empty.
getLast(ring) ==
  ring.data[IF ring.endIndex = 0 THEN RingCapacity(ring) - 1 ELSE ring.endIndex - 1]
=============================================================================
