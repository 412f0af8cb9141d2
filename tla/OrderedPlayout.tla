--------------------------- MODULE OrderedPlayout ---------------------------
(***************************************************************************)
(* What a packet stream queue promises its consumer, without saying how:   *)
(* a play position that only moves forward, over numbered packets that are *)
(* waiting ahead of it.  Each packet ahead of the position is played once, *)
(* or skipped together with everything older; a number that was concealed  *)
(* is passed for good; and once the stream is in step a packet is played   *)
(* only as the direct successor of the position.                           *)
(***************************************************************************)
EXTENDS Integers, FiniteSetsExt

VARIABLES
  pending,    \* the numbers of the packets waiting to be played
  position,   \* the number of the last thing the consumer was given
  inStep      \* FALSE until the first packet, and after a skip

vars == <<pending, position, inStep>>

TypeOK ==
  /\ pending \subseteq Nat
  /\ position \in Nat
  /\ inStep \in BOOLEAN

Init == pending = {} /\ position = 0 /\ inStep = FALSE

\* One packet ahead of the position is taken in.
Accept ==
  /\ \E c \in pending' \ pending : c > position /\ pending' = pending \cup {c}
  /\ UNCHANGED <<position, inStep>>

Play ==
  /\ pending # {}
  /\ inStep => Min(pending) = position + 1
  /\ position' = Min(pending)
  /\ pending' = pending \ {Min(pending)}
  /\ inStep' = TRUE

\* The consumer is given a substitute for a number that is not waiting.
Conceal ==
  /\ inStep
  /\ pending # {}
  /\ position' > position /\ position' < Min(pending)
  /\ UNCHANGED <<pending, inStep>>

\* Everything older than some point is dropped to bound the latency.
Skip ==
  /\ pending' # pending /\ pending' \subseteq pending
  /\ \A old \in pending \ pending' : old <= position'
  /\ \A kept \in pending' : kept > position'
  /\ position' >= position
  /\ inStep' = FALSE

Restart == pending' = {} /\ position' = 0 /\ inStep' = FALSE

Next == Accept \/ Play \/ Conceal \/ Skip \/ Restart

Spec == Init /\ [][Next]_vars
=============================================================================
