------------------------- MODULE MCPacketStreamQueue -------------------------
(***************************************************************************)
(* Small instances for TLC of the queue of one stream: on its own, with    *)
(* everything its owners may call, and as the server's scheduler uses it   *)
(* for a lone client.  One of the two moves, the one that focus names.     *)
(***************************************************************************)
EXTENDS PacketStreamQueue

VARIABLE focus

MCRetainedSizes == {0, 1, 2}
MCFecDistances == {0, 1, 2}

\* The variables of MixScheduler, with one client.
VARIABLES
  client, acceptPc, ticks, clock, received, mixPc, cursor, now,
  counted, ready, trigger, incoming, observed, wakeAgain, steady

Lone == INSTANCE MixScheduler WITH
  arrivals <- received,
  NumClients <- 1, FirstCounter <- 2, MaxCounter <- 5, MaxArrivals <- 4, MaxTicks <- 1,
  MaxTime <- 2, Jitter <- 1, Maximum <- 2, Prefill <- 1, Grace <- 1, CounterModulus <- 64

loneVars == <<client, acceptPc, ticks, clock, received, mixPc, cursor, now,
              counted, ready, trigger, incoming, observed, wakeAgain, steady>>

MCInit == focus \in {"queue", "scheduler"} /\ Init /\ Lone!Init

MCNext ==
  /\ UNCHANGED focus
  /\ \/ focus = "queue" /\ Next /\ UNCHANGED loneVars
     \/ focus = "scheduler" /\ Lone!Next /\ UNCHANGED vars

\* The consumer calls every audio block.  On the server the threads run, the
\* AcceptThread times out while nothing arrives, and time passes.
MCFairness ==
  /\ WF_vars(focus = "queue" /\ TryPop)
  /\ WF_loneVars(focus = "scheduler" /\ Lone!Mixer)
  /\ WF_loneVars(focus = "scheduler" /\ Lone!WakeMixer)
  /\ WF_loneVars(focus = "scheduler" /\ Lone!AcceptTimeout)
  /\ WF_loneVars(focus = "scheduler" /\ Lone!AdvanceClock)

MCSpec == MCInit /\ [][MCNext]_<<focus, vars, loneVars>> /\ MCFairness

\* The time-outs of the AcceptThread keep the mixer going when a lone client falls
\* silent: nothing it queued waits forever.
LoneClientIsMixed == Lone!LoneClientIsMixed

\* A grace period ends, in recovery or in disconnection, without any traffic.
GracePeriodEnds == Lone!GracePeriodEnds
=============================================================================
