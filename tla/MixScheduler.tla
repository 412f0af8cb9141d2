----------------------------- MODULE MixScheduler -----------------------------
(***************************************************************************)
(* The server's audio path between the receiving socket and the mix: the   *)
(* AcceptThread puts each packet into its client's queue and wakes the     *)
(* MixerThread through wakeUpQueue_; the MixerThread runs                  *)
(* ServerMixScheduler::process once per wake-up.  Both work on the         *)
(* ClientStates at the same time, one locked call at a time, so process is *)
(* one step per call and the AcceptThread may step in between.             *)
(*                                                                         *)
(* Network: any counter a client has ever sent may arrive at any time, any *)
(* number of times or never, which is loss, duplication, reordering, delay *)
(* and a client that starts over behind the same address, all at once.     *)
(***************************************************************************)
EXTENDS ClientState

CONSTANTS
  NumClients,     \* how many client addresses there are
  FirstCounter,   \* Client::messageCounter_ starts here
  MaxCounter,     \* bound: the largest counter sent
  MaxArrivals,    \* bound: how many audio packets arrive
  MaxTicks,       \* bound: a time-out is let through below this many ticks
  MaxTime,        \* bound: the clock stops here
  Jitter,         \* serverIncomingJitterBuffer
  Maximum         \* serverIncomingMaximumBuffer

ASSUME SchedulerAssumption ==
  /\ NumClients \in Nat \ {0}
  /\ FirstCounter \in Nat \ {0} /\ MaxCounter \in Nat
  /\ MaxCounter < CounterModulus
  /\ MaxArrivals \in Nat /\ MaxTicks \in Nat /\ MaxTime \in Nat
  /\ Jitter \in Nat /\ Maximum \in Nat

\* The addresses, in the order in which an iteration over incomingData_ meets
\* them.
Clients == 1..NumClients

VARIABLES
  client,       \* incomingData_: a ClientState per address
  acceptPc,     \* the AcceptThread waits for data, or is about to wake the mixer
  ticks,        \* how many wake-ups are in wakeUpQueue_
  clock,        \* steady_clock
  arrivals,     \* how many audio packets have arrived
  mixPc,        \* where the MixerThread is
  cursor,       \* the client its present loop is at
  now,          \* process: the parameter now
  counted,      \* process: the clients counted in clientCount
  ready,        \* process: the clients counted in available
  trigger,      \* process: result.trigger
  incoming,     \* process: result.incoming, a counter per client
  observed,     \* process: observedActivity, a generation per client
  wakeAgain,    \* process: result.shouldWakeAgain
  steady        \* history: no time-out and no fast-forward so far

clientVars == <<client, arrivals, clock, steady>>
localVars == <<cursor, now, counted, ready, trigger, incoming, observed, wakeAgain>>
vars == <<clientVars, acceptPc, ticks, mixPc, localVars>>

NoPacket == 0
NoObservation == -1

Init ==
  /\ client = [c \in Clients |-> NewClient]
  /\ acceptPc = "wait" /\ ticks = 0
  /\ clock = 0 /\ arrivals = 0 /\ steady = TRUE
  /\ mixPc = "wait" /\ cursor = 1 /\ now = 0
  /\ counted = {} /\ ready = {} /\ trigger = "None"
  /\ incoming = [c \in Clients |-> NoPacket]
  /\ observed = [c \in Clients |-> NoObservation]
  /\ wakeAgain = FALSE

-----------------------------------------------------------------------------
(* AcceptThread *)

\* Mutant: every audio packet wakes the mixer.
AcceptAudioAlwaysTicks(c, ctr) ==
  /\ acceptPc = "wait" /\ arrivals < MaxArrivals
  /\ arrivals' = arrivals + 1
  /\ client' = [client EXCEPT ![c] = PushToClient(@, ctr)]
  /\ acceptPc' = "notify"
  /\ UNCHANGED <<ticks, clock, steady, mixPc, localVars>>

\* Mutant: a packet that was taken does not wake the mixer.
AcceptAudioNeverTicks(c, ctr) ==
  /\ acceptPc = "wait" /\ arrivals < MaxArrivals
  /\ arrivals' = arrivals + 1
  /\ client' = [client EXCEPT ![c] = PushToClient(@, ctr)]
  /\ UNCHANGED <<acceptPc, ticks, clock, steady, mixPc, localVars>>

\* processAudioMessage up to the end of ClientState::push.
AcceptAudio(c, ctr) ==
  /\ acceptPc = "wait" /\ arrivals < MaxArrivals
  /\ arrivals' = arrivals + 1
  /\ client' = [client EXCEPT ![c] = PushToClient(@, ctr)]
  /\ acceptPc' = IF IsQueued(client[c], ctr) THEN "notify" ELSE "wait"
  /\ UNCHANGED <<ticks, clock, steady, mixPc, localVars>>

\* processAudioMessage gives the mixer a tick for a packet that was queued.
WakeMixer ==
  /\ acceptPc = "notify"
  /\ acceptPc' = "wait" /\ ticks' = ticks + 1
  /\ UNCHANGED <<clientVars, mixPc, localVars>>

\* Mutant: a time-out does not wake the mixer.
AcceptTimeoutSilent ==
  /\ acceptPc = "wait" /\ ticks < MaxTicks
  /\ steady' = FALSE
  /\ UNCHANGED <<client, arrivals, clock, acceptPc, ticks, mixPc, localVars>>

\* Nothing arrived for 250 ms.
AcceptTimeout ==
  /\ acceptPc = "wait" /\ ticks < MaxTicks
  /\ ticks' = ticks + 1 /\ steady' = FALSE
  /\ UNCHANGED <<client, arrivals, clock, acceptPc, mixPc, localVars>>

AdvanceClock ==
  /\ clock < MaxTime
  /\ clock' = clock + 1
  /\ UNCHANGED <<client, arrivals, steady, acceptPc, ticks, mixPc, localVars>>

-----------------------------------------------------------------------------
(* MixerThread::run and ServerMixScheduler::process *)

\* The blocking pop of wakeUpQueue_ returns and process starts.
MixerWakes ==
  /\ mixPc = "wait" /\ ticks > 0
  /\ ticks' = ticks - 1
  /\ mixPc' = "expire" /\ cursor' = 1 /\ now' = clock
  /\ counted' = {} /\ ready' = {} /\ trigger' = "None"
  /\ incoming' = [c \in Clients |-> NoPacket]
  /\ observed' = [c \in Clients |-> NoObservation]
  /\ wakeAgain' = FALSE
  /\ UNCHANGED <<clientVars, acceptPc>>

\* First loop: end an expired grace period ...
ExpireClient ==
  /\ mixPc = "expire" /\ cursor \in Clients
  /\ client' = [client EXCEPT ![cursor] = DisconnectIfGraceExpired(@, now)]
  /\ mixPc' = "pressure"
  /\ UNCHANGED <<arrivals, clock, steady, acceptPc, ticks, localVars>>

TargetQueueDepth == IF Maximum < Jitter THEN Maximum ELSE Jitter

\* Mutant: a queue of exactly the jitter length is ready.
IsReadyAtJitter(cs) == QueueLength(cs) >= Jitter

IsReady(cs) == QueueLength(cs) > Jitter

\* ... and bound the queue, counting the client and whether it is ready.
PressureClient ==
  /\ mixPc = "pressure"
  /\ LET after == ApplyQueuePressure(client[cursor], Maximum, TargetQueueDepth)
     IN  /\ client' = [client EXCEPT ![cursor] = after]
         /\ steady' = (steady /\ after = client[cursor])
         /\ counted' = IF after.state = "Disconnected" THEN counted
                       ELSE counted \cup {cursor}
         /\ ready' = IF after.state # "Disconnected" /\ IsReady(after)
                     THEN ready \cup {cursor} ELSE ready
  /\ mixPc' = "expire" /\ cursor' = cursor + 1
  /\ UNCHANGED <<arrivals, clock, acceptPc, ticks,
                 now, trigger, incoming, observed, wakeAgain>>

\* Mutant: one ready client is enough.
OneClientReady == ready # {}

AllClientsReady == counted # {} /\ Cardinality(counted) = Cardinality(ready)

\* Several clients, and not all of them are ready: nothing is mixed.
NotReady ==
  /\ mixPc = "expire" /\ cursor = NumClients + 1
  /\ ~AllClientsReady /\ Cardinality(counted) > 1
  /\ mixPc' = "wait"
  /\ UNCHANGED <<clientVars, acceptPc, ticks, localVars>>

StartMix ==
  /\ mixPc = "expire" /\ cursor = NumClients + 1
  /\ AllClientsReady \/ Cardinality(counted) <= 1
  /\ trigger' = IF Cardinality(counted) = 1 THEN "SingleClient"
                ELSE IF AllClientsReady THEN "AllClientsReady" ELSE "None"
  /\ mixPc' = "pop" /\ cursor' = 1
  /\ UNCHANGED <<clientVars, acceptPc, ticks,
                 now, counted, ready, incoming, observed, wakeAgain>>

\* Second loop: the client contributes a packet or a fill-in ...
PopClient ==
  /\ mixPc = "pop" /\ cursor \in Clients /\ TryPopSucceeds(client[cursor])
  /\ client' = [client EXCEPT ![cursor] = AfterTryPop(@)]
  /\ LET popped == PoppedElement(client[cursor].queue)
     IN  /\ incoming' = [incoming EXCEPT ![cursor] = popped.ctr]
         /\ wakeAgain' = (wakeAgain \/ popped.kind # "real")
  /\ cursor' = cursor + 1
  /\ UNCHANGED <<arrivals, clock, steady, acceptPc, ticks, mixPc,
                 now, counted, ready, trigger, observed>>

\* ... or it has nothing, and what tryPop observed is remembered
PopFails ==
  /\ mixPc = "pop" /\ cursor \in Clients /\ ~TryPopSucceeds(client[cursor])
  /\ observed' = [observed EXCEPT ![cursor] = client[cursor].activityGeneration]
  /\ mixPc' = "peek"
  /\ UNCHANGED <<clientVars, acceptPc, ticks,
                 cursor, now, counted, ready, trigger, incoming, wakeAgain>>

\* unless a snapshot taken afterwards finds it disconnected.
PeekClient ==
  /\ mixPc = "peek"
  /\ observed' = IF client[cursor].state = "Disconnected"
                 THEN [observed EXCEPT ![cursor] = NoObservation] ELSE observed
  /\ mixPc' = "pop" /\ cursor' = cursor + 1
  /\ UNCHANGED <<clientVars, acceptPc, ticks,
                 now, counted, ready, trigger, incoming, wakeAgain>>

AllPopped ==
  /\ mixPc = "pop" /\ cursor = NumClients + 1
  /\ mixPc' = "mark" /\ cursor' = 1
  /\ UNCHANGED <<clientVars, acceptPc, ticks,
                 now, counted, ready, trigger, incoming, observed, wakeAgain>>

\* Third loop: a client that had nothing starts its grace period.
MarkClient ==
  /\ mixPc = "mark" /\ cursor \in Clients
  /\ client' = IF observed[cursor] = NoObservation THEN client
               ELSE [client EXCEPT ![cursor] = MarkUnderrun(@, observed[cursor], now)]
  /\ cursor' = cursor + 1
  /\ UNCHANGED <<arrivals, clock, steady, acceptPc, ticks, mixPc,
                 now, counted, ready, trigger, incoming, observed, wakeAgain>>

\* process returns the mix of incoming; run wakes itself after a fill-in.
FinishMix ==
  /\ mixPc = "mark" /\ cursor = NumClients + 1
  /\ ticks' = IF wakeAgain THEN ticks + 1 ELSE ticks
  /\ mixPc' = "wait"
  /\ UNCHANGED <<clientVars, acceptPc, localVars>>

Mixer ==
  \/ MixerWakes
  \/ ExpireClient \/ PressureClient \/ NotReady \/ StartMix
  \/ PopClient \/ PopFails \/ PeekClient \/ AllPopped
  \/ MarkClient \/ FinishMix

Next ==
  \/ \E c \in Clients, ctr \in FirstCounter..MaxCounter : AcceptAudio(c, ctr)
  \/ WakeMixer \/ AcceptTimeout \/ AdvanceClock
  \/ Mixer

Spec == Init /\ [][Next]_vars

\* The threads run, the AcceptThread times out while nothing arrives, and time
\* passes.  That packets arrive is not assumed.
Fairness ==
  WF_vars(Mixer) /\ WF_vars(WakeMixer) /\ WF_vars(AcceptTimeout) /\ WF_vars(AdvanceClock)

FairSpec == Spec /\ Fairness

-----------------------------------------------------------------------------
(* Invariants *)

TypeOK ==
  /\ client \in [Clients -> Client]
  /\ acceptPc \in {"wait", "notify"}
  /\ ticks \in Nat /\ clock \in Nat /\ arrivals \in 0..MaxArrivals
  /\ steady \in BOOLEAN
  /\ mixPc \in {"wait", "expire", "pressure", "pop", "peek", "mark"}
  /\ cursor \in 1..(NumClients + 1) /\ now \in Nat
  /\ mixPc \in {"pressure", "peek"} => cursor \in Clients
  /\ counted \subseteq Clients /\ ready \subseteq counted
  /\ trigger \in {"None", "SingleClient", "AllClientsReady"}
  /\ incoming \in [Clients -> Nat]
  /\ observed \in [Clients -> Nat \cup {NoObservation}]
  /\ wakeAgain \in BOOLEAN

\* A client is in its grace period only while it has nothing queued, although
\* the decision is taken on what an earlier call observed and packets arrive
\* in between.  So the end of the grace period, which destroys the queue,
\* never destroys audio.
UnderrunIsReal ==
  \A c \in Clients : client[c].state = "Disconnecting" => client[c].queue.packetQueue = {}

\* A client that comes back after its grace period is heard at once, whatever
\* counter it starts from: nothing of the old connection's position is left.
ReconnectIsHeard ==
  \A c \in Clients, ctr \in FirstCounter..MaxCounter :
    client[c].state = "Disconnected" => IsQueued(client[c], ctr)

\* The all-stream readiness barrier admits no partial mix: when several
\* clients were found ready, each of them contributes and none is marked as
\* having run dry, whatever arrives between the two loops.
MixIsComplete ==
  trigger = "AllClientsReady" /\ mixPc = "mark" =>
    \A c \in counted : incoming[c] # NoPacket /\ observed[c] = NoObservation

\* Nor does such a mix eat into the jitter reserve of any stream.
JitterReserveKept ==
  trigger = "AllClientsReady" /\ mixPc \in {"pop", "peek", "mark"} =>
    \A c \in counted : QueueLength(client[c]) >= Jitter

\* No lost wake-up: while a queue is longer than serverIncomingMaximumBuffer
\* the mixer is bound to look at it, so that once the mixer blocks for want of
\* ticks every client's latency is within its limit.
LatencyBounded ==
  \A c \in Clients :
    QueueLength(client[c]) > Maximum =>
      \/ ticks > 0 \/ acceptPc = "notify"
      \/ mixPc = "expire" /\ cursor <= c
      \/ mixPc = "pressure" /\ cursor <= c

\* "Only if this was not a duplicate package do give the mixer thread a tick,
\* else duplicates will cause queue drain": without time-outs and without
\* fast-forwards the padding of the first connection lasts, whatever is lost,
\* repeated or overtaken.
PrefillLasts ==
  steady => \A c \in Clients :
    client[c].state # "Disconnected" => QueueLength(client[c]) >= Prefill

-----------------------------------------------------------------------------
(* Liveness *)

\* With one client nothing waits in its queue forever, even if it falls silent.
LoneClientIsMixed ==
  NumClients = 1 =>
    \A ctr \in 1..MaxCounter :
      ctr \in Counters(client[1].queue) ~> ctr \notin Counters(client[1].queue)

\* A grace period ends, in recovery or in disconnection, if its end lies within
\* the modelled time; no traffic is needed for that.
GracePeriodEnds ==
  \A c \in Clients :
    client[c].state = "Disconnecting" /\ client[c].disconnectDeadline <= MaxTime
      ~> client[c].state # "Disconnecting"

\* "Specify the maximum length of the incoming buffer in blocks before
\* continuing mixing": a queue of maximum length is followed by a mix.
MixingContinuesAtMaximum ==
  \A c \in Clients : QueueLength(client[c]) >= Maximum ~> mixPc = "mark"
=============================================================================
