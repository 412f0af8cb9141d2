---------------------------- MODULE ServerThreads ----------------------------
(***************************************************************************)
(* The server's three threads as they run and as they stop: the            *)
(* AcceptThread feeds the MixerThread through wakeUpQueue_, the            *)
(* MixerThread feeds the SendThread through sendQueue_, both with blocking *)
(* pops, and ~Server asks all three to leave and then waits for each.      *)
(*                                                                         *)
(* What a packet does to the clients and what a pass of the scheduler      *)
(* yields is MixScheduler's subject; here a packet either earns a tick or  *)
(* does not, and a pass yields any number of packages.                     *)
(***************************************************************************)
EXTENDS Integers, Sequences

CONSTANTS
  SendCapacity,   \* the capacity of sendQueue_ (128)
  MaxBatch,       \* bound: packages of one mix, one per client heard
  MaxTicks,       \* bound: wake-ups waiting in wakeUpQueue_
  StopTurns       \* turns of a loop that are over before stopThread's second is (3:
                  \* the longest wait in one is the 250 ms of waitUntilReady)

ASSUME ThreadsAssumption ==
  /\ SendCapacity \in Nat \ {0} /\ MaxBatch \in Nat /\ MaxTicks \in Nat \ {0}
  /\ StopTurns \in Nat \ {0, 1}

VARIABLES
  acceptPc, mixPc, sendPc,  \* where each thread's run() is
  wakeUps,        \* how many wake-ups are in wakeUpQueue_
  sendQueue,    \* sendQueue_
  batch,        \* packages of the present mix not yet handed over
  package,      \* the SendThread's nextBlock
  serverPc,     \* where ~Server is; "running" before it is called
  turns,        \* turns of its loop that the thread it waits for has finished meanwhile
  killedAtWork, \* history: the threads that stopThread has killed outside of a pop
  crashed       \* the process has called exit(-1)

stopVars == <<serverPc, turns, killedAtWork>>
threadsVars == <<acceptPc, mixPc, sendPc, wakeUps, sendQueue, batch, package, stopVars, crashed>>

ThreadsInit ==
  /\ acceptPc = "check" /\ mixPc = "check" /\ sendPc = "check"
  /\ wakeUps = 0 /\ sendQueue = <<>> /\ batch = 0 /\ package = "none"
  /\ serverPc = "running" /\ turns = 0 /\ killedAtWork = {} /\ crashed = FALSE

-----------------------------------------------------------------------------
(* ~Server *)

DestructorSteps ==
  <<"running", "sendSignalled", "mixerSignalled", "allSignalled",
    "acceptStopped", "mixerStopped", "stopped">>

\* Mutant: the threads are asked to leave in the order of the data flow.
SignalledInDataOrder(thread) ==
  \E i \in 1..7 : /\ serverPc = DestructorSteps[i]
                  /\ i > (CASE thread = "accept" -> 1 [] thread = "mixer" -> 2
                            [] thread = "send" -> 3)

\* threadShouldExit(): the threads are signalled in the order send, mixer,
\* accept.
ShouldExit(thread) ==
  \E i \in 1..7 : /\ serverPc = DestructorSteps[i]
                  /\ i > (CASE thread = "send" -> 1 [] thread = "mixer" -> 2
                            [] thread = "accept" -> 3)

\* The three calls of signalThreadShouldExit, one after the other.
Signal ==
  \E i \in 1..3 : /\ serverPc = DestructorSteps[i]
                  /\ serverPc' = DestructorSteps[i + 1]
                  /\ UNCHANGED <<acceptPc, mixPc, sendPc, wakeUps, sendQueue, batch,
                                 package, turns, killedAtWork, crashed>>

\* stopThread(1000) returns when the thread has left its run(); after a second it
\* kills the thread, wherever it is.  A thread that is asleep in a pop which nobody
\* will answer is still there then, and so may be one that goes on turning.
StopThread(thread, pc, asleep, next) ==
  /\ pc = "exited" \/ asleep \/ turns = StopTurns
  /\ killedAtWork' = IF pc = "exited" \/ asleep THEN killedAtWork
                     ELSE killedAtWork \cup {thread}
  /\ serverPc' = next /\ turns' = 0

Ended(pc) == IF pc = "exited" THEN "exited" ELSE "killed"

\* The thread that ~Server waits for in this place has finished a turn of its loop.
TurnEnds(place) ==
  /\ turns' = IF serverPc = place /\ turns < StopTurns THEN turns + 1 ELSE turns
  /\ UNCHANGED <<serverPc, killedAtWork>>

\* The AcceptThread waits in no pop.
JoinAccept ==
  /\ serverPc = "allSignalled" /\ StopThread("accept", acceptPc, FALSE, "acceptStopped")
  /\ acceptPc' = Ended(acceptPc)
  /\ UNCHANGED <<mixPc, sendPc, wakeUps, sendQueue, batch, package, crashed>>

JoinMixer ==
  /\ serverPc = "acceptStopped"
  /\ StopThread("mixer", mixPc, mixPc = "pop" /\ wakeUps = 0, "mixerStopped")
  /\ mixPc' = Ended(mixPc)
  /\ UNCHANGED <<acceptPc, sendPc, wakeUps, sendQueue, batch, package, crashed>>

JoinSend ==
  /\ serverPc = "mixerStopped"
  /\ StopThread("send", sendPc, sendPc = "pop" /\ sendQueue = <<>>, "stopped")
  /\ sendPc' = Ended(sendPc)
  /\ UNCHANGED <<acceptPc, mixPc, wakeUps, sendQueue, batch, package, crashed>>

Destructor == Signal \/ JoinAccept \/ JoinMixer \/ JoinSend

-----------------------------------------------------------------------------
(* AcceptThread::run *)

\* Mutant: the loop condition is dropped.
AcceptNeverChecks ==
  /\ acceptPc = "check" /\ acceptPc' = "wait"
  /\ UNCHANGED <<mixPc, sendPc, wakeUps, sendQueue, batch, package, stopVars, crashed>>

AcceptChecks ==
  /\ acceptPc = "check"
  /\ acceptPc' = IF ShouldExit("accept") THEN "exited" ELSE "wait"
  /\ UNCHANGED <<mixPc, sendPc, wakeUps, sendQueue, batch, package, stopVars, crashed>>

\* A time-out, or an audio packet that its client's queue took.
AcceptTicks ==
  /\ acceptPc = "wait" /\ wakeUps < MaxTicks
  /\ wakeUps' = wakeUps + 1 /\ acceptPc' = "check" /\ TurnEnds("allSignalled")
  /\ UNCHANGED <<mixPc, sendPc, sendQueue, batch, package, crashed>>

\* A packet without a tick: late or repeated audio, a control message, an empty
\* or undecipherable datagram.
AcceptIgnores ==
  /\ acceptPc = "wait" /\ acceptPc' = "check" /\ TurnEnds("allSignalled")
  /\ UNCHANGED <<mixPc, sendPc, wakeUps, sendQueue, batch, package, crashed>>

\* The socket reports an error, and the process exits.
SocketFails ==
  /\ acceptPc = "wait" /\ crashed' = TRUE
  /\ UNCHANGED <<acceptPc, mixPc, sendPc, wakeUps, sendQueue, batch, package, stopVars>>

AcceptRuns == AcceptChecks \/ AcceptTicks \/ AcceptIgnores \/ SocketFails

-----------------------------------------------------------------------------
(* MixerThread::run *)

MixerChecks ==
  /\ mixPc = "check"
  /\ mixPc' = IF ShouldExit("mixer") THEN "leave" ELSE "pop"
  /\ UNCHANGED <<acceptPc, sendPc, wakeUps, sendQueue, batch, package, stopVars, crashed>>

MixerPops ==
  /\ mixPc = "pop" /\ wakeUps > 0
  /\ wakeUps' = wakeUps - 1 /\ mixPc' = "process"
  /\ UNCHANGED <<acceptPc, sendPc, sendQueue, batch, package, stopVars, crashed>>

\* A pass of the scheduler; a fill-in makes it wake itself.
MixerProcesses ==
  /\ mixPc = "process"
  /\ \E size \in 0..MaxBatch : batch' = size
  /\ \/ wakeUps' = wakeUps
     \/ batch' > 0 /\ wakeUps < MaxTicks /\ wakeUps' = wakeUps + 1
  /\ mixPc' = "handOver"
  /\ UNCHANGED <<acceptPc, sendPc, sendQueue, package, stopVars, crashed>>

\* try_push of the next package; a full queue is fatal.
MixerHandsOver ==
  /\ mixPc = "handOver" /\ batch > 0
  /\ IF Len(sendQueue) < SendCapacity
     THEN /\ sendQueue' = Append(sendQueue, "audio")
          /\ batch' = batch - 1 /\ UNCHANGED crashed
     ELSE crashed' = TRUE /\ UNCHANGED <<sendQueue, batch>>
  /\ UNCHANGED <<acceptPc, mixPc, sendPc, wakeUps, package, stopVars>>

MixerLoops ==
  /\ mixPc = "handOver" /\ batch = 0
  /\ mixPc' = "check" /\ TurnEnds("acceptStopped")
  /\ UNCHANGED <<acceptPc, sendPc, wakeUps, sendQueue, batch, package, crashed>>

\* Mutant: no package to realize that it should stop.
MixerLeavesSilently ==
  /\ mixPc = "leave" /\ mixPc' = "exited"
  /\ UNCHANGED <<acceptPc, sendPc, wakeUps, sendQueue, batch, package, stopVars, crashed>>

\* The last try_push may fail; nobody looks.
MixerLeaves ==
  /\ mixPc = "leave" /\ mixPc' = "exited"
  /\ sendQueue' = IF Len(sendQueue) < SendCapacity
                  THEN Append(sendQueue, "stop") ELSE sendQueue
  /\ UNCHANGED <<acceptPc, sendPc, wakeUps, batch, package, stopVars, crashed>>

MixerRuns ==
  \/ MixerChecks \/ MixerPops \/ MixerProcesses
  \/ MixerHandsOver \/ MixerLoops \/ MixerLeaves

-----------------------------------------------------------------------------
(* SendThread::run *)

SendChecks ==
  /\ sendPc = "check"
  /\ sendPc' = IF ShouldExit("send") THEN "exited" ELSE "pop"
  /\ UNCHANGED <<acceptPc, mixPc, wakeUps, sendQueue, batch, package, stopVars, crashed>>

SendPops ==
  /\ sendPc = "pop" /\ sendQueue # <<>>
  /\ package' = Head(sendQueue) /\ sendQueue' = Tail(sendQueue)
  /\ sendPc' = "recheck"
  /\ UNCHANGED <<acceptPc, mixPc, wakeUps, batch, stopVars, crashed>>

SendRechecks ==
  /\ sendPc = "recheck"
  /\ sendPc' = IF ShouldExit("send") THEN "exited" ELSE "send"
  /\ UNCHANGED <<acceptPc, mixPc, wakeUps, sendQueue, batch, package, stopVars, crashed>>

\* Serialising and writing the package to the socket.
Sends ==
  /\ sendPc = "send" /\ sendPc' = "check" /\ package' = "none" /\ TurnEnds("mixerStopped")
  /\ UNCHANGED <<acceptPc, mixPc, wakeUps, sendQueue, batch, crashed>>

\* A datagram that cannot be encrypted ends the process.
EncryptionFails ==
  /\ sendPc = "send" /\ crashed' = TRUE
  /\ UNCHANGED <<acceptPc, mixPc, sendPc, wakeUps, sendQueue, batch, package, stopVars>>

SendRuns == SendChecks \/ SendPops \/ SendRechecks \/ Sends \/ EncryptionFails

-----------------------------------------------------------------------------
\* The process is gone, or all that ~Server does is done.
Over == crashed \/ serverPc = "stopped"

ThreadsNext ==
  \/ ~crashed /\ (Destructor \/ AcceptRuns \/ MixerRuns \/ SendRuns)
  \/ Over /\ UNCHANGED threadsVars

ThreadsSpec == ThreadsInit /\ [][ThreadsNext]_threadsVars

\* Every thread that can take a step takes one: no step but the blocking pops
\* waits for another thread.  The key press that starts ~Server need not come.
ThreadsFairSpec ==
  /\ ThreadsSpec
  /\ WF_threadsVars(~crashed /\ AcceptRuns) /\ WF_threadsVars(~crashed /\ MixerRuns)
  /\ WF_threadsVars(~crashed /\ SendRuns)
  /\ WF_threadsVars(~crashed /\ serverPc # "running" /\ Destructor)

-----------------------------------------------------------------------------
ThreadsTypeOK ==
  /\ acceptPc \in {"check", "wait", "exited", "killed"}
  /\ mixPc \in {"check", "pop", "process", "handOver", "leave", "exited", "killed"}
  /\ sendPc \in {"check", "pop", "recheck", "send", "exited", "killed"}
  /\ wakeUps \in 0..MaxTicks
  /\ sendQueue \in Seq({"audio", "stop"}) /\ Len(sendQueue) <= SendCapacity
  /\ batch \in 0..MaxBatch
  /\ package \in {"none", "audio", "stop"}
  /\ \E i \in 1..7 : serverPc = DestructorSteps[i]
  /\ turns \in 0..StopTurns /\ killedAtWork \subseteq {"accept", "mixer", "send"}
  /\ crashed \in BOOLEAN

\* The empty OutgoingPackage that ends the SendThread carries no audio block;
\* it is never serialised.  That rests on the order in which ~Server signals:
\* the SendThread's flag is up before the mixer can leave.
StopPackageNeverSent == sendPc = "send" => package = "audio"

\* "Give the send thread one package to realize it should stop too": if the
\* MixerThread left its loop the SendThread leaves as well and is not killed,
\* even when the last try_push failed because the queue was full.
SendFollowsMixer == mixPc = "exited" => sendPc # "killed"

\* stopThread kills no thread in its work, where it may hold the lock of the socket or
\* of a client's stream and the threads that are stopped after it would wait for that
\* lock: a thread that is not asleep in a pop notices its flag before its second is
\* over, whatever arrives meanwhile and however much is queued.
KilledOnlyAsleep == killedAtWork = {}

\* "just check if we should terminate, also wake up the MixerThread so it can do
\* the same": once ~Server has signalled, the MixerThread leaves its loop.
MixerStopsItself == serverPc = "allSignalled" ~> mixPc = "exited" \/ crashed
=============================================================================
