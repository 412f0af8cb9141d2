--------------------------- MODULE PathMtuDiscovery ---------------------------
(***************************************************************************)
(* Client/Source/PathMtuDiscovery and its use by Client: the client probes *)
(* how large a datagram still reaches the server unfragmented.  It grows   *)
(* the probe from target to target until one goes unanswered and then      *)
(* searches between the largest size that was answered and the smallest    *)
(* that was not.                                                           *)
(*                                                                         *)
(* The transmit worker polls and sends (maybeSendMtuProbe), the receive    *)
(* thread delivers acknowledgements and what the server says it supports;  *)
(* both hold mtuDiscoveryLock_ for a call, and sending is outside of it.   *)
(* Only whether deadline_ and earliestNextProbe_ have passed is looked at, *)
(* so time is two flags that go up on their own.                           *)
(***************************************************************************)
EXTENDS Integers, FiniteSets, FiniteSetsExt

CONSTANTS
  fallbackPayloadBytes, \* 1200
  growthTargets,        \* 1200, 1472, 2048, 4096, 8192, 16384
  maximumAttempts,      \* 3
  PathLimits,           \* the largest datagrams a path may let through
  MaxSearches           \* bound: how often a search is started

probeAlignmentBytes == 8

ASSUME MtuAssumption ==
  /\ growthTargets \subseteq Nat \ {0} /\ IsFiniteSet(growthTargets)
  /\ \A target \in growthTargets : target % probeAlignmentBytes = 0
  /\ fallbackPayloadBytes \in growthTargets
  /\ maximumAttempts \in Nat \ {0}
  /\ PathLimits \subseteq Nat
  /\ MaxSearches \in Nat

VARIABLES
  mtu,          \* the members of PathMtuDiscovery
  probeToSend,  \* what maybeSendMtuProbe has polled and not sent yet
  delivered,    \* probes that reached the server, which acknowledges each
  pathLimit,    \* what the path to the server lets through
  searches,     \* history: how many searches were started
  misjudged     \* history: a size that fits was given up for lost probes

vars == <<mtu, probeToSend, delivered, pathLimit, searches, misjudged>>

\* A probe carries, for the properties only, the search it belongs to.
NoProbe == [id |-> 0, payloadBytes |-> 0, search |-> 0]

Init ==
  /\ mtu = [status |-> "Unavailable", safe |-> 0,
            candidate |-> fallbackPayloadBytes, upperBound |-> 0,
            nextProbeId |-> 1, activeProbe |-> NoProbe, attempts |-> 0,
            awaiting |-> FALSE, deadlinePassed |-> TRUE, pauseOver |-> TRUE]
  /\ probeToSend = NoProbe
  /\ delivered = {}
  /\ pathLimit \in PathLimits
  /\ searches = 0
  /\ misjudged = FALSE

-----------------------------------------------------------------------------
(* Where the search goes next *)

SelectNextGrowthTarget(m) ==
  LET larger == {target \in growthTargets : target > m.safe}
  IN  IF larger = {} THEN [m EXCEPT !.status = "Complete"]
      ELSE [m EXCEPT !.candidate = Min(larger)]

AlignedHalfSpan(m) ==
  (((m.upperBound - m.safe) \div 2) \div probeAlignmentBytes) * probeAlignmentBytes

SelectBinarySearchTarget(m) ==
  IF m.upperBound < m.safe + probeAlignmentBytes
  THEN [m EXCEPT !.status = "Complete"]
  ELSE [m EXCEPT !.candidate =
          m.safe + IF AlignedHalfSpan(m) <= 0 THEN probeAlignmentBytes
                   ELSE AlignedHalfSpan(m)]

RecordSuccess(m) ==
  LET proven == [m EXCEPT !.safe = m.candidate]
  IN  IF m.upperBound > 0 THEN SelectBinarySearchTarget(proven)
      ELSE SelectNextGrowthTarget(proven)

\* Mutant: the bound is one step lower than what the failure shows.
RecordFailureTooLow(m) ==
  IF m.safe = 0 THEN [m EXCEPT !.status = "Failed"]
  ELSE SelectBinarySearchTarget(
         [m EXCEPT !.upperBound = m.candidate - 2 * probeAlignmentBytes])

RecordFailure(m) ==
  IF m.safe = 0 THEN [m EXCEPT !.status = "Failed"]
  ELSE SelectBinarySearchTarget(
         [m EXCEPT !.upperBound = m.candidate - probeAlignmentBytes])

-----------------------------------------------------------------------------
(* poll, called by the transmit worker after every audio packet *)

\* Mutant: a repetition is not counted.
AttemptUncounted(m) ==
  [m EXCEPT !.deadlinePassed = FALSE]

\* The end of poll: one more attempt with the active probe.
Attempt(m) ==
  [m EXCEPT !.attempts = @ + 1, !.deadlinePassed = FALSE]

NewProbe(m) ==
  Attempt([m EXCEPT
    !.activeProbe = [id |-> m.nextProbeId, payloadBytes |-> m.candidate, search |-> searches],
    !.nextProbeId = @ + 1, !.attempts = 0, !.awaiting = TRUE])

\* What a poll does that does not return early.
Send(m) ==
  /\ mtu' = m
  /\ probeToSend' = m.activeProbe

CanPoll == probeToSend = NoProbe /\ mtu.status = "Searching"

StartProbe ==
  /\ CanPoll /\ ~mtu.awaiting /\ mtu.pauseOver
  /\ Send(NewProbe(mtu))
  /\ UNCHANGED <<delivered, pathLimit, searches, misjudged>>

RepeatProbe ==
  /\ CanPoll /\ mtu.awaiting /\ mtu.deadlinePassed
  /\ mtu.attempts < maximumAttempts
  /\ Send(Attempt(mtu))
  /\ UNCHANGED <<delivered, pathLimit, searches, misjudged>>

\* The attempts are used up: the size is given up and, if the search goes on,
\* the same poll starts with the next one.
GiveUp ==
  /\ CanPoll /\ mtu.awaiting /\ mtu.deadlinePassed
  /\ mtu.attempts >= maximumAttempts
  /\ LET failed == RecordFailure([mtu EXCEPT !.awaiting = FALSE])
     IN  IF failed.status = "Searching" /\ failed.pauseOver
         THEN Send(NewProbe(failed))
         ELSE mtu' = failed /\ UNCHANGED probeToSend
  /\ misjudged' = (misjudged \/ mtu.candidate <= pathLimit)
  /\ UNCHANGED <<delivered, pathLimit, searches>>

\* sendMtuProbe: the datagram may be too large for the path, or be lost.
SendProbe ==
  /\ probeToSend # NoProbe
  /\ \/ delivered' = delivered
     \/ /\ probeToSend.payloadBytes <= pathLimit
        /\ delivered' = delivered \cup {probeToSend}
  /\ probeToSend' = NoProbe
  /\ UNCHANGED <<mtu, pathLimit, searches, misjudged>>

-----------------------------------------------------------------------------
(* Calls of the receive thread *)

Matches(probe) ==
  /\ mtu.status = "Searching" /\ mtu.awaiting
  /\ mtu.activeProbe.id = probe.id
  /\ mtu.activeProbe.payloadBytes = probe.payloadBytes

\* acknowledge; an acknowledgement may arrive late and any number of times.
Acknowledge(probe) ==
  /\ Matches(probe)
  /\ mtu' = RecordSuccess([mtu EXCEPT !.awaiting = FALSE, !.attempts = 0,
                                      !.pauseOver = FALSE])
  /\ UNCHANGED <<probeToSend, delivered, pathLimit, searches, misjudged>>

\* Mutant: a new search numbers its probes from the start.
StartSearchRenumbers ==
  /\ mtu.status = "Unavailable" /\ searches < MaxSearches
  /\ mtu' = [mtu EXCEPT !.status = "Searching", !.safe = 0,
                        !.candidate = fallbackPayloadBytes, !.upperBound = 0,
                        !.attempts = 0, !.awaiting = FALSE, !.nextProbeId = 1]
  /\ searches' = searches + 1 /\ misjudged' = FALSE
  /\ UNCHANGED <<probeToSend, delivered, pathLimit>>

\* setSupported(true) where it does something.  nextProbeId_ goes on.
StartSearch ==
  /\ mtu.status = "Unavailable" /\ searches < MaxSearches
  /\ mtu' = [mtu EXCEPT !.status = "Searching", !.safe = 0,
                        !.candidate = fallbackPayloadBytes, !.upperBound = 0,
                        !.attempts = 0, !.awaiting = FALSE]
  /\ searches' = searches + 1 /\ misjudged' = FALSE
  /\ UNCHANGED <<probeToSend, delivered, pathLimit>>

\* The socket does not let the client forbid fragmentation: markFailed.
CannotProbe ==
  /\ mtu.status = "Unavailable"
  /\ mtu' = [mtu EXCEPT !.status = "Failed", !.awaiting = FALSE]
  /\ UNCHANGED <<probeToSend, delivered, pathLimit, searches, misjudged>>

\* setSupported(false): a server without the capability answers.
StopSearch ==
  /\ mtu' = [mtu EXCEPT !.status = "Unavailable", !.awaiting = FALSE]
  /\ UNCHANGED <<probeToSend, delivered, pathLimit, searches, misjudged>>

-----------------------------------------------------------------------------
DeadlinePasses ==
  /\ ~mtu.deadlinePassed
  /\ mtu' = [mtu EXCEPT !.deadlinePassed = TRUE]
  /\ UNCHANGED <<probeToSend, delivered, pathLimit, searches, misjudged>>

PauseEnds ==
  /\ ~mtu.pauseOver
  /\ mtu' = [mtu EXCEPT !.pauseOver = TRUE]
  /\ UNCHANGED <<probeToSend, delivered, pathLimit, searches, misjudged>>

TransmitWorker == StartProbe \/ RepeatProbe \/ GiveUp \/ SendProbe

Next ==
  \/ TransmitWorker
  \/ \E probe \in delivered : Acknowledge(probe)
  \/ StartSearch \/ CannotProbe \/ StopSearch
  \/ DeadlinePasses \/ PauseEnds

Spec == Init /\ [][Next]_vars

\* The client sends audio as long as it runs, and polls with every packet;
\* time passes.  No acknowledgement is assumed to arrive.
FairSpec ==
  Spec /\ WF_vars(TransmitWorker) /\ WF_vars(DeadlinePasses) /\ WF_vars(PauseEnds)

-----------------------------------------------------------------------------
Probe == [id : Nat, payloadBytes : Nat, search : Nat]

Discovery ==
  [status : {"Unavailable", "Searching", "Complete", "Failed"},
   safe : Nat, candidate : Nat, upperBound : Nat, nextProbeId : Nat,
   activeProbe : Probe, attempts : 0..maximumAttempts, awaiting : BOOLEAN,
   deadlinePassed : BOOLEAN, pauseOver : BOOLEAN]

TypeOK ==
  /\ mtu \in Discovery
  /\ probeToSend \in Probe
  /\ delivered \subseteq Probe
  /\ pathLimit \in PathLimits
  /\ searches \in 0..MaxSearches
  /\ misjudged \in BOOLEAN

\* The next size to try lies above everything proven and not above what the
\* last failure left open, and never above the largest target: the search
\* narrows with every verdict.
SearchNarrows ==
  mtu.status = "Searching" =>
    /\ mtu.safe < mtu.candidate
    /\ \E target \in growthTargets : mtu.candidate <= target
    /\ mtu.upperBound > 0 => mtu.candidate <= mtu.upperBound

\* safePayloadBytes() is a size that reached the server in a probe of the
\* present search: no acknowledgement that is late, repeated or of an earlier
\* search is taken for one of the active probe.
SafePayloadWasProven ==
  mtu.safe > 0 =>
    \E probe \in delivered : probe.search = searches /\ probe.payloadBytes = mtu.safe

\* A search that did not mistake loss for a limit ends at the largest aligned
\* size that the path lets through, or at the last target.
CompleteIsExact ==
  mtu.status = "Complete" /\ ~misjudged =>
    /\ mtu.safe <= pathLimit
    /\ \/ pathLimit < mtu.safe + probeAlignmentBytes
       \/ \A target \in growthTargets : target <= mtu.safe

\* A search ends, whatever is lost.
SearchEnds == mtu.status = "Searching" ~> mtu.status # "Searching"
=============================================================================
