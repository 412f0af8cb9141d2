------------------------ MODULE PathMtuDiscoveryProofs ------------------------
(***************************************************************************)
(* For every set of growth targets, every number of attempts and every     *)
(* path: the search narrows, its result was proven by a probe of its own,  *)
(* and without misjudged loss it is exact.                                 *)
(***************************************************************************)
EXTENDS PathMtuDiscovery, TLAPS, WellFoundedInduction

\* The smallest of some growth targets is one of them.
LEMMA SmallestTarget ==
  ASSUME NEW S, S \subseteq Nat, S # {}
  PROVE  Min(S) \in S /\ \A y \in S : Min(S) <= y
<1> DEFINE R == OpToRel(<, Nat)
<1>1. IsWellFoundedOn(R, Nat)
  BY NatLessThanWellFounded
<1>2. \E x \in S : \A y \in S : ~ (<<y, x>> \in R)
  <2> HIDE DEF R
  <2> QED  BY <1>1, WFMin
<1>3. \A x, y \in Nat : <<y, x>> \in R <=> y < x
  BY DEF OpToRel
<1> HIDE DEF R
<1>4. PICK x \in S : \A y \in S : <<y, x>> \notin R
  BY <1>2
<1>5. \A y \in S : ~ (y < x)
  BY <1>3, <1>4
<1>6. \A y \in S : x <= y
  BY <1>5
<1> QED  BY <1>6 DEF Min

Aligned(n) == n % 8 = 0

\* What the search keeps true of its own bounds, after every verdict.
Sound(m) ==
  /\ Aligned(m.safe) /\ Aligned(m.candidate) /\ Aligned(m.upperBound)
  /\ m.candidate > 0
  /\ m.status = "Searching" =>
       /\ m.safe < m.candidate
       /\ \E target \in growthTargets : m.candidate <= target
       /\ m.upperBound > 0 => m.candidate <= m.upperBound
  /\ m.upperBound > 0 => \E target \in growthTargets : m.upperBound <= target
  /\ m.status = "Complete" =>
       \/ m.upperBound > 0 /\ m.upperBound < m.safe + 8
       \/ \A target \in growthTargets : target <= m.safe

\* The active probe asks about the candidate in the name of this search.
ActiveProbeInv ==
  /\ mtu.nextProbeId > 0
  /\ mtu.activeProbe.id < mtu.nextProbeId
  /\ mtu.awaiting =>
       /\ mtu.status = "Searching" /\ mtu.activeProbe.id > 0
       /\ mtu.activeProbe.payloadBytes = mtu.candidate
       /\ mtu.activeProbe.search = searches

\* An id names one probe for good.
IdInv ==
  /\ \A p \in delivered :
       /\ 0 < p.id /\ p.id < mtu.nextProbeId
       /\ p.id = mtu.activeProbe.id => p = mtu.activeProbe
       /\ p.payloadBytes <= pathLimit
  /\ probeToSend # NoProbe =>
       /\ 0 < probeToSend.id /\ probeToSend.id < mtu.nextProbeId
       /\ probeToSend.id = mtu.activeProbe.id => probeToSend = mtu.activeProbe

\* A bound that was not set by misjudged loss is a limit of the path.
LimitInv == mtu.upperBound > 0 /\ ~misjudged => pathLimit < mtu.upperBound + 8

IInv ==
  /\ TypeOK /\ Sound(mtu) /\ ActiveProbeInv /\ IdInv /\ LimitInv
  /\ SafePayloadWasProven

-----------------------------------------------------------------------------
(* Where the search goes next *)

\* What a verdict leaves alone.
KeepsProbe(r, m) ==
  /\ r.nextProbeId = m.nextProbeId /\ r.activeProbe = m.activeProbe
  /\ r.attempts = m.attempts /\ r.awaiting = m.awaiting
  /\ r.deadlinePassed = m.deadlinePassed /\ r.pauseOver = m.pauseOver

\* selectBinarySearchTarget picks an aligned size above what is proven and
\* within what is open, or finds that nothing is open.
LEMMA BinarySearchTarget ==
  ASSUME NEW m \in Discovery, m.status = "Searching",
         Aligned(m.safe), Aligned(m.candidate), Aligned(m.upperBound),
         m.candidate > 0, m.upperBound > 0,
         \E target \in growthTargets : m.upperBound <= target
  PROVE  /\ SelectBinarySearchTarget(m) \in Discovery
         /\ Sound(SelectBinarySearchTarget(m))
         /\ KeepsProbe(SelectBinarySearchTarget(m), m)
         /\ SelectBinarySearchTarget(m).safe = m.safe
         /\ SelectBinarySearchTarget(m).upperBound = m.upperBound
         /\ SelectBinarySearchTarget(m).status \in {"Searching", "Complete"}
<1> DEFINE r == SelectBinarySearchTarget(m)
           s == m.safe
           u == m.upperBound
           half == AlignedHalfSpan(m)
           c == s + IF half <= 0 THEN 8 ELSE half
<1>1. s \in Nat /\ u \in Nat /\ m.candidate \in Nat
  BY DEF Discovery
<1>2. CASE u < s + 8
  <2>1. r = [m EXCEPT !.status = "Complete"]
    BY <1>2 DEF SelectBinarySearchTarget, probeAlignmentBytes
  <2> HIDE DEF r
  <2>2. /\ r \in Discovery /\ KeepsProbe(r, m) /\ r.safe = m.safe
        /\ r.upperBound = m.upperBound /\ r.candidate = m.candidate
        /\ r.status = "Complete"
    BY <2>1 DEF Discovery, KeepsProbe
  <2>3. Sound(r)
    BY <1>1, <1>2, <2>2 DEF Sound
  <2> QED  BY <2>2, <2>3 DEF r
<1>3. CASE ~(u < s + 8)
  <2>1. half = (((u - s) \div 2) \div 8) * 8
    BY DEF AlignedHalfSpan, probeAlignmentBytes
  <2>2. r = [m EXCEPT !.candidate = c]
    BY <1>3 DEF SelectBinarySearchTarget, probeAlignmentBytes
  <2>3. c \in Nat /\ s < c /\ c <= u /\ Aligned(c)
    <3>1. Aligned(s) /\ Aligned(u)
      OBVIOUS
    <3> HIDE DEF half, s, u
    <3>2. half \in Int /\ half % 8 = 0 /\ 0 <= half /\ half <= u - s
      BY <1>1, <1>3, <2>1
    <3> HIDE DEF c
    <3>3. c = s + IF half <= 0 THEN 8 ELSE half
      BY DEF c
    <3> QED  BY <1>1, <1>3, <3>1, <3>2, <3>3 DEF Aligned
  <2> HIDE DEF r, c
  <2>4. /\ r \in Discovery /\ KeepsProbe(r, m) /\ r.safe = m.safe
        /\ r.upperBound = m.upperBound /\ r.candidate = c
        /\ r.status = "Searching"
    BY <2>2, <2>3 DEF Discovery, KeepsProbe
  <2>5. \E target \in growthTargets : c <= target
    <3>1. PICK target \in growthTargets : u <= target
      OBVIOUS
    <3>2. target \in Nat
      BY MtuAssumption
    <3> QED  BY <1>1, <2>3, <3>1, <3>2
  <2>6. Sound(r)
    BY <1>1, <2>3, <2>4, <2>5 DEF Sound
  <2> QED  BY <2>4, <2>6 DEF r
<1> QED  BY <1>2, <1>3

\* selectNextGrowthTarget picks a target above what is proven, or none is left.
LEMMA NextGrowthTarget ==
  ASSUME NEW m \in Discovery, m.status = "Searching",
         Aligned(m.safe), Aligned(m.candidate), m.candidate > 0, m.upperBound = 0
  PROVE  /\ SelectNextGrowthTarget(m) \in Discovery
         /\ Sound(SelectNextGrowthTarget(m))
         /\ KeepsProbe(SelectNextGrowthTarget(m), m)
         /\ SelectNextGrowthTarget(m).safe = m.safe
         /\ SelectNextGrowthTarget(m).upperBound = m.upperBound
         /\ SelectNextGrowthTarget(m).status \in {"Searching", "Complete"}
<1> DEFINE r == SelectNextGrowthTarget(m)
           larger == {target \in growthTargets : target > m.safe}
           c == Min(larger)
<1>1. m.safe \in Nat /\ m.candidate \in Nat /\ Aligned(m.upperBound)
  BY DEF Discovery, Aligned
<1>2. \A target \in growthTargets : target \in Nat /\ Aligned(target)
  BY MtuAssumption DEF Aligned, probeAlignmentBytes
<1>3. CASE larger = {}
  <2>1. r = [m EXCEPT !.status = "Complete"]
    BY <1>3 DEF SelectNextGrowthTarget
  <2>2. \A target \in growthTargets : target <= m.safe
    BY <1>1, <1>2, <1>3
  <2> HIDE DEF r
  <2>3. /\ r \in Discovery /\ KeepsProbe(r, m) /\ r.safe = m.safe
        /\ r.upperBound = m.upperBound /\ r.candidate = m.candidate
        /\ r.status = "Complete"
    BY <2>1 DEF Discovery, KeepsProbe
  <2>4. Sound(r)
    BY <1>1, <2>2, <2>3 DEF Sound
  <2> QED  BY <2>3, <2>4 DEF r
<1>4. CASE larger # {}
  <2>1. r = [m EXCEPT !.candidate = c]
    BY <1>4 DEF SelectNextGrowthTarget
  <2>2. c \in larger
    BY <1>2, <1>4, SmallestTarget
  <2> HIDE DEF c
  <2>3. c \in growthTargets /\ c \in Nat /\ c > m.safe /\ Aligned(c)
    BY <1>2, <2>2
  <2> HIDE DEF r
  <2>4. /\ r \in Discovery /\ KeepsProbe(r, m) /\ r.safe = m.safe
        /\ r.upperBound = m.upperBound /\ r.candidate = c
        /\ r.status = "Searching"
    BY <2>1, <2>3 DEF Discovery, KeepsProbe
  <2>5. \E target \in growthTargets : c <= target
    BY <2>3
  <2>6. Sound(r)
    BY <1>1, <2>3, <2>4, <2>5 DEF Sound
  <2> QED  BY <2>4, <2>6 DEF r
<1> QED  BY <1>3, <1>4

\* recordSuccess makes the candidate the proven size.
LEMMA SuccessIsRecorded ==
  ASSUME NEW m \in Discovery, m.status = "Searching", Sound(m)
  PROVE  /\ RecordSuccess(m) \in Discovery /\ Sound(RecordSuccess(m))
         /\ KeepsProbe(RecordSuccess(m), m)
         /\ RecordSuccess(m).safe = m.candidate
         /\ RecordSuccess(m).upperBound = m.upperBound
         /\ RecordSuccess(m).status \in {"Searching", "Complete"}
<1> DEFINE p == [m EXCEPT !.safe = m.candidate]
<1>1. /\ p \in Discovery /\ KeepsProbe(p, m) /\ p.safe = m.candidate
      /\ p.candidate = m.candidate /\ p.upperBound = m.upperBound
      /\ p.status = "Searching"
  BY DEF Discovery, KeepsProbe
<1>2. /\ Aligned(p.safe) /\ Aligned(p.candidate) /\ Aligned(p.upperBound)
      /\ p.candidate > 0
      /\ p.upperBound > 0 => \E target \in growthTargets : p.upperBound <= target
  BY <1>1 DEF Sound
<1>3. RecordSuccess(m) = IF m.upperBound > 0 THEN SelectBinarySearchTarget(p)
                         ELSE SelectNextGrowthTarget(p)
  BY DEF RecordSuccess
<1> HIDE DEF p
<1>4. CASE m.upperBound > 0
  BY <1>1, <1>2, <1>3, <1>4, BinarySearchTarget DEF KeepsProbe
<1>5. CASE ~(m.upperBound > 0)
  <2>1. p.upperBound = 0
    BY <1>1, <1>5 DEF Discovery
  <2> QED  BY <1>1, <1>2, <1>3, <1>5, <2>1, NextGrowthTarget DEF KeepsProbe
<1> QED  BY <1>4, <1>5

\* recordFailure puts the bound one step below the candidate, unless not even
\* the fallback was answered.
LEMMA FailureIsRecorded ==
  ASSUME NEW m \in Discovery, m.status = "Searching", Sound(m)
  PROVE  /\ RecordFailure(m) \in Discovery /\ Sound(RecordFailure(m))
         /\ KeepsProbe(RecordFailure(m), m)
         /\ RecordFailure(m).safe = m.safe
         /\ RecordFailure(m).upperBound =
              (IF m.safe = 0 THEN m.upperBound ELSE m.candidate - 8)
         /\ RecordFailure(m).status \in {"Searching", "Complete", "Failed"}
<1> DEFINE r == RecordFailure(m)
<1>1. CASE m.safe = 0
  <2>1. r = [m EXCEPT !.status = "Failed"]
    BY <1>1 DEF RecordFailure
  <2> HIDE DEF r
  <2>2. /\ r \in Discovery /\ KeepsProbe(r, m) /\ r.safe = m.safe
        /\ r.upperBound = m.upperBound /\ r.candidate = m.candidate
        /\ r.status = "Failed"
    BY <2>1 DEF Discovery, KeepsProbe
  <2>3. Sound(r)
    BY <2>2 DEF Sound
  <2> QED  BY <1>1, <2>2, <2>3 DEF r
<1>2. CASE m.safe # 0
  <2> DEFINE u == m.candidate - 8
             p == [m EXCEPT !.upperBound = u]
  <2>1. r = SelectBinarySearchTarget(p)
    BY <1>2 DEF RecordFailure, probeAlignmentBytes
  <2>2. /\ m.safe \in Nat /\ m.candidate \in Nat /\ m.safe < m.candidate
        /\ Aligned(m.safe) /\ Aligned(m.candidate)
        /\ \E target \in growthTargets : m.candidate <= target
    BY DEF Discovery, Sound
  <2>3. u \in Nat /\ u > 0 /\ Aligned(u)
    BY <1>2, <2>2 DEF Aligned
  <2>4. \E target \in growthTargets : u <= target
    <3>1. PICK target \in growthTargets : m.candidate <= target
      BY <2>2
    <3>2. target \in Nat
      BY MtuAssumption
    <3> QED  BY <2>2, <3>1, <3>2
  <2> HIDE DEF u, r
  <2>5. /\ p \in Discovery /\ KeepsProbe(p, m) /\ p.safe = m.safe
        /\ p.candidate = m.candidate /\ p.upperBound = u
        /\ p.status = "Searching"
    BY <2>3 DEF Discovery, KeepsProbe
  <2> HIDE DEF p
  <2>6. /\ r \in Discovery /\ Sound(r) /\ KeepsProbe(r, p)
        /\ r.safe = p.safe /\ r.upperBound = p.upperBound
        /\ r.status \in {"Searching", "Complete"}
    BY <2>1, <2>2, <2>3, <2>4, <2>5, BinarySearchTarget
  <2>7. KeepsProbe(r, m)
    BY <2>5, <2>6 DEF KeepsProbe
  <2> QED  BY <1>2, <2>5, <2>6, <2>7 DEF r, u
<1> QED  BY <1>1, <1>2

-----------------------------------------------------------------------------
(* The steps *)

KeepsSearch(r, m) ==
  /\ r.status = m.status /\ r.safe = m.safe
  /\ r.candidate = m.candidate /\ r.upperBound = m.upperBound

\* A discovery with the same bounds is as sound.
LEMMA SoundTransfers ==
  ASSUME NEW r, NEW m, KeepsSearch(r, m), Sound(m)
  PROVE  Sound(r)
BY DEF KeepsSearch, Sound

\* A new probe has a number of its own and asks about the candidate.
LEMMA NewProbeIsFresh ==
  ASSUME NEW m \in Discovery, searches \in Nat
  PROVE  /\ NewProbe(m) \in Discovery /\ KeepsSearch(NewProbe(m), m)
         /\ NewProbe(m).nextProbeId = m.nextProbeId + 1
         /\ NewProbe(m).awaiting = TRUE
         /\ NewProbe(m).activeProbe \in Probe
         /\ NewProbe(m).activeProbe.id = m.nextProbeId
         /\ NewProbe(m).activeProbe.payloadBytes = m.candidate
         /\ NewProbe(m).activeProbe.search = searches
<1> DEFINE a == [id |-> m.nextProbeId, payloadBytes |-> m.candidate, search |-> searches]
           k == m.nextProbeId + 1
           b == [m EXCEPT !.activeProbe = a, !.nextProbeId = k,
                          !.attempts = 0, !.awaiting = TRUE]
           r == NewProbe(m)
<1>1. /\ a \in Probe /\ a.id = m.nextProbeId /\ a.payloadBytes = m.candidate
      /\ a.search = searches
  BY DEF Probe, Discovery
<1>2. r = [b EXCEPT !.attempts = b.attempts + 1, !.deadlinePassed = FALSE]
  BY DEF NewProbe, Attempt
<1>0. k \in Nat /\ 0 \in 0..maximumAttempts
  BY MtuAssumption DEF Discovery
<1> HIDE DEF a, r, k
<1>3. /\ b \in Discovery /\ KeepsSearch(b, m) /\ b.activeProbe = a
      /\ b.nextProbeId = k /\ b.awaiting = TRUE /\ b.attempts = 0
  BY <1>0, <1>1 DEF Discovery, KeepsSearch
<1> HIDE DEF b
<1>4. 1 \in 0..maximumAttempts
  BY MtuAssumption
<1>5. r = [b EXCEPT !.attempts = 1, !.deadlinePassed = FALSE]
  BY <1>2, <1>3
<1>6. /\ r \in Discovery /\ KeepsSearch(r, b) /\ r.activeProbe = b.activeProbe
      /\ r.nextProbeId = b.nextProbeId /\ r.awaiting = b.awaiting
  BY <1>3, <1>4, <1>5 DEF Discovery, KeepsSearch
<1> QED  BY <1>1, <1>3, <1>6 DEF r, k, KeepsSearch

\* Sending a new probe keeps the invariant, whether a poll starts with it or
\* comes to it after giving up another size.
LEMMA NewProbeIInv ==
  ASSUME IInv, NEW STATE m, m \in Discovery, m.status = "Searching", Sound(m),
         m.nextProbeId = mtu.nextProbeId, m.safe = mtu.safe,
         Send(NewProbe(m)), UNCHANGED <<delivered, pathLimit, searches>>,
         misjudged' \in BOOLEAN,
         m.upperBound > 0 /\ ~misjudged' => pathLimit < m.upperBound + 8
  PROVE  IInv'
<1> DEFINE n == NewProbe(m)
<1>1. TypeOK /\ ActiveProbeInv /\ IdInv /\ SafePayloadWasProven
  BY DEF IInv
<1>2. /\ n \in Discovery /\ KeepsSearch(n, m) /\ n.nextProbeId = mtu.nextProbeId + 1
      /\ n.awaiting = TRUE /\ n.activeProbe \in Probe
      /\ n.activeProbe.id = mtu.nextProbeId
      /\ n.activeProbe.payloadBytes = m.candidate
      /\ n.activeProbe.search = searches
  <2>1. searches \in Nat
    BY <1>1, MtuAssumption DEF TypeOK
  <2> QED  BY <2>1, NewProbeIsFresh
<1>3. mtu' = n /\ probeToSend' = n.activeProbe
  BY DEF Send
<1>4. /\ delivered' = delivered /\ pathLimit' = pathLimit /\ searches' = searches
  OBVIOUS
<1>5. mtu.nextProbeId \in Nat /\ mtu.nextProbeId > 0
  BY <1>1 DEF TypeOK, Discovery, ActiveProbeInv
<1> HIDE DEF n
<1>6. TypeOK'
  BY <1>1, <1>2, <1>3, <1>4 DEF TypeOK
<1>7. Sound(mtu')
  BY <1>2, <1>3, SoundTransfers
<1>8. ActiveProbeInv'
  BY <1>2, <1>3, <1>4, <1>5 DEF ActiveProbeInv, KeepsSearch
<1>9. IdInv'
  <2>1. \A p \in delivered : /\ p \in Probe /\ 0 < p.id /\ p.id < mtu.nextProbeId
                             /\ p.payloadBytes <= pathLimit
    BY <1>1 DEF IdInv, TypeOK
  <2>2. \A p \in delivered : p.id \in Nat
    BY <2>1 DEF Probe
  <2>3. \A p \in delivered : p.id < mtu'.nextProbeId /\ p.id # mtu'.activeProbe.id
    BY <1>2, <1>3, <1>5, <2>1, <2>2
  <2>4. /\ 0 < probeToSend'.id /\ probeToSend'.id < mtu'.nextProbeId
        /\ probeToSend' = mtu'.activeProbe
    BY <1>2, <1>3, <1>5
  <2> QED  BY <1>4, <2>1, <2>3, <2>4 DEF IdInv
<1>10. LimitInv'
  BY <1>2, <1>3, <1>4 DEF LimitInv, KeepsSearch
<1>11. SafePayloadWasProven'
  BY <1>1, <1>2, <1>3, <1>4 DEF SafePayloadWasProven, KeepsSearch
<1> QED  BY <1>6, <1>7, <1>8, <1>9, <1>10, <1>11 DEF IInv

\* A step that changes flags, attempts or the status alone keeps the invariant.
LEMMA SameSearchIInv ==
  ASSUME IInv, mtu' \in Discovery, Sound(mtu'),
         mtu'.safe = mtu.safe, mtu'.candidate = mtu.candidate,
         mtu'.upperBound = mtu.upperBound, mtu'.nextProbeId = mtu.nextProbeId,
         mtu'.activeProbe = mtu.activeProbe,
         mtu'.awaiting => mtu.awaiting /\ mtu'.status = "Searching",
         probeToSend' \in {probeToSend, mtu.activeProbe}, probeToSend' # NoProbe =>
            probeToSend' = probeToSend \/ mtu.activeProbe.id > 0,
         UNCHANGED <<delivered, pathLimit, searches, misjudged>>
  PROVE  IInv'
<1>1. TypeOK /\ ActiveProbeInv /\ IdInv /\ LimitInv /\ SafePayloadWasProven
  BY DEF IInv
<1>2. /\ delivered' = delivered /\ pathLimit' = pathLimit /\ searches' = searches
      /\ misjudged' = misjudged
  OBVIOUS
<1>3. mtu.activeProbe \in Probe
  BY <1>1 DEF TypeOK, Discovery
<1>4. TypeOK'
  BY <1>1, <1>2, <1>3 DEF TypeOK
<1>5. ActiveProbeInv'
  BY <1>1, <1>2 DEF ActiveProbeInv
<1>6. IdInv'
  BY <1>1, <1>2 DEF IdInv, ActiveProbeInv
<1>7. LimitInv' /\ SafePayloadWasProven'
  BY <1>1, <1>2 DEF LimitInv, SafePayloadWasProven
<1> QED  BY <1>4, <1>5, <1>6, <1>7 DEF IInv

\* poll starts a probe of the next size.
LEMMA StartProbeIInv ==
  ASSUME IInv, StartProbe
  PROVE  IInv'
<1>1. /\ mtu \in Discovery /\ mtu.status = "Searching" /\ Sound(mtu)
      /\ misjudged \in BOOLEAN /\ LimitInv
  BY DEF IInv, TypeOK, StartProbe, CanPoll
<1>2. /\ Send(NewProbe(mtu)) /\ UNCHANGED <<delivered, pathLimit, searches>>
      /\ misjudged' = misjudged
  BY DEF StartProbe
<1>3. mtu.upperBound > 0 /\ ~misjudged' => pathLimit < mtu.upperBound + 8
  BY <1>1, <1>2 DEF LimitInv
<1>4. misjudged' \in BOOLEAN
  BY <1>1, <1>2
<1> QED  BY <1>1, <1>2, <1>3, <1>4, NewProbeIInv

\* poll repeats the probe whose answer is overdue.
LEMMA RepeatProbeIInv ==
  ASSUME IInv, RepeatProbe
  PROVE  IInv'
<1> DEFINE k == mtu.attempts + 1
<1>1. /\ mtu \in Discovery /\ Sound(mtu) /\ ActiveProbeInv /\ mtu.awaiting
      /\ mtu.attempts < maximumAttempts
  BY DEF IInv, TypeOK, RepeatProbe
<1>2. k \in 0..maximumAttempts
  BY <1>1, MtuAssumption DEF Discovery
<1>3. /\ mtu' = [mtu EXCEPT !.attempts = k, !.deadlinePassed = FALSE]
      /\ probeToSend' = mtu'.activeProbe
      /\ UNCHANGED <<delivered, pathLimit, searches, misjudged>>
  BY DEF RepeatProbe, Send, Attempt
<1> HIDE DEF k
<1>4. /\ mtu' \in Discovery /\ KeepsSearch(mtu', mtu)
      /\ mtu'.nextProbeId = mtu.nextProbeId /\ mtu'.activeProbe = mtu.activeProbe
      /\ mtu'.awaiting = mtu.awaiting
  BY <1>1, <1>2, <1>3 DEF Discovery, KeepsSearch
<1>5. Sound(mtu')
  BY <1>1, <1>4, SoundTransfers
<1>6. mtu'.status = "Searching" /\ mtu.activeProbe.id > 0
  BY <1>1, <1>4 DEF ActiveProbeInv, KeepsSearch
<1> QED  BY <1>1, <1>3, <1>4, <1>5, <1>6, SameSearchIInv DEF KeepsSearch

\* Giving up a size: the verdict, and the next probe if the search goes on.
LEMMA GiveUpIInv ==
  ASSUME IInv, GiveUp
  PROVE  IInv'
<1> DEFINE m == [mtu EXCEPT !.awaiting = FALSE]
           f == RecordFailure(m)
<1>1. /\ TypeOK /\ Sound(mtu) /\ ActiveProbeInv /\ IdInv /\ LimitInv
      /\ SafePayloadWasProven /\ mtu.status = "Searching" /\ mtu.awaiting
  BY DEF IInv, GiveUp, CanPoll
<1>2. mtu \in Discovery /\ pathLimit \in Nat /\ misjudged \in BOOLEAN
  BY <1>1, MtuAssumption DEF TypeOK
<1>3. /\ m \in Discovery /\ KeepsSearch(m, mtu) /\ m.nextProbeId = mtu.nextProbeId
      /\ m.activeProbe = mtu.activeProbe /\ m.awaiting = FALSE
  BY <1>2 DEF Discovery, KeepsSearch
<1>4. Sound(m) /\ m.status = "Searching"
  BY <1>1, <1>3, SoundTransfers DEF KeepsSearch
<1>5. /\ UNCHANGED <<delivered, pathLimit, searches>>
      /\ misjudged' = (misjudged \/ mtu.candidate <= pathLimit)
      /\ IF f.status = "Searching" /\ f.pauseOver THEN Send(NewProbe(f))
         ELSE mtu' = f /\ UNCHANGED probeToSend
  BY DEF GiveUp
<1>6. /\ delivered' = delivered /\ pathLimit' = pathLimit /\ searches' = searches
  BY <1>5
<1> HIDE DEF m
<1>7. /\ f \in Discovery /\ Sound(f) /\ KeepsProbe(f, m) /\ f.safe = m.safe
      /\ f.upperBound = (IF m.safe = 0 THEN m.upperBound ELSE m.candidate - 8)
  BY <1>3, <1>4, FailureIsRecorded
<1> HIDE DEF f
<1>8. misjudged' \in BOOLEAN
  BY <1>5
<1>9. f.upperBound > 0 /\ ~misjudged' => pathLimit < f.upperBound + 8
  <2>1. ASSUME ~misjudged'
        PROVE  ~misjudged /\ ~(mtu.candidate <= pathLimit)
    BY <1>5, <2>1
  <2>2. mtu.candidate \in Nat /\ mtu.upperBound \in Nat
    BY <1>2 DEF Discovery
  <2>3. m.candidate = mtu.candidate /\ m.upperBound = mtu.upperBound
    BY <1>3 DEF KeepsSearch
  <2> QED  BY <1>1, <1>2, <1>7, <2>1, <2>2, <2>3 DEF LimitInv
<1>10. f.nextProbeId = mtu.nextProbeId /\ f.safe = mtu.safe
  BY <1>3, <1>7 DEF KeepsProbe, KeepsSearch
<1>11. CASE f.status = "Searching" /\ f.pauseOver
  <2>1. Send(NewProbe(f))
    BY <1>5, <1>11
  <2> QED  BY <1>5, <1>7, <1>8, <1>9, <1>10, <1>11, <2>1, NewProbeIInv
<1>12. CASE ~(f.status = "Searching" /\ f.pauseOver)
  <2>1. mtu' = f /\ probeToSend' = probeToSend
    BY <1>5, <1>12
  <2>2. TypeOK'
    BY <1>1, <1>6, <1>7, <1>8, <2>1 DEF TypeOK
  <2>3. f.activeProbe = mtu.activeProbe /\ f.awaiting = FALSE
    BY <1>3, <1>7 DEF KeepsProbe
  <2>4. ActiveProbeInv' /\ IdInv'
    BY <1>1, <1>6, <1>10, <2>1, <2>3 DEF ActiveProbeInv, IdInv
  <2>5. LimitInv' /\ SafePayloadWasProven'
    BY <1>1, <1>6, <1>9, <1>10, <2>1 DEF LimitInv, SafePayloadWasProven
  <2> QED  BY <1>7, <2>1, <2>2, <2>4, <2>5 DEF IInv
<1> QED  BY <1>11, <1>12

\* sendMtuProbe delivers what was polled, or loses it; the probe may by now be
\* of a search that has ended.
LEMMA SendProbeIInv ==
  ASSUME IInv, SendProbe
  PROVE  IInv'
<1>1. /\ TypeOK /\ Sound(mtu) /\ ActiveProbeInv /\ IdInv /\ LimitInv
      /\ SafePayloadWasProven
  BY DEF IInv
<1>2. /\ mtu' = mtu /\ pathLimit' = pathLimit /\ searches' = searches
      /\ misjudged' = misjudged /\ probeToSend' = NoProbe /\ probeToSend # NoProbe
      /\ \/ delivered' = delivered
         \/ /\ probeToSend.payloadBytes <= pathLimit
            /\ delivered' = delivered \cup {probeToSend}
  BY DEF SendProbe
<1>3. TypeOK'
  <2>1. NoProbe \in Probe
    BY DEF NoProbe, Probe
  <2> QED  BY <1>1, <1>2, <2>1 DEF TypeOK
<1>4. IdInv'
  BY <1>1, <1>2 DEF IdInv
<1>5. Sound(mtu') /\ ActiveProbeInv' /\ LimitInv'
  BY <1>1, <1>2 DEF ActiveProbeInv, LimitInv
<1>6. SafePayloadWasProven'
  BY <1>1, <1>2 DEF SafePayloadWasProven
<1> QED  BY <1>3, <1>4, <1>5, <1>6 DEF IInv

\* An acknowledgement that matches is of the active probe itself, so it proves
\* the candidate in the name of this search.
LEMMA AcknowledgeIInv ==
  ASSUME IInv, NEW probe \in delivered, Acknowledge(probe)
  PROVE  IInv'
<1> DEFINE m == [mtu EXCEPT !.awaiting = FALSE, !.attempts = 0, !.pauseOver = FALSE]
<1>1. /\ TypeOK /\ Sound(mtu) /\ ActiveProbeInv /\ IdInv /\ LimitInv
  BY DEF IInv
<1>2. mtu \in Discovery /\ 0 \in 0..maximumAttempts
  BY <1>1, MtuAssumption DEF TypeOK
<1>3. /\ mtu.status = "Searching" /\ mtu.awaiting /\ mtu.activeProbe.id = probe.id
      /\ mtu' = RecordSuccess(m) /\ probeToSend' = probeToSend
      /\ delivered' = delivered /\ pathLimit' = pathLimit
      /\ searches' = searches /\ misjudged' = misjudged
  BY DEF Acknowledge, Matches
<1>4. /\ m \in Discovery /\ KeepsSearch(m, mtu) /\ m.nextProbeId = mtu.nextProbeId
      /\ m.activeProbe = mtu.activeProbe /\ m.awaiting = FALSE
  BY <1>2 DEF Discovery, KeepsSearch
<1> HIDE DEF m
<1>5. Sound(m) /\ m.status = "Searching"
  BY <1>1, <1>3, <1>4, SoundTransfers DEF KeepsSearch
<1>6. /\ mtu' \in Discovery /\ Sound(mtu') /\ KeepsProbe(mtu', m)
      /\ mtu'.safe = m.candidate /\ mtu'.upperBound = m.upperBound
  BY <1>3, <1>4, <1>5, SuccessIsRecorded
<1>7. TypeOK'
  BY <1>1, <1>3, <1>6 DEF TypeOK
<1>8. /\ mtu'.nextProbeId = mtu.nextProbeId /\ mtu'.activeProbe = mtu.activeProbe
      /\ mtu'.awaiting = FALSE /\ mtu'.safe = mtu.candidate
      /\ mtu'.upperBound = mtu.upperBound
  BY <1>4, <1>6 DEF KeepsProbe, KeepsSearch
<1>9. ActiveProbeInv' /\ IdInv' /\ LimitInv'
  BY <1>1, <1>3, <1>8 DEF ActiveProbeInv, IdInv, LimitInv
<1>10. SafePayloadWasProven'
  <2>1. probe = mtu.activeProbe
    BY <1>1, <1>3 DEF IdInv
  <2>2. probe.search = searches /\ probe.payloadBytes = mtu.candidate
    BY <1>1, <1>3, <2>1 DEF ActiveProbeInv
  <2> QED  BY <1>3, <1>8, <2>2 DEF SafePayloadWasProven
<1> QED  BY <1>6, <1>7, <1>9, <1>10 DEF IInv

\* A new search starts without evidence and with the numbering going on.
LEMMA StartSearchIInv ==
  ASSUME IInv, StartSearch
  PROVE  IInv'
<1>1. TypeOK /\ ActiveProbeInv /\ IdInv
  BY DEF IInv
<1>2. /\ fallbackPayloadBytes \in Nat /\ fallbackPayloadBytes > 0
      /\ Aligned(fallbackPayloadBytes)
      /\ \E target \in growthTargets : fallbackPayloadBytes <= target
      /\ 0 \in 0..maximumAttempts
  BY MtuAssumption DEF Aligned, probeAlignmentBytes
<1>3. /\ mtu' = [mtu EXCEPT !.status = "Searching", !.safe = 0,
                            !.candidate = fallbackPayloadBytes, !.upperBound = 0,
                            !.attempts = 0, !.awaiting = FALSE]
      /\ probeToSend' = probeToSend /\ delivered' = delivered /\ pathLimit' = pathLimit
      /\ searches' = searches + 1 /\ searches < MaxSearches /\ misjudged' = FALSE
  BY DEF StartSearch
<1>4. mtu \in Discovery
  BY <1>1 DEF TypeOK
<1>5. /\ mtu' \in Discovery /\ mtu'.status = "Searching" /\ mtu'.safe = 0
      /\ mtu'.candidate = fallbackPayloadBytes /\ mtu'.upperBound = 0
      /\ mtu'.awaiting = FALSE /\ mtu'.activeProbe = mtu.activeProbe
      /\ mtu'.nextProbeId = mtu.nextProbeId
  BY <1>2, <1>3, <1>4 DEF Discovery
<1>6. TypeOK'
  <2>1. searches + 1 \in 0..MaxSearches
    BY <1>1, <1>3, MtuAssumption DEF TypeOK
  <2> QED  BY <1>1, <1>3, <1>5, <2>1 DEF TypeOK
<1>7. Sound(mtu')
  BY <1>2, <1>5 DEF Sound, Aligned
<1>8. ActiveProbeInv' /\ IdInv'
  BY <1>1, <1>3, <1>5 DEF ActiveProbeInv, IdInv
<1>9. LimitInv' /\ SafePayloadWasProven'
  BY <1>5 DEF LimitInv, SafePayloadWasProven
<1> QED  BY <1>6, <1>7, <1>8, <1>9 DEF IInv

\* Stopping, failing and the passing of time leave the search where it is.
LEMMA OtherStepsIInv ==
  ASSUME IInv, CannotProbe \/ StopSearch \/ DeadlinePasses \/ PauseEnds
  PROVE  IInv'
<1>1. mtu \in Discovery /\ Sound(mtu) /\ ActiveProbeInv
  BY DEF IInv, TypeOK
<1>2. /\ probeToSend' = probeToSend
      /\ UNCHANGED <<delivered, pathLimit, searches, misjudged>>
  BY DEF CannotProbe, StopSearch, DeadlinePasses, PauseEnds
<1>3. \/ \E s \in {"Failed", "Unavailable"} :
           mtu' = [mtu EXCEPT !.status = s, !.awaiting = FALSE]
      \/ mtu' = [mtu EXCEPT !.deadlinePassed = TRUE]
      \/ mtu' = [mtu EXCEPT !.pauseOver = TRUE]
  BY DEF CannotProbe, StopSearch, DeadlinePasses, PauseEnds
<1>4. /\ mtu' \in Discovery
      /\ mtu'.safe = mtu.safe /\ mtu'.candidate = mtu.candidate
      /\ mtu'.upperBound = mtu.upperBound /\ mtu'.nextProbeId = mtu.nextProbeId
      /\ mtu'.activeProbe = mtu.activeProbe
      /\ \/ mtu'.status \in {"Failed", "Unavailable"} /\ mtu'.awaiting = FALSE
         \/ mtu'.status = mtu.status /\ mtu'.awaiting = mtu.awaiting
  BY <1>1, <1>3 DEF Discovery
<1>5. Sound(mtu')
  BY <1>1, <1>4 DEF Sound
<1>6. mtu'.awaiting => mtu.awaiting /\ mtu'.status = "Searching"
  BY <1>1, <1>4 DEF ActiveProbeInv
<1> QED  BY <1>2, <1>4, <1>5, <1>6, SameSearchIInv

-----------------------------------------------------------------------------
(* The theorems *)

\* The inductive invariant holds in every state of the discovery.
THEOREM DiscoveryInvariant == Spec => []IInv
<1>1. Init => IInv
  <2> SUFFICES ASSUME Init PROVE IInv
    OBVIOUS
  <2>1. /\ fallbackPayloadBytes \in Nat /\ fallbackPayloadBytes > 0
        /\ Aligned(fallbackPayloadBytes) /\ 0 \in 0..maximumAttempts
        /\ 0 \in 0..MaxSearches
    BY MtuAssumption DEF Aligned, probeAlignmentBytes
  <2>2. NoProbe \in Probe /\ NoProbe.id = 0
    BY DEF NoProbe, Probe
  <2>3. TypeOK
    BY <2>1, <2>2 DEF Init, TypeOK, Discovery
  <2>4. Sound(mtu)
    BY <2>1 DEF Init, Sound, Aligned
  <2>5. ActiveProbeInv /\ IdInv /\ LimitInv /\ SafePayloadWasProven
    BY <2>2 DEF Init, ActiveProbeInv, IdInv, LimitInv, SafePayloadWasProven
  <2> QED  BY <2>3, <2>4, <2>5 DEF IInv
<1>2. IInv /\ [Next]_vars => IInv'
  <2> SUFFICES ASSUME IInv, [Next]_vars PROVE IInv'
    OBVIOUS
  <2>1. CASE StartProbe
    BY <2>1, StartProbeIInv
  <2>2. CASE RepeatProbe
    BY <2>2, RepeatProbeIInv
  <2>3. CASE GiveUp
    BY <2>3, GiveUpIInv
  <2>4. CASE SendProbe
    BY <2>4, SendProbeIInv
  <2>5. CASE \E probe \in delivered : Acknowledge(probe)
    BY <2>5, AcknowledgeIInv
  <2>6. CASE StartSearch
    BY <2>6, StartSearchIInv
  <2>7. CASE CannotProbe \/ StopSearch \/ DeadlinePasses \/ PauseEnds
    BY <2>7, OtherStepsIInv
  <2>8. CASE UNCHANGED vars
    BY <2>8 DEF vars, IInv, TypeOK, Sound, ActiveProbeInv, IdInv, LimitInv,
                SafePayloadWasProven
  <2> QED  BY <2>1, <2>2, <2>3, <2>4, <2>5, <2>6, <2>7, <2>8 DEF Next, TransmitWorker
<1> QED  BY <1>1, <1>2, PTL DEF Spec

\* Type correctness of the discovery: bounds and ids stay natural numbers and
\* no size is tried more often than maximumAttempts.
THEOREM DiscoveryTypeCorrect == Spec => []TypeOK
<1>1. IInv => TypeOK
  BY DEF IInv
<1> QED  BY <1>1, DiscoveryInvariant, PTL

\* The search narrows with every verdict of poll and acknowledge.
THEOREM DiscoveryNarrows == Spec => []SearchNarrows
<1>1. IInv => SearchNarrows
  BY DEF IInv, Sound, SearchNarrows
<1> QED  BY <1>1, DiscoveryInvariant, PTL

\* No acknowledgement but one of the active probe ever sets safePayloadBytes_.
THEOREM DiscoveryIsProven == Spec => []SafePayloadWasProven
<1>1. IInv => SafePayloadWasProven
  BY DEF IInv
<1> QED  BY <1>1, DiscoveryInvariant, PTL

\* The search that selectBinarySearchTarget ends is exact, for every set of
\* aligned targets and every path, unless loss was mistaken for a limit.
THEOREM DiscoveryIsExact == Spec => []CompleteIsExact
<1>1. IInv => CompleteIsExact
  <2> SUFFICES ASSUME IInv, mtu.status = "Complete", ~misjudged
               PROVE  /\ mtu.safe <= pathLimit
                      /\ \/ pathLimit < mtu.safe + 8
                         \/ \A target \in growthTargets : target <= mtu.safe
    BY DEF CompleteIsExact, probeAlignmentBytes
  <2>1. /\ mtu.safe \in Nat /\ mtu.upperBound \in Nat /\ pathLimit \in Nat
        /\ Aligned(mtu.safe) /\ Aligned(mtu.upperBound) /\ LimitInv
        /\ SafePayloadWasProven /\ IdInv
    BY MtuAssumption DEF IInv, TypeOK, Discovery, Sound
  <2>2. mtu.safe <= pathLimit
    BY <2>1 DEF SafePayloadWasProven, IdInv
  <2>3. CASE mtu.upperBound > 0 /\ mtu.upperBound < mtu.safe + 8
    <3>1. pathLimit < mtu.upperBound + 8
      BY <2>1, <2>3 DEF LimitInv
    <3>2. mtu.upperBound <= mtu.safe
      BY <2>1, <2>3 DEF Aligned
    <3> QED  BY <2>1, <2>2, <3>1, <3>2
  <2>4. CASE \A target \in growthTargets : target <= mtu.safe
    BY <2>2, <2>4
  <2> QED  BY <2>3, <2>4 DEF IInv, Sound
<1> QED  BY <1>1, DiscoveryInvariant, PTL
==============================================================================
