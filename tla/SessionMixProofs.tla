--------------------------- MODULE SessionMixProofs ---------------------------
(***************************************************************************)
(* From the clients' packets to what every client hears and shows, for any *)
(* number of clients, any channel setups and any length of a block: the    *)
(* channels are heard where they should be, the session shown is as recent *)
(* as losses allow, and what a client plays is what was produced for it    *)
(* or a stand-in that invents nothing.                                     *)
(***************************************************************************)
EXTENDS SessionMix, FiniteSetTheorems, WellFoundedInduction, TLAPS

-----------------------------------------------------------------------------
(* The order of a mix *)

\* A set of naturals has a least element.
LEMMA LeastOf ==
  ASSUME NEW S, S \subseteq Nat, S # {}
  PROVE  \E x \in S : \A y \in S : x <= y
<1> DEFINE R == OpToRel(<, Nat)
<1>1. IsWellFoundedOn(R, Nat)
  BY NatLessThanWellFounded
<1>2. \A x, y \in Nat : <<y, x>> \in R <=> y < x
  BY DEF OpToRel
<1> HIDE DEF R
<1>3. PICK x \in S : \A y \in S : ~ (<<y, x>> \in R)
  BY <1>1, WFMin
<1>4. \A y \in S : ~ (y < x)
  BY <1>2, <1>3
<1>5. \A y \in S : x <= y
  BY <1>4
<1> QED  BY <1>5

\* There are finitely many clients.
LEMMA FiniteClients ==
  IsFiniteSet(Clients)
<1> DEFINE n == Len(Addresses)
           f == [i \in 1..n |-> Addresses[i]]
<1>1. n \in Nat /\ DOMAIN Addresses = 1..n
  BY SessionAssumption
<1>2. IsFiniteSet(1..n)
  BY <1>1, FS_Interval
<1>3. f \in Surjection(1..n, Clients)
  BY <1>1 DEF Surjection, Clients
<1> HIDE DEF f, n
<1> QED  BY <1>2, <1>3, FS_Surjection

\* The order of a mix lists every client in it once.
LEMMA OrderListsAll ==
  ASSUME NEW mixed \in SUBSET Clients, NEW order \in InOrder(mixed)
  PROVE  /\ order \in Seq(mixed) /\ Len(order) = Cardinality(mixed) /\ Len(order) \in Nat
         /\ DOMAIN order = 1..Len(order)
         /\ \A i, j \in 1..Len(order) : order[i] = order[j] => i = j
         /\ \A c \in mixed : \E i \in 1..Len(order) : order[i] = c
<1> DEFINE n == Cardinality(mixed)
<1>1. IsFiniteSet(mixed) /\ n \in Nat
  BY FiniteClients, FS_Subset, FS_CardinalityType
<1>2. order \in [1..n -> mixed] /\ \A i, j \in 1..n : i < j => Before(order[i], order[j])
  BY DEF InOrder
<1>3. order \in Seq(mixed) /\ Len(order) = n /\ DOMAIN order = 1..n
  BY <1>1, <1>2
<1>4. \A c : ~Before(c, c)
  BY SessionAssumption DEF Before
<1>5. \A i, j \in 1..n : order[i] = order[j] => i = j
  <2> SUFFICES ASSUME NEW i \in 1..n, NEW j \in 1..n, order[i] = order[j], i # j
               PROVE  FALSE
    OBVIOUS
  <2>1. i < j \/ j < i
    BY <1>1
  <2> QED  BY <1>2, <1>4, <2>1
<1>6. order \in Injection(1..n, mixed)
  BY <1>2, <1>5 DEF Injection, IsInjective
<1>7. IsFiniteSet(1..n) /\ Cardinality(1..n) = n
  BY <1>1, FS_Interval
<1>8. order \in Surjection(1..n, mixed)
  BY <1>1, <1>6, <1>7, FS_Injection DEF Surjection
<1>9. \A c \in mixed : \E i \in 1..n : order[i] = c
  BY <1>8 DEF Surjection
<1> QED  BY <1>1, <1>3, <1>5, <1>9

\* The signal of a mix does not depend on the order.
LEMMA SignalOfMix ==
  ASSUME NEW packets, NEW S, NEW order \in Seq(S)
  PROVE  LET Sent(s) == \E i \in 1..Len(order) : packets[order[i]].signal = s
         IN  MixedSignal(packets, order) = IF Sent("stop") THEN "stop"
                                           ELSE IF Sent("start") THEN "start" ELSE "none"
<1> DEFINE sent == [i \in Nat |-> packets[order[i]].signal]
           R(f) == [i \in Nat |-> IF i = 0 THEN "none"
                                  ELSE IF packets[order[i]].signal = "stop" THEN "stop"
                                  ELSE IF packets[order[i]].signal = "start" /\ f[i - 1] = "none"
                                    THEN "start"
                                  ELSE f[i - 1]]
           After(i) == IF \E j \in 1..i : sent[j] = "stop" THEN "stop"
                       ELSE IF \E j \in 1..i : sent[j] = "start" THEN "start" ELSE "none"
           total == [i \in Nat |-> After(i)]
           g == CHOOSE f : f = R(f)
<1>1. After(0) = "none"
  OBVIOUS
<1>2. ASSUME NEW i \in Nat, i # 0
      PROVE  After(i) = IF sent[i] = "stop" THEN "stop"
                        ELSE IF sent[i] = "start" /\ After(i - 1) = "none" THEN "start"
                        ELSE After(i - 1)
  <2>1. i - 1 \in Nat /\ \A j : j \in 1..i <=> j \in 1..(i - 1) \/ j = i
    BY <1>2
  <2> HIDE DEF sent
  <2> QED  BY <2>1
<1>3. total = R(total)
  <2> SUFFICES ASSUME NEW i \in Nat PROVE total[i] = R(total)[i]
    OBVIOUS
  <2>1. CASE i = 0
    BY <1>1, <2>1
  <2>2. CASE i # 0
    <3> HIDE DEF After
    <3>1. i - 1 \in Nat
      BY <2>2
    <3>2. total[i - 1] = After(i - 1) /\ total[i] = After(i)
      BY <3>1
    <3> HIDE DEF total
    <3> QED  BY <1>2, <2>2, <3>1, <3>2
  <2> QED  BY <2>1, <2>2
<1>4. g = R(g)
  <2> HIDE DEF total, R
  <2> QED  BY <1>3
<1>5. MixedSignal(packets, order) = g[Len(order)]
  BY DEF MixedSignal
<1>6. g[0] = "none" /\ \A i \in Nat \ {0} : g[i] = IF sent[i] = "stop" THEN "stop"
                        ELSE IF sent[i] = "start" /\ g[i - 1] = "none" THEN "start"
                        ELSE g[i - 1]
  <2>1. /\ R(g)[0] = "none"
        /\ \A i \in Nat \ {0} : R(g)[i] = IF sent[i] = "stop" THEN "stop"
                        ELSE IF sent[i] = "start" /\ g[i - 1] = "none" THEN "start"
                        ELSE g[i - 1]
    <3> HIDE DEF g
    <3> QED  OBVIOUS
  <2> HIDE DEF g, R
  <2> QED  BY <1>4, <2>1
<1> HIDE DEF g
<1>7. \A i \in Nat : g[i] = After(i)
  <2> DEFINE Wrong == {i \in Nat : g[i] # After(i)}
  <2>1. SUFFICES ASSUME Wrong # {} PROVE FALSE
    OBVIOUS
  <2>2. PICK m \in Wrong : \A k \in Wrong : m <= k
    <3>1. Wrong \subseteq Nat
      OBVIOUS
    <3> HIDE DEF Wrong
    <3> QED  BY <2>1, <3>1, LeastOf
  <2>3. m \in Nat /\ g[m] # After(m)
    BY <2>2
  <2>4. m # 0
    <3> HIDE DEF After
    <3> QED  BY <1>1, <1>6, <2>3
  <2>5. m - 1 \in Nat /\ m - 1 \notin Wrong
    BY <2>2, <2>3, <2>4
  <2>6. g[m - 1] = After(m - 1)
    BY <2>5
  <2> HIDE DEF After, Wrong, sent
  <2> QED  BY <1>2, <1>6, <2>3, <2>4, <2>5, <2>6
<1>8. Len(order) \in Nat
  OBVIOUS
<1>9. MixedSignal(packets, order) = After(Len(order))
  <2> HIDE DEF After
  <2> QED  BY <1>5, <1>7, <1>8
<1>10. \A j \in 1..Len(order) : sent[j] = packets[order[j]].signal
  BY <1>8
<1> HIDE DEF sent
<1> QED  BY <1>9, <1>10

-----------------------------------------------------------------------------
(* What crosses the network *)

\* A sequence behind a first element.
LEMMA Prepend ==
  ASSUME NEW T, NEW w \in T, NEW t \in Seq(T)
  PROVE  LET s == <<w>> \o t
         IN  /\ s \in Seq(T) /\ Len(s) = Len(t) + 1 /\ DOMAIN s = 1..(Len(t) + 1)
             /\ s[1] = w /\ \A i \in 1..Len(t) : s[i + 1] = t[i]
OBVIOUS

\* The message that arrives: the first block and the redundant one, if there is one.
LEMMA AudioArrives ==
  ASSUME NEW block, NEW S, NEW redundant \in Seq(S), Len(redundant) <= 1, NEW version, NEW roster
  PROVE  LET m == deserialize(serialize(AudioData(block, redundant, version, roster)))
         IN  /\ m.legacySession = roster
             /\ m.block = readAudioHeaderAndBytes(serializeAudioBlock(block, 1))
             /\ redundant = <<>> => m.fec = <<>>
             /\ redundant # <<>> => /\ m.fec # <<>>
                              /\ m.fec[1] = readAudioHeaderAndBytes(
                                              serializeAudioBlock(redundant[1], FecReduction))
<1> DEFINE m == AudioData(block, redundant, version, roster)
           W(x, r) == serializeAudioBlock(x, r)
           B(x) == readAudioHeaderAndBytes(x)
           t == [i \in 1..Len(redundant) |-> W(redundant[i], FecReduction)]
           s == <<W(block, 1)>> \o t
           u == [i \in 1..(Len(redundant) + 1) |-> B(s[i])]
           bytes == [type |-> "AUDIODATA", protocolVersion |-> version, allChannels |-> roster,
                     audioBlocks |-> s]
<1> HIDE DEF W, B
<1>0. Len(redundant) \in {0, 1} /\ DOMAIN redundant = 1..Len(redundant) /\ (redundant = <<>> <=> Len(redundant) = 0)
  <2>1. Len(redundant) \in Nat /\ DOMAIN redundant = 1..Len(redundant)
    OBVIOUS
  <2>2. Len(redundant) \in {0, 1}
    BY <2>1
  <2>3. redundant = <<>> <=> Len(redundant) = 0
    OBVIOUS
  <2> QED  BY <2>1, <2>2, <2>3
<1>1. serialize(m) = bytes
  <2>1. serialize(m) = SerializedAudio(m)
    BY DEF serialize, AudioData
  <2>2. m.version = version /\ m.legacySession = roster /\ m.block = block /\ m.fec = redundant
    BY DEF AudioData
  <2> HIDE DEF m
  <2> QED  BY <1>0, <2>1, <2>2 DEF SerializedAudio, W
<1>2. /\ DOMAIN s = 1..(Len(redundant) + 1) /\ s[1] = W(block, 1)
      /\ \A i \in 1..Len(redundant) : s[i + 1] = t[i]
  <2> DEFINE T == {W(block, 1)} \cup {t[i] : i \in 1..Len(redundant)}
  <2>1. t \in Seq(T) /\ Len(t) = Len(redundant) /\ W(block, 1) \in T
    BY <1>0
  <2> HIDE DEF T, t
  <2> QED  BY <2>1, Prepend
<1>3. deserialize(bytes) = ReadAudio(bytes)
  <2> HIDE DEF s
  <2> QED  BY DEF deserialize, MessageType
<1>4. ReadAudio(bytes) = AudioData(u[1], Tail(u), version, roster)
  <2> HIDE DEF s
  <2>1. Len(u) = Len(redundant) + 1 /\ ~(Len(u) > 2)
    BY <1>0
  <2>2. u = [i \in DOMAIN bytes.audioBlocks |-> readAudioHeaderAndBytes(bytes.audioBlocks[i])]
    BY <1>2 DEF B
  <2> HIDE DEF u
  <2> QED  BY <2>1, <2>2 DEF ReadAudio
<1>5. u[1] = B(W(block, 1)) /\ Len(u) = Len(redundant) + 1
  <2> HIDE DEF s
  <2> QED  BY <1>0, <1>2
<1>6. redundant = <<>> => Tail(u) = <<>>
  <2> HIDE DEF s
  <2> QED  BY <1>0, <1>5
<1>7. redundant # <<>> => Tail(u) # <<>> /\ Tail(u)[1] = B(W(redundant[1], FecReduction))
  <2> HIDE DEF s
  <2>1. redundant # <<>> => u[2] = B(t[1]) /\ t[1] = W(redundant[1], FecReduction)
    BY <1>0, <1>2
  <2>2. u \in Seq({u[i] : i \in 1..(Len(redundant) + 1)})
    BY <1>0
  <2> HIDE DEF u, t
  <2>3. redundant # <<>> => Tail(u) # <<>> /\ Tail(u)[1] = u[2]
    BY <1>0, <1>5, <2>2
  <2> QED  BY <2>1, <2>3
<1> HIDE DEF u, t, s
<1> QED  BY <1>1, <1>3, <1>4, <1>5, <1>6, <1>7 DEF AudioData, B, W

\* A message without a redundant block (FEC off, or the first package of a client).
LEMMA AudioArrivesAlone ==
  ASSUME NEW block, NEW version, NEW roster
  PROVE  LET m == deserialize(serialize(AudioData(block, <<>>, version, roster)))
         IN  /\ m.legacySession = roster /\ m.fec = <<>>
             /\ m.block = readAudioHeaderAndBytes(serializeAudioBlock(block, 1))
<1>1. <<>> \in Seq({1}) /\ Len(<<>>) <= 1
  OBVIOUS
<1>2. \A r \in Seq({1}) : Len(r) <= 1 =>
        LET m == deserialize(serialize(AudioData(block, r, version, roster)))
        IN  /\ m.legacySession = roster /\ (r = <<>> => m.fec = <<>>)
            /\ m.block = readAudioHeaderAndBytes(serializeAudioBlock(block, 1))
  BY AudioArrives
<1> QED  BY <1>1, <1>2

\* A message with the block that went out before.
LEMMA AudioArrivesWith ==
  ASSUME NEW block, NEW x, NEW version, NEW roster
  PROVE  LET m == deserialize(serialize(AudioData(block, <<x>>, version, roster)))
         IN  /\ m.legacySession = roster /\ m.fec # <<>>
             /\ m.block = readAudioHeaderAndBytes(serializeAudioBlock(block, 1))
             /\ m.fec[1] = readAudioHeaderAndBytes(serializeAudioBlock(x, FecReduction))
<1>1. <<x>> \in Seq({x}) /\ Len(<<x>>) <= 1 /\ <<x>> # <<>> /\ <<x>>[1] = x
  OBVIOUS
<1>2. \A r \in Seq({x}) : r # <<>> /\ Len(r) <= 1 =>
        LET m == deserialize(serialize(AudioData(block, r, version, roster)))
        IN  /\ m.legacySession = roster /\ m.fec # <<>>
            /\ m.block = readAudioHeaderAndBytes(serializeAudioBlock(block, 1))
            /\ m.fec[1] = readAudioHeaderAndBytes(serializeAudioBlock(r[1], FecReduction))
  BY AudioArrives
<1> QED  BY <1>1, <1>2

\* How often the receiver repeats a sample of a block sent with fewer samples.
Upsampling(r) ==
  IF SampleRate \div r # 0 THEN SampleRate \div (SampleRate \div r) ELSE SampleRate

\* The receiver repeats a sample as often as the sender left samples out.
LEMMA UpsamplingIsReduction ==
  Upsampling(1) = 1 /\ Upsampling(FecReduction) = FecReduction
BY DEF Upsampling, SampleRate, FecReduction

\* What of a block the wire keeps.
LEMMA BlockArrives ==
  ASSUME NEW b, NEW r
  PROVE  LET x == readAudioHeaderAndBytes(serializeAudioBlock(b, r))
         IN  /\ x = AudioBlock(x.counter, x.time, x.signal, x.setup, x.audio)
             /\ x.counter = b.counter /\ x.time = b.time /\ x.signal = b.signal
             /\ x.setup = ChannelSetup(FALSE, b.setup.targets)
             /\ x.audio = readAudioBytes(appendAudioBuffer(b.audio, r), Upsampling(r))
<1> DEFINE w == serializeAudioBlock(b, r)
           t == b.setup.targets
           a == appendAudioBuffer(b.audio, r)
<1>1. /\ w.messageCounter = b.counter /\ w.serverTime = b.time /\ w.midiSignal = b.signal
      /\ w.channelSetup = t /\ w.sampleRate = SampleRate \div r /\ w.channels = a
  BY DEF serializeAudioBlock
<1> HIDE DEF w, t, a
<1>2. readAudioHeaderAndBytes(w)
        = AudioBlock(b.counter, b.time, b.signal, ChannelSetup(FALSE, t), readAudioBytes(a, Upsampling(r)))
  BY <1>1 DEF readAudioHeaderAndBytes, readChannelSetup, Upsampling
<1> DEFINE c == ChannelSetup(FALSE, t)
           u == readAudioBytes(a, Upsampling(r))
<1> HIDE DEF c, u
<1>3. readAudioHeaderAndBytes(w) = AudioBlock(b.counter, b.time, b.signal, c, u)
  BY <1>2 DEF c, u
<1>4. LET x == readAudioHeaderAndBytes(w)
      IN  /\ x = AudioBlock(x.counter, x.time, x.signal, x.setup, x.audio)
          /\ x.counter = b.counter /\ x.time = b.time /\ x.signal = b.signal
          /\ x.setup = c /\ x.audio = u
  BY <1>3 DEF AudioBlock
<1> QED  BY <1>4 DEF w, t, a, c, u

\* The block itself is sent with all its samples.
LEMMA AudioArrivesInFull ==
  ASSUME NEW n \in Nat, NEW S, NEW a \in [1..n -> S]
  PROVE  readAudioBytes(appendAudioBuffer(a, 1), 1) = a
<1> DEFINE k == [i \in 1..n |-> a[(i - 1) * 1 + 1]]
<1>1. Len(a) = n /\ n \div 1 = n /\ n * 1 = n
  OBVIOUS
<1>2. appendAudioBuffer(a, 1) = k
  BY <1>1 DEF appendAudioBuffer
<1>3. \A i \in 1..n : (i - 1) * 1 + 1 = i
  OBVIOUS
<1>4. k = a
  BY <1>3
<1>5. \A i \in 1..n : (i - 1) \div 1 + 1 = i
  OBVIOUS
<1>6. readAudioBytes(a, 1) = [i \in 1..n |-> a[(i - 1) \div 1 + 1]]
  BY <1>1 DEF readAudioBytes
<1>7. [i \in 1..n |-> a[(i - 1) \div 1 + 1]] = a
  BY <1>5
<1> QED  BY <1>2, <1>4, <1>6, <1>7

\* A redundant block arrives with every second sample held, at its full length.
LEMMA AudioArrivesReduced ==
  ASSUME NEW n \in Nat, n % FecReduction = 0, NEW S, NEW a \in [1..n -> S]
  PROVE  LET x == readAudioBytes(appendAudioBuffer(a, FecReduction), FecReduction)
         IN  x \in [1..n -> S] /\ \A i \in 1..n : x[i] = a[i - ((i - 1) % FecReduction)]
<1> DEFINE h == n \div 2
           k == [i \in 1..h |-> a[(i - 1) * 2 + 1]]
           x == readAudioBytes(k, 2)
<1>1. Len(a) = n /\ h \in Nat /\ h * 2 = n
  BY DEF FecReduction
<1>2. appendAudioBuffer(a, FecReduction) = k
  BY <1>1 DEF appendAudioBuffer, FecReduction
<1>3. Len(k) = h
  BY <1>1
<1>4. x = [i \in 1..n |-> k[(i - 1) \div 2 + 1]]
  <2> HIDE DEF k, h
  <2> QED  BY <1>1, <1>3 DEF readAudioBytes
<1>a. \A j \in 1..h : k[j] = a[(j - 1) * 2 + 1]
  <2> HIDE DEF h
  <2> QED  OBVIOUS
<1> HIDE DEF k, h
<1>5. ASSUME NEW i \in 1..n
      PROVE  k[(i - 1) \div 2 + 1] = a[i - ((i - 1) % 2)] /\ i - ((i - 1) % 2) \in 1..n
  <2> DEFINE q == (i - 1) \div 2
             z == (i - 1) % 2
  <2>1. q \in Int /\ z \in {0, 1} /\ i - 1 = 2 * q + z
    OBVIOUS
  <2> HIDE DEF q, z
  <2>2. PICK j \in 1..h : j = q + 1 /\ (j - 1) * 2 + 1 = i - z
    BY <1>1, <2>1
  <2>3. k[j] = a[(j - 1) * 2 + 1]
    BY <1>a
  <2>4. k[q + 1] = a[i - z] /\ i - z \in 1..n
    BY <1>1, <2>1, <2>2, <2>3
  <2> QED  BY <2>4 DEF q, z
<1> HIDE DEF x
<1>6. \A i \in 1..n : x[i] = a[i - ((i - 1) % 2)]
  BY <1>4, <1>5
<1>7. \A i \in 1..n : a[i - ((i - 1) % 2)] \in S
  BY <1>5
<1>8. x \in [1..n -> S]
  BY <1>4, <1>6, <1>7
<1> QED  BY <1>2, <1>6, <1>8 DEF x, FecReduction

-----------------------------------------------------------------------------
(* What a mix sounds like *)

\* What the server reads of a client's packet.
LEMMA UplinkRead ==
  ASSUME NEW c, NEW signal
  PROVE  /\ Uplink(c, signal).signal = signal
         /\ Uplink(c, signal).setup = ChannelSetup(FALSE, setups[c].targets)
<1> DEFINE b == AudioBlock(Latest(c) + 1, 0, signal, setups[c], <<>>)
           v == IF c \in LegacyClients THEN Legacy ELSE Current
<1>1. Uplink(c, signal) = deserialize(serialize(AudioData(b, <<>>, v, {}))).block
  BY DEF Uplink, NewAudioData
<1>3. b.signal = signal /\ b.setup = setups[c]
  BY DEF AudioBlock
<1> HIDE DEF b, v
<1>4. Uplink(c, signal) = readAudioHeaderAndBytes(serializeAudioBlock(b, 1))
  BY <1>1, AudioArrivesAlone
<1>5. /\ readAudioHeaderAndBytes(serializeAudioBlock(b, 1)).signal = b.signal
      /\ readAudioHeaderAndBytes(serializeAudioBlock(b, 1)).setup
           = ChannelSetup(FALSE, b.setup.targets)
  BY BlockArrives
<1> QED  BY <1>3, <1>4, <1>5

\* Which channel of a packet goes where in the mix.
LEMMA HeardInMix ==
  ASSUME NEW packets, NEW c, NEW d \in DOMAIN packets,
         NEW i \in DOMAIN packets[d].setup.targets, NEW s
  PROVE  [from |-> d, channel |-> i, side |-> s] \in Heard(packets, c) <=>
           s \in Sides(packets[d].setup.targets[i], d = c, ~packets[d].setup.localMonitoring)
<1> DEFINE Of(e, j) == {[from |-> e, channel |-> j, side |-> z] :
                          z \in Sides(packets[e].setup.targets[j], e = c,
                                      ~packets[e].setup.localMonitoring)}
           h == [from |-> d, channel |-> i, side |-> s]
<1>1. Heard(packets, c) = UNION {UNION {Of(e, j) : j \in DOMAIN packets[e].setup.targets} :
                                 e \in DOMAIN packets}
  BY DEF Heard
<1>2. \A e, j : h \in Of(e, j) <=> e = d /\ j = i /\ s \in Sides(packets[e].setup.targets[j], e = c,
                                      ~packets[e].setup.localMonitoring)
  OBVIOUS
<1> HIDE DEF Of, h
<1>3. h \in Heard(packets, c) <=>
        \E e \in DOMAIN packets : \E j \in DOMAIN packets[e].setup.targets : h \in Of(e, j)
  BY <1>1
<1>4. h \in Heard(packets, c) <=> s \in Sides(packets[d].setup.targets[i], d = c, ~packets[d].setup.localMonitoring)
  BY <1>2, <1>3
<1> QED  BY <1>4 DEF h

\* The sides of a channel of a setup that asks for the echo.
LEMMA SidesOfTarget ==
  ASSUME NEW target \in ChannelTargets, NEW own \in BOOLEAN, NEW s \in {"l", "r"}
  PROVE  s \in Sides(target, own, ~FALSE) <=>
           /\ target \in {"mono", "sendMono"} \cup
                (IF s = "l" THEN {"left", "sendLeft"} ELSE {"right", "sendRight"})
           /\ own => target \in {"left", "right", "mono"}
BY DEF Sides, ChannelTargets

\* What a client monitors itself: a channel that is to be heard, on its side.
LEMMA LocalSides ==
  ASSUME NEW setup, NEW i \in DOMAIN setup.targets, NEW s \in {"l", "r"},
         setup.targets[i] \in ChannelTargets,
         [channel |-> i, side |-> s] \in LocallyHeard(setup)
  PROVE  /\ setup.targets[i] \in {"mono", "sendMono"} \cup
              (IF s = "l" THEN {"left", "sendLeft"} ELSE {"right", "sendRight"})
         /\ setup.targets[i] \in {"left", "right", "mono"}
<1> DEFINE On(t) == CASE t = "left" -> {"l"} [] t = "right" -> {"r"} [] t = "mono" -> {"l", "r"}
                      [] OTHER -> {}
           Of(j) == {[channel |-> j, side |-> z] : z \in On(setup.targets[j])}
           h == [channel |-> i, side |-> s]
<1>1. h \in UNION {Of(j) : j \in DOMAIN setup.targets}
  BY DEF LocallyHeard
<1>2. \A j : h \in Of(j) => j = i /\ s \in On(setup.targets[j])
  OBVIOUS
<1> HIDE DEF Of, h
<1>3. PICK j \in DOMAIN setup.targets : h \in Of(j)
  BY <1>1
<1>4. s \in On(setup.targets[i])
  BY <1>2, <1>3
<1> QED  BY <1>4 DEF ChannelTargets

\* A channel setup is what a user configures.
SetupsInv == setups \in [Clients -> ChannelSetups]

\* No mix to compare: every step but a mix clears the history.
LEMMA NoMixMatches ==
  ASSUME lastMix' = NoMix
  PROVE  NobodyIsMissed'
<1>1. NoMix.packets = <<>> /\ NoMix.signal = "none" /\ DOMAIN <<>> = {}
  BY DEF NoMix
<1> QED  BY <1>1 DEF NobodyIsMissed

\* ServerMixerCore::mix, with what the client monitors itself, lets every channel be
\* heard where it should be, and combines the signals.
LEMMA MixMatches ==
  ASSUME SetupsInv, Mix
  PROVE  NobodyIsMissed'
<1>1. PICK mixed \in SUBSET Clients \ {{}} :
        \E signals \in [mixed -> Signals], skips \in [mixed -> 0..1], order \in InOrder(mixed) :
          MixOf(mixed, signals, skips, order)
  BY DEF Mix
<1>2. PICK signals \in [mixed -> Signals], skips \in [mixed -> 0..1], order \in InOrder(mixed) :
        MixOf(mixed, signals, skips, order)
  BY <1>1
<1> DEFINE packets == [c \in mixed |-> Uplink(c, signals[c])]
           sent == [c \in mixed |-> [setup |-> setups[c], signal |-> signals[c]]]
           heard == [c \in mixed |-> Heard(packets, c)]
<1>3. lastMix'.packets = sent /\ lastMix'.signal = MixedSignal(packets, order) /\ lastMix'.heard = heard
  <2> HIDE DEF packets, heard, sent
  <2>1. lastMix' = [packets |-> sent, signal |-> MixedSignal(packets, order), heard |-> heard]
    BY <1>2 DEF MixOf, packets, heard, sent
  <2> QED  BY <2>1
<1>4. \A c \in mixed : /\ packets[c].signal = signals[c]
                       /\ packets[c].setup = ChannelSetup(FALSE, setups[c].targets)
                       /\ sent[c].setup = setups[c] /\ sent[c].signal = signals[c]
  BY UplinkRead
<1>5. DOMAIN packets = mixed /\ DOMAIN sent = mixed /\ \A c \in mixed : heard[c] = Heard(packets, c)
  OBVIOUS
<1> HIDE DEF packets, sent, heard
<1>6. lastMix'.signal = IF \E c \in mixed : signals[c] = "stop" THEN "stop"
                        ELSE IF \E c \in mixed : signals[c] = "start" THEN "start" ELSE "none"
  <2>1. /\ order \in Seq(mixed)
        /\ \A i \in 1..Len(order) : order[i] \in mixed
        /\ \A c \in mixed : \E i \in 1..Len(order) : order[i] = c
    BY OrderListsAll
  <2>2. MixedSignal(packets, order) =
          IF \E i \in 1..Len(order) : packets[order[i]].signal = "stop" THEN "stop"
          ELSE IF \E i \in 1..Len(order) : packets[order[i]].signal = "start" THEN "start" ELSE "none"
    BY <2>1, SignalOfMix
  <2>3. \A s : (\E i \in 1..Len(order) : packets[order[i]].signal = s) <=> \E c \in mixed : signals[c] = s
    <3>1. \A i \in 1..Len(order) : packets[order[i]].signal = signals[order[i]]
      BY <1>4, <2>1
    <3> QED  BY <2>1, <3>1
  <2> QED  BY <1>3, <2>2, <2>3
<1>7. ASSUME NEW c \in mixed, NEW d \in mixed, NEW i \in DOMAIN setups[d].targets, NEW s \in {"l", "r"}
      PROVE  [from |-> d, channel |-> i, side |-> s] \in heard[c] <=>
               /\ setups[d].targets[i] \in {"mono", "sendMono"} \cup
                     (IF s = "l" THEN {"left", "sendLeft"} ELSE {"right", "sendRight"})
               /\ c = d => setups[d].targets[i] \in {"left", "right", "mono"}
  <2>1. packets[d].setup.targets = setups[d].targets /\ packets[d].setup.localMonitoring = FALSE
    <3> DEFINE t == setups[d].targets
    <3>1. ChannelSetup(FALSE, t).targets = t
      BY DEF ChannelSetup
    <3>2. ChannelSetup(FALSE, t).localMonitoring = FALSE
      BY Zenon DEF ChannelSetup
    <3> QED  BY <1>4, <3>1, <3>2
  <2>2. setups[d].targets \in Seq(ChannelTargets)
    BY SessionAssumption DEF SetupsInv
  <2>3. setups[d].targets[i] \in ChannelTargets
    BY <2>2
  <2>4. [from |-> d, channel |-> i, side |-> s] \in Heard(packets, c) <=>
           s \in Sides(setups[d].targets[i], d = c, ~FALSE)
    BY <1>5, <2>1, HeardInMix
  <2>5. (d = c) \in BOOLEAN
    OBVIOUS
  <2> DEFINE own == d = c
  <2>6. own \in BOOLEAN /\ (own <=> c = d)
    OBVIOUS
  <2>7. s \in Sides(setups[d].targets[i], own, ~FALSE) <=>
               /\ setups[d].targets[i] \in {"mono", "sendMono"} \cup
                     (IF s = "l" THEN {"left", "sendLeft"} ELSE {"right", "sendRight"})
               /\ own => setups[d].targets[i] \in {"left", "right", "mono"}
    <3> HIDE DEF own
    <3> QED  BY <2>3, <2>6, SidesOfTarget
  <2> QED  BY <1>5, <2>4, <2>6, <2>7
<1>8. \A s : (\E c \in mixed : sent[c].signal = s) <=> \E c \in mixed : signals[c] = s
  BY <1>4
<1>9. lastMix'.signal = IF \E c \in DOMAIN sent : sent[c].signal = "stop" THEN "stop"
                        ELSE IF \E c \in DOMAIN sent : sent[c].signal = "start" THEN "start" ELSE "none"
  BY <1>5, <1>6, <1>8
<1>10. ASSUME NEW c \in DOMAIN sent, NEW d \in DOMAIN sent,
              NEW i \in DOMAIN sent[d].setup.targets, NEW s \in {"l", "r"}
       PROVE  [from |-> d, channel |-> i, side |-> s] \in heard[c] <=>
                /\ sent[d].setup.targets[i] \in {"mono", "sendMono"} \cup
                     (IF s = "l" THEN {"left", "sendLeft"} ELSE {"right", "sendRight"})
                /\ c = d => sent[d].setup.targets[i] \in {"left", "right", "mono"}
  <2>1. c \in mixed /\ d \in mixed /\ sent[d].setup = setups[d]
    BY <1>4, <1>5
  <2> QED  BY <1>7, <2>1
<1>11. ASSUME NEW c \in DOMAIN sent, NEW d \in DOMAIN sent,
              NEW i \in DOMAIN sent[d].setup.targets, NEW s \in {"l", "r"},
              c = d, [channel |-> i, side |-> s] \in LocallyHeard(sent[d].setup)
       PROVE  /\ sent[d].setup.targets[i] \in {"mono", "sendMono"} \cup
                   (IF s = "l" THEN {"left", "sendLeft"} ELSE {"right", "sendRight"})
              /\ sent[d].setup.targets[i] \in {"left", "right", "mono"}
  <2>1. d \in mixed /\ sent[d].setup = setups[d]
    BY <1>4, <1>5
  <2>2. setups[d].targets \in Seq(ChannelTargets)
    BY <2>1, SessionAssumption DEF SetupsInv
  <2>3. setups[d].targets[i] \in ChannelTargets
    BY <2>1, <2>2
  <2> QED  BY <1>11, <2>1, <2>3, LocalSides
<1> QED  BY <1>3, <1>9, <1>10, <1>11 DEF NobodyIsMissed

\* Whatever the clients send, whatever their setups and the order of their addresses:
\* in the mix and in the local monitoring together, everybody hears each channel on the
\* sides it is meant for and nowhere else, and a Stop beats every Start
\* (ServerMixerCore::mix and bufferMixdown, on packets that crossed the network, and
\* calcLocalMonitoring).
THEOREM EverybodyIsHeard == SessionMixSpec => []NobodyIsMissed
<1> DEFINE I == SetupsInv /\ NobodyIsMissed
<1>1. SessionMixInit => I
  <2> SUFFICES ASSUME SessionMixInit PROVE I
    OBVIOUS
  <2>1. NoMix.packets = <<>> /\ NoMix.signal = "none" /\ DOMAIN <<>> = {}
    BY DEF NoMix
  <2>2. lastMix = NoMix /\ SetupsInv
    BY DEF SessionMixInit, SetupsInv
  <2> QED  BY <2>1, <2>2 DEF NobodyIsMissed
<1>2. I /\ [SessionMixNext]_sessionMixVars => I'
  <2> SUFFICES ASSUME I, [SessionMixNext]_sessionMixVars PROVE I'
    OBVIOUS
  <2>1. CASE Mix
    <3>1. setups' = setups
      BY <2>1 DEF Mix
    <3> QED  BY <2>1, <3>1, MixMatches DEF SetupsInv
  <2>2. CASE SendNext
    BY <2>2, NoMixMatches DEF SendNext, SetupsInv
  <2>3. CASE ChangeSetup
    <3>1. lastMix' = NoMix /\ \E c \in Clients, setup \in ChannelSetups : setups' = [setups EXCEPT ![c] = setup]
      BY <2>3 DEF ChangeSetup
    <3> QED  BY <3>1, NoMixMatches DEF SetupsInv
  <2>4. CASE SetUseFEC
    BY <2>4, NoMixMatches DEF SetUseFEC, SetupsInv
  <2>5. CASE UNCHANGED sessionMixVars
    BY <2>5 DEF sessionMixVars, SetupsInv, NobodyIsMissed
  <2> QED  BY <2>1, <2>2, <2>3, <2>4, <2>5 DEF SessionMixNext
<1> QED  BY <1>1, <1>2, PTL DEF SessionMixSpec

-----------------------------------------------------------------------------
(* The packages of a mix *)

\* What the proofs need of the data: blocks of the mixdown, the channels of the others,
\* and the packages that SendThread takes.
MixdownSetup == ChannelSetup(FALSE, <<"left", "right">>)
Samples == {<<>>} \cup (Clients \X Nat \X Nat)
Blocks == [counter : Nat, time : Nat, signal : Signals, setup : {MixdownSetup},
           audio : [1..BlockSamples -> Samples]]
Rosters == SUBSET [client : Clients, targets : Seq(ChannelTargets)]
Packages == [target : Clients, block : Blocks, session : Rosters]

\* The types of what the server keeps and of lostInfos.
PackagesData ==
  /\ SetupsInv /\ mixTime \in Nat /\ fec \in BOOLEAN
  /\ outgoing \in Seq(Packages) /\ produced \in [Clients -> Seq(Packages)]
  /\ packageCounters \in [Clients -> Nat] /\ lostInfos \in [Clients -> Nat]

\* The package for a client that is in the mix.
PackageFor(c, p) ==
  /\ p \in Packages /\ p.target = c
  /\ p.block.counter \in {Latest(c) + 1, Latest(c) + 2} /\ p.block.time = mixTime + 1
  /\ p.block.audio = Audio(c, p.block.counter)

\* The counter of the latest packet is a number.
LEMMA LatestType ==
  ASSUME PackagesData, NEW c \in Clients
  PROVE  Latest(c) \in Nat
<1>1. produced[c] \in Seq(Packages)
  BY DEF PackagesData
<1>2. CASE produced[c] = <<>>
  BY <1>2 DEF Latest
<1>3. CASE produced[c] # <<>>
  <2>1. produced[c][Len(produced[c])] \in Packages
    BY <1>1, <1>3
  <2> QED  BY <1>3, <2>1 DEF Latest, Packages, Blocks
<1> QED  BY <1>2, <1>3

\* The audio of a package has the length of a block.
LEMMA AudioType ==
  ASSUME NEW c \in Clients, NEW counter \in Nat
  PROVE  Audio(c, counter) \in [1..BlockSamples -> Samples]
<1>1. BlockSamples \in Nat
  BY SessionAssumption
<1>2. \A i \in 1..BlockSamples : <<c, counter, i>> \in Samples
  BY <1>1 DEF Samples
<1> QED  BY <1>2 DEF Audio

\* The session of a package lists channels of clients.
LEMMA RosterType ==
  ASSUME SetupsInv, NEW mixed \in SUBSET Clients, NEW signals, NEW c
  PROVE  SessionSetup([d \in mixed |-> Uplink(d, signals[d])], c) \in Rosters
<1> DEFINE packets == [d \in mixed |-> Uplink(d, signals[d])]
<1>1. \A d \in mixed : packets[d].setup.targets = setups[d].targets
  <2>1. \A t : ChannelSetup(FALSE, t).targets = t
    BY DEF ChannelSetup
  <2>2. \A d \in mixed : packets[d].setup = ChannelSetup(FALSE, setups[d].targets)
    BY UplinkRead
  <2> QED  BY <2>1, <2>2
<1>2. \A d \in mixed : setups[d].targets \in Seq(ChannelTargets)
  BY SessionAssumption DEF SetupsInv
<1>3. DOMAIN packets = mixed
  OBVIOUS
<1> HIDE DEF packets
<1>4. \A d \in mixed : [client |-> d, targets |-> packets[d].setup.targets]
                         \in [client : Clients, targets : Seq(ChannelTargets)]
  BY <1>1, <1>2
<1>5. SessionSetup(packets, c) \in Rosters
  BY <1>3, <1>4 DEF SessionSetup, Rosters
<1> QED  BY <1>5 DEF packets

\* The package made for a client in a mix: the next counter or the one after it, and
\* the time of the mix.
LEMMA PackageType ==
  ASSUME PackagesData, NEW mixed \in SUBSET Clients, NEW c \in mixed, NEW skip \in 0..1,
         NEW signals \in [mixed -> Signals], NEW order \in InOrder(mixed)
  PROVE  PackageFor(c, Package([d \in mixed |-> Uplink(d, signals[d])], order, c,
                               Latest(c) + 1 + skip))
<1> DEFINE packets == [d \in mixed |-> Uplink(d, signals[d])]
           counter == Latest(c) + 1 + skip
           signal == MixedSignal(packets, order)
           b == AudioBlock(counter, mixTime + 1, signal, MixdownSetup, Audio(c, counter))
           r == SessionSetup(packets, c)
           p == Package(packets, order, c, counter)
<1>1. counter \in Nat /\ counter \in {Latest(c) + 1, Latest(c) + 2} /\ mixTime + 1 \in Nat
  BY LatestType DEF PackagesData
<1>2. r \in Rosters
  BY RosterType DEF PackagesData
<1>3. signal \in Signals
  <2>1. order \in Seq(mixed)
    BY OrderListsAll
  <2> HIDE DEF packets
  <2>2. signal \in {"stop", "start", "none"}
    BY <2>1, SignalOfMix
  <2> QED  BY <2>2 DEF Signals
<1>4. Audio(c, counter) \in [1..BlockSamples -> Samples]
  BY <1>1, AudioType
<1> HIDE DEF packets, counter, signal, r
<1>5. /\ b \in Blocks /\ b.counter = counter /\ b.time = mixTime + 1
      /\ b.audio = Audio(c, counter)
  BY <1>1, <1>3, <1>4 DEF AudioBlock, Blocks
<1>6. p = [target |-> c, block |-> b, session |-> r]
  BY DEF Package, MixdownSetup, signal, r
<1> HIDE DEF b, p
<1>7. PackageFor(c, p)
  <2>1. p \in Packages /\ p.target = c /\ p.block = b
    BY <1>2, <1>5, <1>6 DEF Packages
  <2> QED  BY <1>1, <1>5, <2>1 DEF PackageFor
<1> QED  BY <1>7 DEF p, packets, counter

\* What a mix does, for the packages and the queue.
Mixing(mixed, order, package) ==
  /\ \A i, j \in 1..Len(order) : order[i] = order[j] => i = j
  /\ \A c \in mixed : \E i \in 1..Len(order) : order[i] = c
  /\ \A c \in mixed : PackageFor(c, package[c])
  /\ outgoing' = outgoing \o [i \in 1..Len(order) |-> package[order[i]]]
  /\ produced' = [c \in Clients |-> IF c \in mixed THEN Append(produced[c], package[c])
                                    ELSE produced[c]]
  /\ mixTime' = mixTime + 1
  /\ UNCHANGED <<setups, fec, fecData, packageCounters, heardVars>>

\* Every mix is of that form.
LEMMA MixEffect ==
  ASSUME PackagesData, Mix
  PROVE  \E mixed \in SUBSET Clients : \E order \in Seq(mixed), package \in [mixed -> Packages] :
           Mixing(mixed, order, package)
<1>1. PICK mixed \in SUBSET Clients \ {{}} :
        \E signals \in [mixed -> Signals], skips \in [mixed -> 0..1], order \in InOrder(mixed) :
          MixOf(mixed, signals, skips, order)
  BY DEF Mix
<1>2. PICK signals \in [mixed -> Signals], skips \in [mixed -> 0..1], order \in InOrder(mixed) :
        MixOf(mixed, signals, skips, order)
  BY <1>1
<1>3. mixTime' = mixTime + 1 /\ UNCHANGED <<setups, fec, fecData, packageCounters, heardVars>>
  BY DEF Mix
<1> DEFINE packets == [c \in mixed |-> Uplink(c, signals[c])]
           package == [c \in mixed |-> Package(packets, order, c, Latest(c) + 1 + skips[c])]
<1>4. ASSUME NEW c \in mixed PROVE PackageFor(c, package[c])
  <2>1. package[c] = Package(packets, order, c, Latest(c) + 1 + skips[c])
    OBVIOUS
  <2>2. skips[c] \in 0..1
    OBVIOUS
  <2> QED  BY <2>1, <2>2, PackageType
<1>5. /\ outgoing' = outgoing \o [i \in DOMAIN order |-> package[order[i]]]
      /\ produced' = [c \in Clients |-> IF c \in mixed THEN Append(produced[c], package[c])
                                        ELSE produced[c]]
  BY <1>2 DEF MixOf
<1>6. /\ order \in Seq(mixed) /\ DOMAIN order = 1..Len(order)
      /\ \A i, j \in 1..Len(order) : order[i] = order[j] => i = j
      /\ \A c \in mixed : \E i \in 1..Len(order) : order[i] = c
  BY OrderListsAll
<1> HIDE DEF package, packets
<1>7. Mixing(mixed, order, package)
  BY <1>3, <1>4, <1>5, <1>6 DEF Mixing
<1>8. package \in [mixed -> Packages]
  BY <1>4 DEF PackageFor, package
<1> QED  BY <1>6, <1>7, <1>8

\* A sequence behind another.
LEMMA Extended ==
  ASSUME NEW S, NEW s \in Seq(S), NEW n \in Nat, NEW f \in [1..n -> S]
  PROVE  LET t == s \o f
         IN  /\ t \in Seq(S) /\ Len(t) = Len(s) + n
             /\ \A k \in 1..Len(s) : t[k] = s[k]
             /\ \A i \in 1..n : t[Len(s) + i] = f[i]
<1>1. f \in Seq(S) /\ Len(f) = n
  OBVIOUS
<1> QED  BY <1>1

\* The queue and the packages after a mix.
LEMMA AfterMix ==
  ASSUME PackagesData, NEW mixed \in SUBSET Clients, NEW order \in Seq(mixed),
         NEW package \in [mixed -> Packages], Mixing(mixed, order, package)
  PROVE  /\ PackagesData'
         /\ Len(outgoing') = Len(outgoing) + Len(order) /\ Len(order) \in Nat
         /\ \A k \in 1..Len(outgoing) : outgoing'[k] = outgoing[k]
         /\ \A i \in 1..Len(order) : /\ order[i] \in mixed
                                     /\ outgoing'[Len(outgoing) + i] = package[order[i]]
         /\ \A c \in Clients :
              /\ \A i \in 1..Len(produced[c]) : produced'[c][i] = produced[c][i]
              /\ c \in mixed => /\ Len(produced'[c]) = Len(produced[c]) + 1
                                /\ produced'[c][Len(produced[c]) + 1] = package[c]
              /\ c \notin mixed => produced'[c] = produced[c] /\ Latest(c)' = Latest(c)
<1> DEFINE n == Len(order)
           f == [i \in 1..n |-> package[order[i]]]
<1>1. /\ outgoing \in Seq(Packages) /\ produced \in [Clients -> Seq(Packages)]
      /\ \A c \in mixed : package[c] \in Packages
      /\ n \in Nat /\ \A i \in 1..n : order[i] \in mixed
  BY DEF PackagesData, Mixing, PackageFor
<1>2. f \in [1..n -> Packages] /\ outgoing' = outgoing \o f
  BY <1>1 DEF Mixing
<1>3. \A i \in 1..n : f[i] = package[order[i]]
  OBVIOUS
<1>4. /\ outgoing' \in Seq(Packages) /\ Len(outgoing') = Len(outgoing) + n
      /\ \A k \in 1..Len(outgoing) : outgoing'[k] = outgoing[k]
      /\ \A i \in 1..n : outgoing'[Len(outgoing) + i] = package[order[i]]
  <2> HIDE DEF f, n
  <2>1. LET t == outgoing \o f
        IN  /\ t \in Seq(Packages) /\ Len(t) = Len(outgoing) + n
            /\ \A k \in 1..Len(outgoing) : t[k] = outgoing[k]
            /\ \A i \in 1..n : t[Len(outgoing) + i] = f[i]
    BY <1>1, <1>2, Extended
  <2> QED  BY <1>2, <1>3, <2>1
<1>5. ASSUME NEW c \in Clients
      PROVE  /\ produced'[c] \in Seq(Packages)
             /\ \A i \in 1..Len(produced[c]) : produced'[c][i] = produced[c][i]
             /\ c \in mixed => /\ Len(produced'[c]) = Len(produced[c]) + 1
                               /\ produced'[c][Len(produced[c]) + 1] = package[c]
                               /\ Latest(c)' = package[c].block.counter
             /\ c \notin mixed => produced'[c] = produced[c] /\ Latest(c)' = Latest(c)
  <2>1. produced'[c] = IF c \in mixed THEN Append(produced[c], package[c]) ELSE produced[c]
    BY DEF Mixing
  <2>2. produced[c] \in Seq(Packages)
    BY <1>1
  <2>3. CASE c \in mixed
    <3> DEFINE s == produced[c]
               t == produced'[c]
    <3>1. t = Append(s, package[c]) /\ package[c] \in Packages
      BY <1>1, <2>1, <2>3
    <3>2. /\ t \in Seq(Packages) /\ Len(t) = Len(s) + 1 /\ t[Len(s) + 1] = package[c]
          /\ \A i \in 1..Len(s) : t[i] = s[i]
      <4> HIDE DEF s, t
      <4>1. s \in Seq(Packages)
        BY <2>2 DEF s
      <4> QED  BY <3>1, <4>1
    <3>3. t # <<>>
      <4> HIDE DEF s, t
      <4>1. s \in Seq(Packages)
        BY <2>2 DEF s
      <4> QED  BY <3>1, <4>1
    <3>4. Latest(c)' = t[Len(t)].block.counter
      BY <3>3 DEF Latest
    <3> QED  BY <2>3, <3>2, <3>4
  <2>4. CASE c \notin mixed
    BY <2>1, <2>2, <2>4 DEF Latest
  <2> QED  BY <2>3, <2>4
<1>6. PackagesData'
  <2>1. produced' \in [Clients -> Seq(Packages)]
    BY <1>5 DEF Mixing
  <2>2. /\ mixTime' \in Nat /\ setups' = setups /\ fec' = fec /\ packageCounters' = packageCounters
        /\ lostInfos' = lostInfos
    BY DEF Mixing, PackagesData, heardVars
  <2> QED  BY <1>4, <2>1, <2>2 DEF PackagesData, SetupsInv
<1> QED  BY <1>1, <1>4, <1>5, <1>6

\* The latest counter of a client in the mix is that of its new package.
LEMMA LatestAfterMix ==
  ASSUME PackagesData, NEW mixed \in SUBSET Clients, NEW order \in Seq(mixed),
         NEW package \in [mixed -> Packages], Mixing(mixed, order, package), NEW c \in mixed
  PROVE  Latest(c)' = package[c].block.counter
<1>1. produced[c] \in Seq(Packages) /\ produced'[c] \in Seq(Packages)
  BY AfterMix DEF PackagesData
<1>2. /\ Len(produced'[c]) = Len(produced[c]) + 1
      /\ produced'[c][Len(produced[c]) + 1] = package[c]
  BY AfterMix
<1>3. produced'[c] # <<>> /\ produced'[c][Len(produced'[c])] = package[c]
  BY <1>1, <1>2
<1> QED  BY <1>3 DEF Latest

\* The packages of a client: counters and times increase by at least one.
Produced(c) ==
  LET s == produced[c]
  IN  /\ Latest(c) >= Len(s) /\ mixTime >= Len(s)
      /\ \A i \in 1..Len(s) :
           /\ s[i].target = c /\ s[i].block.audio = Audio(c, s[i].block.counter)
           /\ s[i].block.counter >= i /\ Latest(c) - s[i].block.counter >= Len(s) - i
           /\ s[i].block.time >= i /\ mixTime - s[i].block.time >= Len(s) - i
      /\ \A i, j \in 1..Len(s) : i < j => s[i].block.counter < s[j].block.counter

\* Of all clients.
ProducedInv == \A c \in Clients : Produced(c)

\* The fields of a package.
LEMMA BlockFields ==
  ASSUME NEW p \in Packages
  PROVE  p.target \in Clients /\ p.block.counter \in Nat /\ p.block.time \in Nat /\ p.block \in Blocks
BY DEF Packages, Blocks

\* A mix keeps counters and times increasing.
LEMMA MixProduced ==
  ASSUME PackagesData, ProducedInv, NEW mixed \in SUBSET Clients, NEW order \in Seq(mixed),
         NEW package \in [mixed -> Packages], Mixing(mixed, order, package)
  PROVE  ProducedInv'
<1> SUFFICES ASSUME NEW c \in Clients PROVE Produced(c)'
  BY DEF ProducedInv
<1> DEFINE s == produced[c]
           t == produced'[c]
           l == Latest(c)
           k == Latest(c)'
<1>1. Produced(c) /\ s \in Seq(Packages) /\ mixTime \in Nat /\ mixTime' = mixTime + 1 /\ l \in Nat
  BY LatestType DEF ProducedInv, PackagesData, Mixing
<1>2. /\ \A i \in 1..Len(s) : t[i] = s[i]
      /\ c \in mixed => /\ Len(t) = Len(s) + 1 /\ t[Len(s) + 1] = package[c]
                        /\ k = package[c].block.counter
      /\ c \notin mixed => t = s /\ k = l
  BY AfterMix, LatestAfterMix, ZenonT(60)
<1>3. /\ Len(s) \in Nat
      /\ \A i \in 1..Len(s) : s[i].block.counter \in Nat /\ s[i].block.time \in Nat
  BY <1>1, BlockFields
<1>4. /\ l >= Len(s) /\ mixTime >= Len(s)
      /\ \A i \in 1..Len(s) :
           /\ s[i].target = c /\ s[i].block.audio = Audio(c, s[i].block.counter)
           /\ s[i].block.counter >= i /\ l - s[i].block.counter >= Len(s) - i
           /\ s[i].block.time >= i /\ mixTime - s[i].block.time >= Len(s) - i
      /\ \A i, j \in 1..Len(s) : i < j => s[i].block.counter < s[j].block.counter
  BY <1>1 DEF Produced
<1> SUFFICES
      /\ k >= Len(t) /\ mixTime' >= Len(t)
      /\ \A i \in 1..Len(t) :
           /\ t[i].target = c /\ t[i].block.audio = Audio(c, t[i].block.counter)
           /\ t[i].block.counter >= i /\ k - t[i].block.counter >= Len(t) - i
           /\ t[i].block.time >= i /\ mixTime' - t[i].block.time >= Len(t) - i
      /\ \A i, j \in 1..Len(t) : i < j => t[i].block.counter < t[j].block.counter
  BY DEF Produced
<1> HIDE DEF s, t, l, k
<1>5. CASE c \notin mixed
  BY <1>1, <1>2, <1>3, <1>4, <1>5
<1>6. CASE c \in mixed
  <2> DEFINE p == package[c]
             n == Len(s)
  <2>1. /\ p.target = c /\ p.block.audio = Audio(c, p.block.counter)
        /\ p.block.counter \in {l + 1, l + 2} /\ p.block.time = mixTime + 1
    BY <1>6 DEF Mixing, PackageFor, l
  <2>2. /\ Len(t) = n + 1 /\ t[n + 1] = p /\ k = p.block.counter
        /\ \A i \in 1..(n + 1) : i = n + 1 \/ (i \in 1..n /\ t[i] = s[i])
    BY <1>2, <1>3, <1>6
  <2> HIDE DEF p, n
  <2>3. n \in Nat /\ k \in Nat /\ k > l /\ mixTime' >= n + 1 /\ k >= n + 1
    BY <1>1, <1>3, <1>4, <2>1, <2>2 DEF n
  <2>4. ASSUME NEW i \in 1..(n + 1)
        PROVE  /\ t[i].target = c /\ t[i].block.audio = Audio(c, t[i].block.counter)
               /\ t[i].block.counter >= i /\ k - t[i].block.counter >= (n + 1) - i
               /\ t[i].block.time >= i /\ mixTime' - t[i].block.time >= (n + 1) - i
    <3>1. CASE i = n + 1
      BY <1>1, <1>4, <2>1, <2>2, <2>3, <3>1 DEF n
    <3>2. CASE i \in 1..n /\ t[i] = s[i]
      <4>1. /\ s[i].target = c /\ s[i].block.audio = Audio(c, s[i].block.counter)
            /\ s[i].block.counter >= i /\ l - s[i].block.counter >= n - i
            /\ s[i].block.time >= i /\ mixTime - s[i].block.time >= n - i
            /\ s[i].block.counter \in Nat /\ s[i].block.time \in Nat
        BY <1>3, <1>4, <3>2 DEF n
      <4>2. k - s[i].block.counter >= (n + 1) - i /\ mixTime' - s[i].block.time >= (n + 1) - i
        <5> DEFINE x == s[i].block.counter
                   y == s[i].block.time
        <5>1. x \in Nat /\ y \in Nat /\ l - x >= n - i /\ mixTime - y >= n - i
          BY <4>1
        <5>2. k \in Nat /\ l \in Nat /\ k >= l + 1 /\ n \in Nat /\ i \in Nat /\ mixTime \in Nat
              /\ mixTime' = mixTime + 1
          BY <1>1, <2>3
        <5> HIDE DEF x, y
        <5>3. k - x >= (n + 1) - i /\ mixTime' - y >= (n + 1) - i
          BY <5>1, <5>2
        <5> QED  BY <5>3 DEF x, y
      <4> QED  BY <3>2, <4>1, <4>2
    <3> QED  BY <2>2, <3>1, <3>2
  <2>5. ASSUME NEW i \in 1..(n + 1), NEW j \in 1..(n + 1), i < j
        PROVE  t[i].block.counter < t[j].block.counter
    <3>1. i \in 1..n /\ t[i] = s[i]
      BY <2>2, <2>3, <2>5
    <3>2. CASE j = n + 1
      <4> DEFINE x == s[i].block.counter
      <4>1. x \in Nat /\ l \in Nat /\ l - x >= n - i
        BY <1>1, <1>3, <1>4, <3>1 DEF n
      <4>2. t[i].block.counter = x /\ t[j].block.counter = k
        BY <2>2, <3>1, <3>2
      <4> HIDE DEF x
      <4>3. x < k
        BY <2>3, <3>1, <4>1
      <4> QED  BY <4>2, <4>3
    <3>3. CASE j \in 1..n /\ t[j] = s[j]
      BY <1>4, <2>5, <3>1, <3>3 DEF n
    <3> QED  BY <2>2, <3>2, <3>3
  <2> QED  BY <2>2, <2>3, <2>4, <2>5
<1> QED  BY <1>5, <1>6

-----------------------------------------------------------------------------
(* The queue between MixerThread and SendThread *)

\* What waits in the queue is what was produced and not sent yet; the packages for
\* a client are in order.
WaitingInv ==
  /\ \A c \in Clients : packageCounters[c] <= Len(produced[c])
  /\ \A k \in 1..Len(outgoing) : \E i \in 1..Len(produced[outgoing[k].target]) :
       /\ i > packageCounters[outgoing[k].target]
       /\ outgoing[k] = produced[outgoing[k].target][i]
  /\ \A c \in Clients : \A i \in 1..Len(produced[c]) :
       i > packageCounters[c] => \E k \in 1..Len(outgoing) : outgoing[k] = produced[c][i]
  /\ \A j, k \in 1..Len(outgoing) :
       j < k /\ outgoing[j].target = outgoing[k].target =>
         outgoing[j].block.counter < outgoing[k].block.counter

\* A mix appends one package for every client in it, newer than all that wait.
LEMMA MixWaiting ==
  ASSUME PackagesData, ProducedInv, WaitingInv,
         NEW mixed \in SUBSET Clients, NEW order \in Seq(mixed),
         NEW package \in [mixed -> Packages], Mixing(mixed, order, package)
  PROVE  WaitingInv'
<1> DEFINE m == Len(outgoing)
           n == Len(order)
<1>1. /\ m \in Nat /\ n \in Nat /\ Len(outgoing') = m + n
      /\ \A k \in 1..m : outgoing'[k] = outgoing[k] /\ outgoing[k].target \in Clients
      /\ \A i \in 1..n : order[i] \in mixed /\ outgoing'[m + i] = package[order[i]]
  <2>1. /\ Len(outgoing') = m + n
        /\ \A k \in 1..m : outgoing'[k] = outgoing[k]
        /\ \A i \in 1..n : outgoing'[m + i] = package[order[i]]
    BY AfterMix, ZenonT(60)
  <2>2. m \in Nat /\ n \in Nat /\ \A k \in 1..m : outgoing[k] \in Packages
    BY DEF PackagesData
  <2> QED  BY <2>1, <2>2, BlockFields
<1>2. \A k \in 1..(m + n) : k \in 1..m \/ \E i \in 1..n : k = m + i
  <2> SUFFICES ASSUME NEW k \in 1..(m + n), k \notin 1..m PROVE \E i \in 1..n : k = m + i
    OBVIOUS
  <2>1. k - m \in 1..n /\ k = m + (k - m)
    BY <1>1
  <2> QED  BY <2>1
<1>3. /\ packageCounters' = packageCounters
      /\ \A c \in Clients : packageCounters[c] \in Nat /\ Len(produced[c]) \in Nat
      /\ \A c \in mixed : /\ package[c].target = c /\ package[c].block.counter \in Nat
                          /\ package[c].block.counter > Latest(c)
      /\ \A c \in Clients : Latest(c) \in Nat
  <2>1. /\ packageCounters' = packageCounters /\ \A c \in Clients : Latest(c) \in Nat
        /\ \A c \in Clients : packageCounters[c] \in Nat /\ Len(produced[c]) \in Nat
    BY LatestType DEF Mixing, PackagesData
  <2>2. ASSUME NEW c \in mixed
        PROVE  /\ package[c].target = c /\ package[c].block.counter \in Nat
               /\ package[c].block.counter > Latest(c)
    <3>1. PackageFor(c, package[c]) /\ Latest(c) \in Nat
      BY <2>1 DEF Mixing
    <3> QED  BY <3>1, BlockFields DEF PackageFor
  <2> QED  BY <2>1, <2>2
<1>4. \A c \in Clients :
        /\ \A i \in 1..Len(produced[c]) : produced'[c][i] = produced[c][i]
        /\ c \in mixed => /\ Len(produced'[c]) = Len(produced[c]) + 1
                          /\ produced'[c][Len(produced[c]) + 1] = package[c]
        /\ c \notin mixed => produced'[c] = produced[c]
  BY AfterMix
<1>5. /\ \A i, j \in 1..n : order[i] = order[j] => i = j
      /\ \A c \in mixed : \E i \in 1..n : order[i] = c
  BY DEF Mixing
<1> HIDE DEF m, n
<1>6. ASSUME NEW c \in Clients PROVE packageCounters'[c] <= Len(produced'[c])
  <2>1. packageCounters[c] <= Len(produced[c])
    BY DEF WaitingInv
  <2> QED  BY <1>3, <1>4, <2>1
<1>7. ASSUME NEW k \in 1..(m + n)
      PROVE  \E i \in 1..Len(produced'[outgoing'[k].target]) :
               /\ i > packageCounters'[outgoing'[k].target]
               /\ outgoing'[k] = produced'[outgoing'[k].target][i]
  <2>1. CASE k \in 1..m
    <3> DEFINE c == outgoing[k].target
    <3>1. c \in Clients /\ outgoing'[k] = outgoing[k]
      BY <1>1, <2>1
    <3>2. PICK i \in 1..Len(produced[c]) : i > packageCounters[c] /\ outgoing[k] = produced[c][i]
      BY <2>1 DEF WaitingInv, m
    <3> HIDE DEF c
    <3>3. i \in 1..Len(produced'[c]) /\ produced'[c][i] = produced[c][i]
      <4>1. CASE c \in mixed
        BY <1>3, <1>4, <3>1, <4>1
      <4>2. CASE c \notin mixed
        BY <1>3, <1>4, <3>1, <4>2
      <4> QED  BY <4>1, <4>2
    <3> QED  BY <1>3, <3>1, <3>2, <3>3 DEF c
  <2>2. ASSUME NEW h \in 1..n, k = m + h
        PROVE  \E i \in 1..Len(produced'[outgoing'[k].target]) :
               /\ i > packageCounters'[outgoing'[k].target]
               /\ outgoing'[k] = produced'[outgoing'[k].target][i]
    <3> DEFINE c == order[h]
    <3>1. c \in mixed /\ c \in Clients /\ outgoing'[k] = package[c] /\ package[c].target = c
      BY <1>1, <1>3, <2>2
    <3> HIDE DEF c
    <3>2. /\ Len(produced[c]) + 1 \in 1..Len(produced'[c])
          /\ produced'[c][Len(produced[c]) + 1] = package[c]
          /\ Len(produced[c]) + 1 > packageCounters[c]
      BY <1>3, <1>4, <3>1 DEF WaitingInv
    <3> QED  BY <1>3, <3>1, <3>2
  <2> QED  BY <1>2, <2>1, <2>2
<1>8. ASSUME NEW c \in Clients, NEW i \in 1..Len(produced'[c]), i > packageCounters'[c]
      PROVE  \E k \in 1..(m + n) : outgoing'[k] = produced'[c][i]
  <2>1. CASE i \in 1..Len(produced[c])
    <3>1. PICK k \in 1..m : outgoing[k] = produced[c][i]
      BY <1>3, <1>8, <2>1 DEF WaitingInv, m
    <3>2. k \in 1..(m + n) /\ outgoing'[k] = outgoing[k]
      BY <1>1
    <3> QED  BY <1>4, <2>1, <3>1, <3>2
  <2>2. CASE i \notin 1..Len(produced[c])
    <3>1. c \in mixed /\ i = Len(produced[c]) + 1
      BY <1>3, <1>4, <2>2
    <3>2. PICK h \in 1..n : order[h] = c
      BY <1>5, <3>1
    <3>3. m + h \in 1..(m + n) /\ outgoing'[m + h] = package[c]
      BY <1>1, <3>2
    <3> QED  BY <1>4, <3>1, <3>3
  <2> QED  BY <2>1, <2>2
<1>9. ASSUME NEW j \in 1..(m + n), NEW k \in 1..(m + n), j < k,
             outgoing'[j].target = outgoing'[k].target
      PROVE  outgoing'[j].block.counter < outgoing'[k].block.counter
  <2>1. CASE k \in 1..m
    <3>1. j \in 1..m
      BY <1>1, <1>9, <2>1
    <3>2. outgoing'[j] = outgoing[j] /\ outgoing'[k] = outgoing[k]
      BY <1>1, <2>1, <3>1
    <3> QED  BY <1>9, <2>1, <3>1, <3>2 DEF WaitingInv, m
  <2>2. ASSUME NEW h \in 1..n, k = m + h
        PROVE  outgoing'[j].block.counter < outgoing'[k].block.counter
    <3> DEFINE c == order[h]
    <3>1. c \in mixed /\ c \in Clients /\ outgoing'[k] = package[c] /\ package[c].target = c
      BY <1>1, <1>3, <2>2
    <3>2. CASE j \in 1..m
      <4>1. outgoing'[j] = outgoing[j] /\ outgoing[j].target = c
        BY <1>1, <1>9, <3>1, <3>2
      <4>2. PICK i \in 1..Len(produced[c]) : outgoing[j] = produced[c][i]
        <5>1. \E i \in 1..Len(produced[outgoing[j].target]) :
                outgoing[j] = produced[outgoing[j].target][i]
          BY <3>2 DEF WaitingInv, m
        <5> QED  BY <4>1, <5>1
      <4>3. produced[c][i].block.counter <= Latest(c)
        <5> HIDE DEF c
        <5>1. produced[c][i].block.counter \in Nat /\ Latest(c) - produced[c][i].block.counter >= Len(produced[c]) - i
          <6>1. produced[c] \in Seq(Packages) /\ Produced(c)
            BY <3>1 DEF PackagesData, ProducedInv
          <6> QED  BY <6>1, BlockFields DEF Produced
        <5>2. Len(produced[c]) \in Nat /\ i \in Nat /\ i <= Len(produced[c]) /\ Latest(c) \in Nat
          BY <1>3, <3>1
        <5> QED  BY <5>1, <5>2
      <4>4. produced[c][i].block.counter \in Nat
        <5>1. produced[c] \in Seq(Packages)
          BY <3>1 DEF PackagesData
        <5> QED  BY <5>1, BlockFields
      <4> HIDE DEF c
      <4> QED  BY <1>3, <3>1, <4>1, <4>2, <4>3, <4>4
    <3>3. ASSUME NEW g \in 1..n, j = m + g PROVE FALSE
      <4>1. outgoing'[j] = package[order[g]] /\ package[order[g]].target = order[g]
        BY <1>1, <1>3, <3>3
      <4>2. order[g] = order[h]
        BY <1>9, <3>1, <4>1
      <4> QED  BY <1>1, <1>5, <1>9, <2>2, <3>3, <4>2
    <3> QED  BY <1>2, <3>2, <3>3
  <2> QED  BY <1>2, <2>1, <2>2
<1> DEFINE q == Len(outgoing')
<1>10. q = m + n
  BY <1>1
<1> HIDE DEF q
<1>11. /\ \A c \in Clients : packageCounters'[c] <= Len(produced'[c])
       /\ \A k \in 1..q : \E i \in 1..Len(produced'[outgoing'[k].target]) :
            /\ i > packageCounters'[outgoing'[k].target]
            /\ outgoing'[k] = produced'[outgoing'[k].target][i]
       /\ \A c \in Clients : \A i \in 1..Len(produced'[c]) :
            i > packageCounters'[c] => \E k \in 1..q : outgoing'[k] = produced'[c][i]
       /\ \A j, k \in 1..q :
            j < k /\ outgoing'[j].target = outgoing'[k].target =>
              outgoing'[j].block.counter < outgoing'[k].block.counter
  BY <1>6, <1>7, <1>8, <1>9, <1>10, Zenon
<1> QED  BY <1>11, Zenon DEF WaitingInv, q

\* What is sent next is the first package of that client that was not sent yet.
LEMMA HeadIsNext ==
  ASSUME PackagesData, ProducedInv, WaitingInv, outgoing # <<>>,
         NEW c, c = Head(outgoing).target
  PROVE  /\ c \in Clients /\ packageCounters[c] \in Nat /\ packageCounters[c] + 1 \in 1..Len(produced[c])
         /\ Head(outgoing) = produced[c][packageCounters[c] + 1]
<1> DEFINE s == produced[c]
           n == packageCounters[c]
<1>1. /\ outgoing \in Seq(Packages) /\ Len(outgoing) \in Nat \ {0} /\ Head(outgoing) = outgoing[1]
      /\ \A k \in 1..Len(outgoing) : outgoing[k] \in Packages
  BY DEF PackagesData
<1>2. /\ c \in Clients /\ 1 \in 1..Len(outgoing)
  BY <1>1, BlockFields
<1>3. s \in Seq(Packages) /\ n \in Nat /\ Len(s) \in Nat
  BY <1>2 DEF PackagesData
<1>4. PICK i \in 1..Len(s) : i > n /\ outgoing[1] = s[i]
  BY <1>1, <1>2 DEF WaitingInv
<1>5. n + 1 \in 1..Len(s)
  BY <1>3, <1>4
<1>6. PICK k \in 1..Len(outgoing) : outgoing[k] = s[n + 1]
  <2>1. n + 1 > n
    BY <1>3
  <2>2. \A j \in 1..Len(s) : j > n => \E k \in 1..Len(outgoing) : outgoing[k] = s[j]
    BY <1>2 DEF WaitingInv
  <2> HIDE DEF s, n
  <2> QED  BY <1>5, <2>1, <2>2
<1>7. /\ \A j \in 1..Len(s) : s[j].target = c /\ s[j].block.counter \in Nat
      /\ \A g, h \in 1..Len(s) : g < h => s[g].block.counter < s[h].block.counter
  <2>1. Produced(c)
    BY <1>2 DEF ProducedInv
  <2> QED  BY <1>3, <2>1, BlockFields DEF Produced
<1> HIDE DEF s, n
<1>8. i = n + 1
  <2> SUFFICES ASSUME i # n + 1 PROVE FALSE
    OBVIOUS
  <2>1. n + 1 < i
    BY <1>3, <1>4
  <2>2. s[n + 1].block.counter < s[i].block.counter
    BY <1>4, <1>5, <1>7, <2>1
  <2>3. k # 1
    BY <1>4, <1>5, <1>6, <1>7, <2>2
  <2>4. 1 < k /\ outgoing[1].target = outgoing[k].target
    BY <1>1, <1>4, <1>5, <1>6, <1>7, <2>3
  <2>5. outgoing[1].block.counter < outgoing[k].block.counter
    BY <1>2, <2>4 DEF WaitingInv
  <2> QED  BY <1>4, <1>5, <1>6, <1>7, <2>2, <2>5
<1> QED  BY <1>1, <1>2, <1>3, <1>4, <1>5, <1>8 DEF s, n

\* Taking the first package off the queue counts it as sent.
LEMMA SendWaiting ==
  ASSUME PackagesData, ProducedInv, WaitingInv, outgoing # <<>>, outgoing' = Tail(outgoing),
         NEW c, c = Head(outgoing).target,
         packageCounters' = [packageCounters EXCEPT ![c] = @ + 1], produced' = produced
  PROVE  WaitingInv'
<1> DEFINE m == Len(outgoing)
           n == packageCounters[c]
<1>1. /\ m \in Nat \ {0} /\ Len(outgoing') = m - 1
      /\ \A k \in 1..(m - 1) : k + 1 \in 1..m /\ outgoing'[k] = outgoing[k + 1]
  BY DEF PackagesData
<1>2. /\ c \in Clients /\ n \in Nat /\ n + 1 \in 1..Len(produced[c])
      /\ outgoing[1] = produced[c][n + 1] /\ outgoing[1].target = c
  <2>1. Head(outgoing) = outgoing[1]
    BY DEF PackagesData
  <2> QED  BY <2>1, HeadIsNext
<1>3. /\ \A d \in Clients : /\ packageCounters[d] \in Nat /\ Len(produced[d]) \in Nat
                            /\ packageCounters'[d] = IF d = c THEN n + 1 ELSE packageCounters[d]
  BY <1>2 DEF PackagesData
<1>4. \A i, j \in 1..Len(produced[c]) :
        /\ produced[c][i].block.counter \in Nat
        /\ i < j => produced[c][i].block.counter < produced[c][j].block.counter
  <2>1. Produced(c) /\ produced[c] \in Seq(Packages)
    BY <1>2 DEF ProducedInv, PackagesData
  <2>2. \A i \in 1..Len(produced[c]) : produced[c][i].block.counter \in Nat
    BY <2>1, BlockFields
  <2>3. \A i, j \in 1..Len(produced[c]) :
          i < j => produced[c][i].block.counter < produced[c][j].block.counter
    BY <2>1 DEF Produced
  <2> QED  BY <2>2, <2>3
<1>5. \A k \in 1..m : outgoing[k].target \in Clients
  <2>1. \A k \in 1..m : outgoing[k] \in Packages
    BY DEF PackagesData
  <2> QED  BY <2>1, BlockFields
<1> HIDE DEF m, n
<1>6. ASSUME NEW d \in Clients PROVE packageCounters'[d] <= Len(produced'[d])
  BY <1>2, <1>3 DEF WaitingInv
<1>7. ASSUME NEW k \in 1..(m - 1)
      PROVE  \E i \in 1..Len(produced'[outgoing'[k].target]) :
               /\ i > packageCounters'[outgoing'[k].target]
               /\ outgoing'[k] = produced'[outgoing'[k].target][i]
  <2> DEFINE d == outgoing'[k].target
  <2>1. outgoing'[k] = outgoing[k + 1] /\ k + 1 \in 1..m /\ 1 \in 1..m /\ 1 < k + 1
    BY <1>1
  <2>2. d \in Clients /\ d = outgoing[k + 1].target
    BY <1>5, <2>1
  <2>3. PICK i \in 1..Len(produced[d]) : i > packageCounters[d] /\ outgoing[k + 1] = produced[d][i]
    BY <2>1, <2>2 DEF WaitingInv, m
  <2>4. d = c => i # n + 1
    <3> SUFFICES ASSUME d = c, i = n + 1 PROVE FALSE
      OBVIOUS
    <3>1. outgoing[1].block.counter < outgoing[k + 1].block.counter
      BY <1>2, <2>1, <2>2 DEF WaitingInv, m
    <3>2. outgoing[k + 1] = outgoing[1] /\ outgoing[1].block.counter \in Nat
      BY <1>2, <1>4, <2>3
    <3> QED  BY <3>1, <3>2
  <2> HIDE DEF d
  <2>5. i > packageCounters'[d]
    BY <1>2, <1>3, <2>2, <2>3, <2>4 DEF n
  <2> QED  BY <2>1, <2>3, <2>5 DEF d
<1>8. ASSUME NEW d \in Clients, NEW i \in 1..Len(produced'[d]), i > packageCounters'[d]
      PROVE  \E k \in 1..(m - 1) : outgoing'[k] = produced'[d][i]
  <2>1. i > packageCounters[d] /\ i \in 1..Len(produced[d])
    BY <1>2, <1>3, <1>8 DEF n
  <2>2. PICK k \in 1..m : outgoing[k] = produced[d][i]
    BY <2>1 DEF WaitingInv, m
  <2>3. k # 1
    <3> SUFFICES ASSUME k = 1 PROVE FALSE
      OBVIOUS
    <3>1. produced[d][i].target = d
      <4>1. Produced(d)
        BY DEF ProducedInv
      <4> QED  BY <2>1, <4>1 DEF Produced
    <3>2. d = c /\ produced[c][i] = produced[c][n + 1] /\ i # n + 1
      BY <1>2, <1>3, <1>8, <2>2, <3>1
    <3>3. i \in 1..Len(produced[c]) /\ (i < n + 1 \/ n + 1 < i)
      BY <1>2, <2>1, <3>2
    <3> QED  BY <1>2, <1>4, <3>2, <3>3
  <2>4. k - 1 \in 1..(m - 1) /\ (k - 1) + 1 = k
    BY <1>1, <2>3
  <2>5. outgoing'[k - 1] = outgoing[k]
    BY <1>1, <2>4
  <2> QED  BY <2>2, <2>4, <2>5
<1>9. ASSUME NEW j \in 1..(m - 1), NEW k \in 1..(m - 1), j < k,
             outgoing'[j].target = outgoing'[k].target
      PROVE  outgoing'[j].block.counter < outgoing'[k].block.counter
  <2>1. /\ j + 1 \in 1..m /\ k + 1 \in 1..m /\ j + 1 < k + 1
        /\ outgoing'[j] = outgoing[j + 1] /\ outgoing'[k] = outgoing[k + 1]
    BY <1>1, <1>9
  <2> QED  BY <1>9, <2>1 DEF WaitingInv, m
<1> DEFINE q == Len(outgoing')
<1>10. q = m - 1
  BY <1>1
<1> HIDE DEF q
<1>11. /\ \A d \in Clients : packageCounters'[d] <= Len(produced'[d])
       /\ \A k \in 1..q : \E i \in 1..Len(produced'[outgoing'[k].target]) :
            /\ i > packageCounters'[outgoing'[k].target]
            /\ outgoing'[k] = produced'[outgoing'[k].target][i]
       /\ \A d \in Clients : \A i \in 1..Len(produced'[d]) :
            i > packageCounters'[d] => \E k \in 1..q : outgoing'[k] = produced'[d][i]
       /\ \A j, k \in 1..q :
            j < k /\ outgoing'[j].target = outgoing'[k].target =>
              outgoing'[j].block.counter < outgoing'[k].block.counter
  BY <1>6, <1>7, <1>8, <1>9, <1>10, Zenon
<1> QED  BY <1>11, Zenon DEF WaitingInv, q

-----------------------------------------------------------------------------
(* The session a client shows *)

\* With every how many packages a client is sent the session.
Period(c) == IF SupportsSplitSessionInfo(c) THEN InfoPeriod ELSE 1

\* The packages for session messages: the session a client shows is that of package
\* period * q + 1, and since then no more periods began than messages were lost.
ShownSince(c, n, lost, shown) ==
  \/ n <= Period(c) * lost
  \/ \E q \in Nat : /\ Period(c) * q + 1 <= n /\ n - (Period(c) * q + 1) < Period(c) * (lost + 1)
                    /\ shown = produced[c][Period(c) * q + 1].session

\* Of all clients.
RecentInv == \A c \in Clients : ShownSince(c, packageCounters[c], lostInfos[c], session[c])

\* No period is empty.
LEMMA PeriodType ==
  ASSUME NEW c
  PROVE  Period(c) \in Nat \ {0}
BY SessionAssumption DEF Period

\* Arithmetic of periods.
LEMMA Multiples ==
  ASSUME NEW p \in Nat \ {0}, NEW n \in Nat
  PROVE  /\ n % p = 0 => \E q \in Nat : n = p * q
         /\ n % p # 0 => \A q \in Nat : n # p * q
         /\ \A a, b \in Nat : p * (a + b) = p * a + p * b
         /\ \A a \in Nat : p * a \in Nat /\ p * (a + 1) = p * a + p
<1>1. n % p = 0 => \E q \in Nat : n = p * q
  <2>1. n \div p \in Nat /\ n = p * (n \div p) + (n % p)
    OBVIOUS
  <2> QED  BY <2>1
<1>2. \A q \in Nat : n = p * q => n % p = 0
  OBVIOUS
<1>3. \A a, b \in Nat : p * (a + b) = p * a + p * b
  OBVIOUS
<1>4. \A a \in Nat : p * a \in Nat /\ p * (a + 1) = p * a + p
  OBVIOUS
<1> QED  BY <1>1, <1>2, <1>3, <1>4

\* The part of SendThread::run about the session, with the target named.
LEMMA SendSession ==
  ASSUME PackagesData, SendNext, NEW c, c = Head(outgoing).target
  PROVE  \E audioArrives, infoArrives \in BOOLEAN :
              LET package == Head(outgoing)
                  split == SupportsSplitSessionInfo(c)
                  audio   == deserialize(serialize(AudioFor(package)))
                  info    == deserialize(serialize(SessionInfo(package.session, {MtuProbeV1})))
                  sendsInfo == split => InfoDue(c)
                  learns    == sendsInfo /\ (IF split THEN infoArrives ELSE audioArrives)
              IN  /\ IF audioArrives THEN HearAudio(c, audio) ELSE UNCHANGED <<received, arrived>>
                  /\ session' = [session EXCEPT ![c] = IF ~learns THEN @ ELSE IF split
                                                       THEN info.channels ELSE audio.legacySession]
                  /\ lostInfos' = [lostInfos EXCEPT ![c] = IF learns THEN 0
                                                           ELSE IF sendsInfo THEN @ + 1 ELSE @]
BY DEF SendNext

\* The session that arrives is the one that was sent.
LEMMA RosterArrives ==
  ASSUME PackagesData, NEW package \in Packages
  PROVE  /\ deserialize(serialize(SessionInfo(package.session, {MtuProbeV1}))).channels
              = package.session
         /\ ~SupportsSplitSessionInfo(package.target) =>
              deserialize(serialize(AudioFor(package))).legacySession = package.session
<1>1. deserialize(serialize(SessionInfo(package.session, {MtuProbeV1}))).channels = package.session
  <2> DEFINE m == SessionInfo(package.session, {MtuProbeV1})
             w == SerializedSessionInfo(m)
  <2>1. m.type = "SESSIONSETUP" /\ m.channels = package.session
    BY DEF SessionInfo
  <2>2. w.type = "SESSIONSETUP" /\ w.allChannels = package.session
    <3> HIDE DEF m
    <3> QED  BY <2>1 DEF SerializedSessionInfo
  <2>3. serialize(m) = w
    <3> HIDE DEF m, w
    <3> QED  BY <2>1 DEF serialize, w
  <2>4. deserialize(w) = ReadSessionInfo(w)
    <3> HIDE DEF w
    <3> QED  BY <2>2 DEF deserialize, MessageType
  <2> HIDE DEF m, w
  <2>5. ReadSessionInfo(w).channels = package.session
    BY <2>2 DEF ReadSessionInfo, SessionInfo
  <2> QED  BY <2>3, <2>4, <2>5 DEF m
<1>2. ASSUME ~SupportsSplitSessionInfo(package.target)
      PROVE  deserialize(serialize(AudioFor(package))).legacySession = package.session
  <2> DEFINE b == package.block
             x == getLast(fecData[package.target])
  <2>1. \/ AudioFor(package) = AudioData(b, <<>>, Current, package.session)
        \/ AudioFor(package) = AudioData(b, <<x>>, Current, package.session)
    BY <1>2 DEF AudioFor
  <2> HIDE DEF b, x
  <2> QED  BY <2>1, AudioArrivesAlone, AudioArrivesWith
<1> QED  BY <1>1, <1>2

\* SendThread::run: one more package is sent to c, and whether the client learns the session.
LEMMA SendRecent ==
  ASSUME PackagesData, ProducedInv, WaitingInv, RecentInv, session \in [Clients -> Rosters],
         SendNext
  PROVE  RecentInv' /\ lostInfos' \in [Clients -> Nat] /\ session' \in [Clients -> Rosters]
<1>0. PICK c : c = Head(outgoing).target
  OBVIOUS
<1> DEFINE package == Head(outgoing)
           n == packageCounters[c]
           lost == lostInfos[c]
           p == Period(c)
           due == SupportsSplitSessionInfo(c) => InfoDue(c)
<1>1. outgoing # <<>> /\ produced' = produced /\ packageCounters' = [packageCounters EXCEPT ![c] = @ + 1]
  BY <1>0 DEF SendNext
<1>2. /\ c \in Clients /\ n \in Nat /\ n + 1 \in 1..Len(produced[c])
      /\ package = produced[c][n + 1]
  BY <1>0, <1>1, HeadIsNext
<1>3. package \in Packages /\ package.session \in Rosters
  <2>1. package \in Packages
    BY <1>2 DEF PackagesData
  <2> QED  BY <2>1 DEF Packages
<1>4. \E learns \in BOOLEAN :
        /\ learns => due
        /\ session' = [session EXCEPT ![c] = IF learns THEN package.session ELSE @]
        /\ lostInfos' = [lostInfos EXCEPT ![c] = IF learns THEN 0 ELSE IF due THEN @ + 1 ELSE @]
  <2>1. PICK audioArrives \in BOOLEAN, infoArrives \in BOOLEAN :
              LET split == SupportsSplitSessionInfo(c)
                  audio   == deserialize(serialize(AudioFor(package)))
                  info    == deserialize(serialize(SessionInfo(package.session, {MtuProbeV1})))
                  learns    == due /\ (IF split THEN infoArrives ELSE audioArrives)
              IN  /\ session' = [session EXCEPT ![c] = IF ~learns THEN @ ELSE IF split
                                                       THEN info.channels ELSE audio.legacySession]
                  /\ lostInfos' = [lostInfos EXCEPT ![c] = IF learns THEN 0
                                                           ELSE IF due THEN @ + 1 ELSE @]
    BY <1>0, SendSession
  <2> DEFINE learns == due /\ (IF SupportsSplitSessionInfo(c) THEN infoArrives ELSE audioArrives)
  <2>2. learns \in BOOLEAN /\ (learns => due)
    OBVIOUS
  <2>3. session' = [session EXCEPT ![c] = IF learns THEN package.session ELSE @]
    BY <1>0, <1>3, <2>1, RosterArrives
  <2> HIDE DEF due
  <2>4. lostInfos' = [lostInfos EXCEPT ![c] = IF learns THEN 0 ELSE IF due THEN @ + 1 ELSE @]
    BY <2>1
  <2> QED  BY <2>2, <2>3, <2>4
<1>5. PICK learns \in BOOLEAN :
        /\ learns => due
        /\ session' = [session EXCEPT ![c] = IF learns THEN package.session ELSE @]
        /\ lostInfos' = [lostInfos EXCEPT ![c] = IF learns THEN 0 ELSE IF due THEN @ + 1 ELSE @]
  BY <1>4
<1>6. p \in Nat \ {0} /\ lost \in Nat /\ (due <=> n % p = 0)
  <2>1. p \in Nat \ {0} /\ lost \in Nat
    BY <1>2, PeriodType DEF PackagesData
  <2>2. CASE SupportsSplitSessionInfo(c)
    <3>1. p = InfoPeriod
      BY <2>2 DEF Period
    <3>2. due <=> InfoDue(c)
      BY <2>2
    <3> HIDE DEF due, p
    <3> QED  BY <2>1, <3>1, <3>2 DEF InfoDue
  <2>3. CASE ~SupportsSplitSessionInfo(c)
    <3>1. p = 1 /\ n % 1 = 0
      BY <1>2, <2>3 DEF Period
    <3>2. due
      BY <2>3
    <3> HIDE DEF due, p
    <3> QED  BY <2>1, <3>1, <3>2
  <2> QED  BY <2>1, <2>2, <2>3
<1> HIDE DEF due, package
<1>7. /\ session' \in [Clients -> Rosters] /\ lostInfos' \in [Clients -> Nat]
      /\ \A d \in Clients : d # c => /\ session'[d] = session[d] /\ lostInfos'[d] = lostInfos[d]
                                     /\ packageCounters'[d] = packageCounters[d]
      /\ packageCounters'[c] = n + 1
      /\ session'[c] = IF learns THEN package.session ELSE session[c]
      /\ lostInfos'[c] = IF learns THEN 0 ELSE IF due THEN lost + 1 ELSE lost
  <2>1. packageCounters \in [Clients -> Nat] /\ lostInfos \in [Clients -> Nat]
    BY DEF PackagesData
  <2>2. session' \in [Clients -> Rosters]
    BY <1>2, <1>3, <1>5
  <2>3. lostInfos' \in [Clients -> Nat]
    <3>1. (IF learns THEN 0 ELSE IF due THEN lost + 1 ELSE lost) \in Nat
      BY <1>6
    <3> QED  BY <1>2, <1>5, <2>1, <3>1
  <2> QED  BY <1>1, <1>2, <1>5, <2>1, <2>2, <2>3
<1>8. ASSUME NEW d \in Clients, d # c
      PROVE  ShownSince(d, packageCounters[d], lostInfos[d], session[d])'
  BY <1>1, <1>7, <1>8 DEF RecentInv, ShownSince
<1>9. ShownSince(c, n, lost, session[c])
  BY <1>2 DEF RecentInv
<1> DEFINE lost2 == lostInfos'[c]
           shown2 == session'[c]
           S(i) == produced[c][i].session
<1>10. \/ n + 1 <= p * lost2
       \/ \E q \in Nat : /\ p * q + 1 <= n + 1 /\ (n + 1) - (p * q + 1) < p * (lost2 + 1)
                         /\ shown2 = S(p * q + 1)
  <2>1. /\ (due => \E q \in Nat : n = p * q) /\ (~due => \A q \in Nat : n # p * q)
        /\ \A a, b \in Nat : p * (a + b) = p * a + p * b
        /\ \A a \in Nat : p * a \in Nat /\ p * (a + 1) = p * a + p
    BY <1>2, <1>6, Multiples
  <2>2. \/ n <= p * lost
        \/ \E q \in Nat : /\ p * q + 1 <= n /\ n - (p * q + 1) < p * (lost + 1)
                          /\ session[c] = S(p * q + 1)
    BY <1>9 DEF ShownSince
  <2>3. package.session = S(n + 1)
    BY <1>2
  <2> HIDE DEF S, p, n, lost, lost2, shown2
  <2>4. CASE learns
    <3>1. lost2 = 0 /\ shown2 = S(n + 1)
      BY <1>7, <2>3, <2>4 DEF lost2, shown2
    <3>2. PICK q \in Nat : n = p * q
      BY <1>5, <2>1, <2>4
    <3>3. (n + 1) - (p * q + 1) < p * (lost2 + 1)
      BY <1>2, <1>6, <3>1, <3>2
    <3> QED  BY <1>2, <3>1, <3>2, <3>3
  <2>5. CASE ~learns /\ due
    <3>1. lost2 = lost + 1 /\ shown2 = session[c]
      BY <1>7, <2>5 DEF lost2, shown2
    <3>2. p * (lost + 1) = p * lost + p /\ p * (lost2 + 1) = p * lost + p + p /\ p * lost \in Nat
      BY <1>6, <2>1, <3>1
    <3>3. n <= p * lost => n + 1 <= p * lost2
      BY <1>2, <1>6, <3>1, <3>2
    <3>4. ASSUME NEW q \in Nat, p * q + 1 <= n, n - (p * q + 1) < p * (lost + 1)
          PROVE  p * q + 1 <= n + 1 /\ (n + 1) - (p * q + 1) < p * (lost2 + 1)
      <4>1. p * q \in Nat
        BY <2>1
      <4> QED  BY <1>2, <1>6, <3>2, <3>4, <4>1
    <3> QED  BY <2>2, <3>1, <3>3, <3>4
  <2>6. CASE ~due
    <3>1. lost2 = lost /\ shown2 = session[c]
      BY <1>5, <1>7, <2>6 DEF lost2, shown2
    <3>2. n <= p * lost => n + 1 <= p * lost2
      <4>1. n # p * lost /\ p * lost \in Nat
        BY <1>6, <2>1, <2>6
      <4> QED  BY <1>2, <3>1, <4>1
    <3>3. ASSUME NEW q \in Nat, p * q + 1 <= n, n - (p * q + 1) < p * (lost + 1)
          PROVE  p * q + 1 <= n + 1 /\ (n + 1) - (p * q + 1) < p * (lost2 + 1)
      <4>1. p * q \in Nat /\ p * (lost + 1) \in Nat /\ lost + 1 \in Nat /\ q + (lost + 1) \in Nat
        BY <1>6, <2>1
      <4>2. n # p * (q + (lost + 1)) /\ p * (q + (lost + 1)) = p * q + p * (lost + 1)
        BY <2>1, <2>6, <4>1
      <4> DEFINE a == p * q
                 b == p * (lost + 1)
      <4>3. /\ a \in Nat /\ b \in Nat /\ n \in Nat /\ n # a + b /\ a + 1 <= n /\ n - (a + 1) < b
            /\ p * (lost2 + 1) = b
        BY <1>2, <3>1, <3>3, <4>1, <4>2
      <4> HIDE DEF a, b
      <4>4. a + 1 <= n + 1 /\ (n + 1) - (a + 1) < b
        BY <4>3
      <4> QED  BY <4>3, <4>4 DEF a
    <3> QED  BY <2>2, <3>1, <3>2, <3>3
  <2> QED  BY <2>4, <2>5, <2>6
<1>11. ShownSince(c, packageCounters[c], lostInfos[c], session[c])'
  BY <1>1, <1>7, <1>10 DEF ShownSince
<1> QED  BY <1>7, <1>8, <1>11 DEF RecentInv

\* The queue and the packages.
QueueInv == PackagesData /\ ProducedInv /\ WaitingInv

\* The sessions shown.
RosterInv == session \in [Clients -> Rosters] /\ RecentInv

\* Nothing is produced yet.
LEMMA SessionStart ==
  ASSUME SessionMixInit
  PROVE  QueueInv /\ RosterInv
<1>1. PackagesData
  <2>1. fec = FALSE /\ mixTime = 0 /\ SetupsInv /\ outgoing = <<>>
    BY DEF SessionMixInit, SetupsInv
  <2>2. <<>> \in Seq(Packages)
    OBVIOUS
  <2>3. produced \in [Clients -> Seq(Packages)]
    BY <2>2 DEF SessionMixInit
  <2>4. packageCounters \in [Clients -> Nat] /\ lostInfos \in [Clients -> Nat]
    BY DEF SessionMixInit
  <2>5. fec \in BOOLEAN
    BY <2>1, Zenon
  <2> QED  BY <2>1, <2>2, <2>3, <2>4, <2>5 DEF PackagesData
<1>2. \A c \in Clients : produced[c] = <<>> /\ Latest(c) = 0 /\ packageCounters[c] = 0
  BY DEF SessionMixInit, Latest
<1>3. ProducedInv
  <2> SUFFICES ASSUME NEW c \in Clients PROVE Produced(c)
    BY DEF ProducedInv
  <2>1. produced[c] = <<>> /\ Latest(c) = 0 /\ mixTime = 0
    BY <1>2 DEF SessionMixInit
  <2> QED  BY <2>1 DEF Produced
<1>4. WaitingInv
  <2>1. outgoing = <<>> /\ Len(outgoing) = 0
    BY DEF SessionMixInit
  <2>2. \A c \in Clients : Len(produced[c]) = 0 /\ packageCounters[c] = 0
    BY <1>2
  <2> QED  BY <2>1, <2>2 DEF WaitingInv
<1>5. session \in [Clients -> Rosters]
  BY DEF SessionMixInit, Rosters
<1>6. RecentInv
  <2> SUFFICES ASSUME NEW c \in Clients PROVE ShownSince(c, packageCounters[c], lostInfos[c], session[c])
    BY DEF RecentInv
  <2>1. packageCounters[c] = 0 /\ lostInfos[c] = 0
    BY DEF SessionMixInit
  <2> QED  BY <2>1, PeriodType DEF ShownSince
<1> QED  BY <1>1, <1>3, <1>4, <1>5, <1>6 DEF QueueInv, RosterInv

\* Every step keeps the queue in order and the sessions recent.
LEMMA SessionStep ==
  ASSUME QueueInv, RosterInv, [SessionMixNext]_sessionMixVars
  PROVE  QueueInv' /\ RosterInv'
<1>1. PackagesData /\ ProducedInv /\ WaitingInv /\ session \in [Clients -> Rosters] /\ RecentInv
  BY DEF QueueInv, RosterInv
<1>2. CASE Mix
  <2>1. PICK mixed \in SUBSET Clients :
          \E order \in Seq(mixed), package \in [mixed -> Packages] : Mixing(mixed, order, package)
    BY <1>1, <1>2, MixEffect
  <2>2. PICK order \in Seq(mixed), package \in [mixed -> Packages] : Mixing(mixed, order, package)
    BY <2>1
  <2>3. QueueInv'
    BY <1>1, <2>2, AfterMix, MixProduced, MixWaiting DEF QueueInv
  <2>4. session' = session /\ lostInfos' = lostInfos /\ packageCounters' = packageCounters
    BY <1>2 DEF Mix, heardVars
  <2>5. ASSUME NEW c \in Clients
        PROVE  ShownSince(c, packageCounters[c], lostInfos[c], session[c])'
    <3> DEFINE n == packageCounters[c]
    <3>1. ShownSince(c, n, lostInfos[c], session[c])
      BY <1>1 DEF RecentInv
    <3>2. n \in Nat /\ n <= Len(produced[c]) /\ Len(produced[c]) \in Nat
      BY <1>1 DEF PackagesData, WaitingInv
    <3>3. \A i \in 1..Len(produced[c]) : produced'[c][i] = produced[c][i]
      BY <1>1, <2>2, AfterMix
    <3>4. ASSUME NEW q \in Nat, Period(c) * q + 1 <= n
          PROVE  produced'[c][Period(c) * q + 1] = produced[c][Period(c) * q + 1]
      <4>1. Period(c) * q \in Nat
        BY PeriodType
      <4>2. Period(c) * q + 1 \in 1..Len(produced[c])
        BY <3>2, <3>4, <4>1
      <4> QED  BY <3>3, <4>2
    <3> QED  BY <2>4, <3>1, <3>4 DEF ShownSince
  <2> QED  BY <1>1, <2>3, <2>4, <2>5 DEF RosterInv, RecentInv
<1>3. CASE SendNext
  <2>1. PICK c : c = Head(outgoing).target
    OBVIOUS
  <2>2. /\ outgoing # <<>> /\ outgoing' = Tail(outgoing) /\ produced' = produced
        /\ packageCounters' = [packageCounters EXCEPT ![c] = @ + 1]
        /\ mixTime' = mixTime /\ setups' = setups /\ fec' = fec
    BY <1>3, <2>1 DEF SendNext
  <2>3. WaitingInv'
    BY <1>1, <2>1, <2>2, SendWaiting
  <2>4. RecentInv' /\ lostInfos' \in [Clients -> Nat] /\ session' \in [Clients -> Rosters]
    BY <1>1, <1>3, SendRecent
  <2>5. PackagesData'
    <3>1. c \in Clients /\ packageCounters \in [Clients -> Nat]
      BY <1>1, <2>1, <2>2, HeadIsNext DEF PackagesData
    <3>2. packageCounters' \in [Clients -> Nat]
      BY <2>2, <3>1
    <3>3. outgoing' \in Seq(Packages)
      BY <1>1, <2>2 DEF PackagesData
    <3> QED  BY <1>1, <2>2, <2>4, <3>2, <3>3 DEF PackagesData, SetupsInv
  <2>6. ProducedInv'
    BY <1>1, <2>2 DEF ProducedInv, Produced, Latest
  <2> QED  BY <2>3, <2>4, <2>5, <2>6 DEF QueueInv, RosterInv
<1>4. CASE ChangeSetup \/ SetUseFEC \/ UNCHANGED sessionMixVars
  <2>1. /\ mixTime' = mixTime /\ outgoing' = outgoing /\ produced' = produced
        /\ packageCounters' = packageCounters /\ lostInfos' = lostInfos /\ session' = session
    BY <1>4 DEF ChangeSetup, SetUseFEC, sessionMixVars, serverVars, heardVars
  <2>2. SetupsInv' /\ fec' \in BOOLEAN
    <3>1. SetupsInv /\ fec \in BOOLEAN
      BY <1>1 DEF PackagesData
    <3>2. CASE ChangeSetup
      <4>1. fec' = fec /\ \E c \in Clients, setup \in ChannelSetups : setups' = [setups EXCEPT ![c] = setup]
        BY <3>2 DEF ChangeSetup
      <4> QED  BY <3>1, <4>1 DEF SetupsInv
    <3>3. CASE SetUseFEC
      BY <3>1, <3>3 DEF SetUseFEC, SetupsInv
    <3>4. CASE UNCHANGED sessionMixVars
      BY <3>1, <3>4 DEF sessionMixVars, SetupsInv
    <3> QED  BY <1>4, <3>2, <3>3, <3>4
  <2>3. PackagesData'
    BY <1>1, <2>1, <2>2 DEF PackagesData
  <2>4. ProducedInv' /\ WaitingInv'
    BY <1>1, <2>1 DEF ProducedInv, Produced, Latest, WaitingInv
  <2>5. RosterInv'
    BY <1>1, <2>1 DEF RosterInv, RecentInv, ShownSince
  <2> QED  BY <2>3, <2>4, <2>5 DEF QueueInv
<1> QED  BY <1>2, <1>3, <1>4 DEF SessionMixNext

\* However many messages are lost: the session a client shows is that of a package not
\* older than one period, or one more for every session message lost since
\* (SendThread::run, DataReceiveThread::run).
THEOREM SessionStaysRecent == SessionMixSpec => []SessionIsRecent
<1>1. SessionMixInit => QueueInv /\ RosterInv
  BY SessionStart
<1>2. QueueInv /\ RosterInv /\ [SessionMixNext]_sessionMixVars => QueueInv' /\ RosterInv'
  BY SessionStep
<1>3. QueueInv /\ RosterInv => SessionIsRecent
  <2> SUFFICES ASSUME QueueInv, RosterInv, NEW c \in Clients
               PROVE  LET period == IF SupportsSplitSessionInfo(c) THEN InfoPeriod ELSE 1
                          n      == packageCounters[c]
                      IN  n > period * lostInfos[c] =>
                            \E i \in 1..n : i > n - period * (lostInfos[c] + 1)
                                            /\ session[c] = produced[c][i].session
    BY DEF SessionIsRecent
  <2> DEFINE p == Period(c)
             n == packageCounters[c]
             lost == lostInfos[c]
             S(i) == produced[c][i].session
             shown == session[c]
  <2>1. p = IF SupportsSplitSessionInfo(c) THEN InfoPeriod ELSE 1
    BY DEF Period
  <2>2. p \in Nat \ {0} /\ n \in Nat /\ lost \in Nat
    BY PeriodType DEF QueueInv, PackagesData
  <2>3. \/ n <= p * lost
        \/ \E q \in Nat : p * q + 1 <= n /\ n - (p * q + 1) < p * (lost + 1) /\ shown = S(p * q + 1)
    BY DEF RosterInv, RecentInv, ShownSince
  <2> HIDE DEF p, n, lost, S, shown
  <2>4. \A a \in Nat : p * a \in Nat
    BY <2>2
  <2>5. n > p * lost => \E i \in 1..n : i > n - p * (lost + 1) /\ shown = S(i)
    <3> SUFFICES ASSUME n > p * lost PROVE \E i \in 1..n : i > n - p * (lost + 1) /\ shown = S(i)
      OBVIOUS
    <3>1. PICK q \in Nat : p * q + 1 <= n /\ n - (p * q + 1) < p * (lost + 1) /\ shown = S(p * q + 1)
      BY <2>2, <2>3, <2>4
    <3>2. p * q \in Nat /\ p * (lost + 1) \in Nat
      BY <2>2, <2>4
    <3>3. p * q + 1 \in 1..n /\ p * q + 1 > n - p * (lost + 1)
      BY <2>2, <3>1, <3>2
    <3> QED  BY <3>1, <3>3
  <2> QED  BY <2>1, <2>5 DEF n, lost, S, shown
<1> QED  BY <1>1, <1>2, <1>3, PTL DEF SessionMixSpec

-----------------------------------------------------------------------------
(* The ring of a target *)

\* The indices are places of the ring.
IsRing(ring) ==
  /\ DOMAIN ring.data = 0..FecRingSize - 1
  /\ ring.endIndex \in 0..FecRingSize - 1 /\ ring.headIndex \in 0..FecRingSize - 1

\* The capacity of every ring is FEC_RINGBUFFER_SIZE.
LEMMA RingHasCapacity ==
  ASSUME NEW ring, DOMAIN ring.data = 0..FecRingSize - 1
  PROVE  RingCapacity(ring) = FecRingSize
<1>1. 0 \in Int /\ FecRingSize - 1 \in Int /\ FecRingSize \in Nat \ {0, 1}
  BY SessionAssumption
<1>2. Cardinality(0..FecRingSize - 1) = IF 0 > FecRingSize - 1 THEN 0 ELSE (FecRingSize - 1) - 0 + 1
  BY <1>1, FS_Interval
<1> QED  BY <1>1, <1>2 DEF RingCapacity

\* A new ring is empty.
LEMMA EmptyRingIsRing ==
  IsRing(EmptyRing(FecRingSize)) /\ isEmpty(EmptyRing(FecRingSize))
<1>1. FecRingSize \in Nat \ {0, 1}
  BY SessionAssumption
<1> QED  BY <1>1 DEF IsRing, EmptyRing, isEmpty

\* After push the ring is not empty, also when it was full, and getLast is what was pushed.
LEMMA PushedIsLast ==
  ASSUME NEW ring, NEW x, IsRing(ring)
  PROVE  IsRing(push(ring, x)) /\ ~isEmpty(push(ring, x)) /\ getLast(push(ring, x)) = x
<1> DEFINE n == FecRingSize
           e == ring.endIndex
           h == ring.headIndex
           e2 == (e + 1) % n
           h2 == IF e2 = h THEN (h + 1) % n ELSE h
           d2 == [ring.data EXCEPT ![e] = x]
<1>1. n \in Nat \ {0, 1} /\ e \in 0..n - 1 /\ h \in 0..n - 1 /\ RingCapacity(ring) = n
  BY SessionAssumption, RingHasCapacity DEF IsRing
<1>2. push(ring, x) = [data |-> d2, endIndex |-> e2, headIndex |-> h2]
  BY <1>1 DEF push, incIndex
<1>3. DOMAIN d2 = 0..n - 1 /\ d2[e] = x
  BY <1>1 DEF IsRing
<1> HIDE DEF d2, n, e, h
<1>4. e2 = IF e = n - 1 THEN 0 ELSE e + 1
  BY <1>1
<1>5. \A i \in 0..n - 1 : (i + 1) % n = IF i = n - 1 THEN 0 ELSE i + 1
  BY <1>1
<1> HIDE DEF e2
<1>6. e2 \in 0..n - 1 /\ h2 \in 0..n - 1 /\ h2 # e2
  BY <1>1, <1>4, <1>5
<1> HIDE DEF h2
<1>7. /\ push(ring, x).data = d2 /\ push(ring, x).endIndex = e2 /\ push(ring, x).headIndex = h2
  BY <1>2
<1>8. IsRing(push(ring, x))
  BY <1>3, <1>6, <1>7 DEF IsRing, n
<1>9. RingCapacity(push(ring, x)) = n
  BY <1>8, RingHasCapacity DEF IsRing, n
<1>10. (IF e2 = 0 THEN n - 1 ELSE e2 - 1) = e
  BY <1>1, <1>4
<1>11. getLast(push(ring, x)) = d2[IF e2 = 0 THEN n - 1 ELSE e2 - 1]
  BY <1>7, <1>9 DEF getLast
<1>12. getLast(push(ring, x)) = x
  BY <1>3, <1>10, <1>11
<1> QED  BY <1>6, <1>7, <1>8, <1>12 DEF isEmpty

\* What went to a client before is the last of its ring.
RingInv ==
  \A c \in Clients :
    /\ IsRing(fecData[c])
    /\ IF packageCounters[c] = 0 THEN isEmpty(fecData[c])
       ELSE ~isEmpty(fecData[c]) /\ getLast(fecData[c]) = produced[c][packageCounters[c]].block

-----------------------------------------------------------------------------
(* The message of a package *)

\* A redundant block: every second sample is held.
Redundant(x, b) ==
  /\ x \in Blocks /\ x.counter = b.counter /\ x.time = b.time /\ x.signal = b.signal
  /\ \A i \in 1..BlockSamples : x.audio[i] = b.audio[i - ((i - 1) % FecReduction)]

\* The fields of a block.
LEMMA BlockData ==
  ASSUME NEW b \in Blocks
  PROVE  /\ b.counter \in Nat /\ b.time \in Nat /\ b.signal \in Signals /\ b.setup = MixdownSetup
         /\ b.audio \in [1..BlockSamples -> Samples]
         /\ b = AudioBlock(b.counter, b.time, b.signal, b.setup, b.audio)
BY DEF Blocks, AudioBlock

\* A block made of its fields.
LEMMA BlockMade ==
  ASSUME NEW counter \in Nat, NEW time \in Nat, NEW signal \in Signals,
         NEW audio \in [1..BlockSamples -> Samples]
  PROVE  AudioBlock(counter, time, signal, MixdownSetup, audio) \in Blocks
BY DEF Blocks, AudioBlock

\* A block crosses the network whole; as a redundant block it loses every second sample.
LEMMA BlockCrosses ==
  ASSUME NEW b \in Blocks
  PROVE  /\ readAudioHeaderAndBytes(serializeAudioBlock(b, 1)) = b
         /\ Redundant(readAudioHeaderAndBytes(serializeAudioBlock(b, FecReduction)), b)
<1>1. /\ b.counter \in Nat /\ b.time \in Nat /\ b.signal \in Signals /\ b.setup = MixdownSetup
      /\ b.audio \in [1..BlockSamples -> Samples]
      /\ b = AudioBlock(b.counter, b.time, b.signal, b.setup, b.audio)
  BY BlockData
<1>2. ChannelSetup(FALSE, b.setup.targets) = MixdownSetup
  <2> DEFINE t == <<"left", "right">>
  <2> HIDE DEF t
  <2>1. MixdownSetup = ChannelSetup(FALSE, t)
    BY DEF MixdownSetup, t
  <2>2. ChannelSetup(FALSE, t).targets = t
    BY DEF ChannelSetup
  <2> QED  BY <1>1, <2>1, <2>2
<1>3. BlockSamples \in Nat /\ BlockSamples % FecReduction = 0
  BY SessionAssumption
<1>4. readAudioHeaderAndBytes(serializeAudioBlock(b, 1)) = b
  <2> DEFINE x == readAudioHeaderAndBytes(serializeAudioBlock(b, 1))
  <2>1. /\ x = AudioBlock(x.counter, x.time, x.signal, x.setup, x.audio)
        /\ x.counter = b.counter /\ x.time = b.time /\ x.signal = b.signal
        /\ x.setup = ChannelSetup(FALSE, b.setup.targets)
        /\ x.audio = readAudioBytes(appendAudioBuffer(b.audio, 1), Upsampling(1))
    BY BlockArrives
  <2>2. x.audio = b.audio
    BY <1>1, <1>3, <2>1, AudioArrivesInFull, UpsamplingIsReduction
  <2> HIDE DEF x
  <2>3. x = b
    BY <1>1, <1>2, <2>1, <2>2
  <2> QED  BY <2>3 DEF x
<1>5. Redundant(readAudioHeaderAndBytes(serializeAudioBlock(b, FecReduction)), b)
  <2> DEFINE x == readAudioHeaderAndBytes(serializeAudioBlock(b, FecReduction))
  <2>1. /\ x = AudioBlock(x.counter, x.time, x.signal, x.setup, x.audio)
        /\ x.counter = b.counter /\ x.time = b.time /\ x.signal = b.signal
        /\ x.setup = ChannelSetup(FALSE, b.setup.targets)
        /\ x.audio = readAudioBytes(appendAudioBuffer(b.audio, FecReduction), Upsampling(FecReduction))
    BY BlockArrives
  <2>2. /\ x.audio \in [1..BlockSamples -> Samples]
        /\ \A i \in 1..BlockSamples : x.audio[i] = b.audio[i - ((i - 1) % FecReduction)]
    <3> DEFINE y == readAudioBytes(appendAudioBuffer(b.audio, FecReduction), FecReduction)
    <3>1. /\ y \in [1..BlockSamples -> Samples]
          /\ \A i \in 1..BlockSamples : y[i] = b.audio[i - ((i - 1) % FecReduction)]
      <4>1. \A S : \A a \in [1..BlockSamples -> S] :
              LET z == readAudioBytes(appendAudioBuffer(a, FecReduction), FecReduction)
              IN  z \in [1..BlockSamples -> S] /\
                  \A i \in 1..BlockSamples : z[i] = a[i - ((i - 1) % FecReduction)]
        BY <1>3, AudioArrivesReduced
      <4>2. \A a \in [1..BlockSamples -> Samples] :
              LET z == readAudioBytes(appendAudioBuffer(a, FecReduction), FecReduction)
              IN  z \in [1..BlockSamples -> Samples] /\
                  \A i \in 1..BlockSamples : z[i] = a[i - ((i - 1) % FecReduction)]
        BY <4>1
      <4> QED  BY <1>1, <4>2
    <3>2. x.audio = y
      BY <2>1, UpsamplingIsReduction
    <3> HIDE DEF x, y
    <3> QED  BY <3>1, <3>2
  <2> HIDE DEF x
  <2>3. x \in Blocks
    BY <1>1, <1>2, <2>1, <2>2, BlockMade
  <2>4. Redundant(x, b)
    BY <2>1, <2>2, <2>3 DEF Redundant
  <2> QED  BY <2>4 DEF x
<1> QED  BY <1>4, <1>5

\* What arrives of the next package: its block, and the one before it if FEC is on.
LEMMA MessageArrives ==
  ASSUME QueueInv, RingInv, outgoing # <<>>, NEW c, c = Head(outgoing).target
  PROVE  LET m == deserialize(serialize(AudioFor(Head(outgoing))))
             n == packageCounters[c]
         IN  /\ m.block = produced[c][n + 1].block
             /\ m.fec # <<>> <=> fec /\ n > 0
             /\ m.fec # <<>> => Redundant(m.fec[1], produced[c][n].block)
<1> DEFINE p == Head(outgoing)
           n == packageCounters[c]
           last == getLast(fecData[c])
           s == IF SupportsSplitSessionInfo(c) THEN {} ELSE p.session
           m == deserialize(serialize(AudioFor(p)))
<1>1. /\ c \in Clients /\ n \in Nat /\ n + 1 \in 1..Len(produced[c]) /\ p = produced[c][n + 1]
  BY HeadIsNext DEF QueueInv
<1>2. \A i \in 1..Len(produced[c]) : produced[c][i].block \in Blocks
  <2>1. produced[c] \in Seq(Packages)
    BY <1>1 DEF QueueInv, PackagesData
  <2> QED  BY <2>1, BlockFields
<1>3. IF n = 0 THEN isEmpty(fecData[c])
      ELSE ~isEmpty(fecData[c]) /\ last = produced[c][n].block
  BY <1>1 DEF RingInv
<1>4. AudioFor(p) = AudioData(p.block, IF fec /\ ~isEmpty(fecData[c]) THEN <<last>> ELSE <<>>, Current, s)
  BY DEF AudioFor
<1>5. fec \in BOOLEAN
  BY DEF QueueInv, PackagesData
<1>6. readAudioHeaderAndBytes(serializeAudioBlock(p.block, 1)) = p.block
  BY <1>1, <1>2, BlockCrosses
<1> HIDE DEF last, s, p
<1>7. CASE fec /\ n > 0
  <2>1. AudioFor(p) = AudioData(p.block, <<last>>, Current, s)
    BY <1>1, <1>3, <1>4, <1>7
  <2>2. m.fec # <<>> /\ m.block = p.block /\ m.fec[1] = readAudioHeaderAndBytes(serializeAudioBlock(last, FecReduction))
    BY <1>6, <2>1, AudioArrivesWith
  <2>3. n \in 1..Len(produced[c]) /\ last = produced[c][n].block
    <3>1. n # 0 /\ n <= Len(produced[c])
      BY <1>1, <1>7 DEF QueueInv, WaitingInv
    <3> QED  BY <1>1, <1>3, <3>1
  <2>4. Redundant(m.fec[1], produced[c][n].block)
    BY <1>2, <2>2, <2>3, BlockCrosses
  <2> QED  BY <1>1, <1>7, <2>2, <2>4 DEF p
<1>8. CASE ~(fec /\ n > 0)
  <2>1. AudioFor(p) = AudioData(p.block, <<>>, Current, s)
    BY <1>1, <1>3, <1>4, <1>8
  <2>2. m.fec = <<>> /\ m.block = p.block
    BY <1>6, <2>1, AudioArrivesAlone
  <2> QED  BY <1>1, <1>8, <2>2 DEF p
<1> QED  BY <1>7, <1>8

-----------------------------------------------------------------------------
(* What the client's queue gives out *)

\* The audio of a block, every second sample held.
Reduced(x, b) == \A i \in 1..BlockSamples : x.audio[i] = b.audio[i - ((i - 1) % FecReduction)]

\* A block that is played, against the ones that were produced: signal and time, and
\* its audio; known are the counters that arrived.
Stands(got, originals, known) ==
  /\ got.signal # "none" => \E b \in originals : b.counter = got.counter
  /\ \A b \in originals : b.counter = got.counter =>
       /\ got.signal \in {b.signal, "none"}
       /\ got.counter \in known => got.signal = b.signal
  /\ (\A b \in originals : b.time = b.counter) => got.time = got.counter

\* Its audio: whole if it arrived itself, reduced if it arrived as a redundant block.
Sounds(got, originals, first, redundant) ==
  \A b \in originals : b.counter = got.counter =>
    IF got.counter \in first THEN got.audio = b.audio
    ELSE got.counter \in redundant => Reduced(got, b)

\* One block for a counter.
Distinct(originals) ==
  originals \subseteq Blocks /\ \A a, b \in originals : a.counter = b.counter => a = b

\* A message that arrives: a block, and maybe the one before it.
Carries(m, originals) ==
  /\ m.block \in originals
  /\ m.fec # <<>> => \E p \in originals : p.counter < m.block.counter /\ Redundant(m.fec[1], p)

\* createFillInPackage: the redundant block if it is the missing one, or a stand-in
\* without a signal.
LEMMA FilledIn ==
  ASSUME NEW originals, Distinct(originals), NEW m, Carries(m, originals),
         NEW counter \in Nat, counter < m.block.counter
  PROVE  LET f == FillIn(m, counter)
         IN  /\ f \in Blocks /\ f.counter = counter
             /\ \A known : (\A b \in originals : b.counter = counter /\ counter \in known =>
                              m.fec # <<>> /\ m.fec[1].counter = counter)
                             => Stands(f, originals, known)
             /\ m.fec # <<>> /\ m.fec[1].counter = counter =>
                  \A b \in originals : b.counter = counter => Reduced(f, b)
<1> DEFINE f == FillIn(m, counter)
           o == m.block
<1>1. /\ o \in Blocks /\ o \in originals /\ o.counter \in Nat /\ o.time \in Nat
      /\ o = AudioBlock(o.counter, o.time, o.signal, o.setup, o.audio)
      /\ o.setup = MixdownSetup /\ o.audio \in [1..BlockSamples -> Samples]
  BY BlockData DEF Carries, Distinct
<1>2. CASE m.fec # <<>> /\ m.fec[1].counter = counter
  <2>1. f = m.fec[1]
    BY <1>2 DEF FillIn
  <2>2. PICK p \in originals : Redundant(f, p)
    BY <1>2, <2>1 DEF Carries
  <2>3. /\ f \in Blocks /\ f.counter = counter /\ p.counter = counter
        /\ f.time = p.time /\ f.signal = p.signal /\ Reduced(f, p)
    BY <1>2, <2>1, <2>2 DEF Redundant, Reduced
  <2>4. \A b \in originals : b.counter = counter => b = p
    BY <2>3 DEF Distinct
  <2> HIDE DEF f
  <2>5. \A known : Stands(f, originals, known)
    BY <2>3, <2>4 DEF Stands
  <2>6. \A b \in originals : b.counter = counter => Reduced(f, b)
    BY <2>3, <2>4
  <2> QED  BY <2>3, <2>5, <2>6 DEF f
<1>3. CASE ~(m.fec # <<>> /\ m.fec[1].counter = counter)
  <2> DEFINE missing == o.counter - counter
             t == IF o.time >= missing THEN o.time - missing ELSE 0
  <2>1. f = [o EXCEPT !.counter = counter, !.signal = "none", !.time = t]
    BY <1>3 DEF FillIn
  <2>2. missing \in Nat /\ t \in Nat
    BY <1>1
  <2>3. o.time = o.counter => t = counter
    BY <1>1
  <2> HIDE DEF t, f, o, missing
  <2>4. f = AudioBlock(counter, t, "none", MixdownSetup, o.audio)
    <3> DEFINE a == o.audio
               n == o.counter
               u == o.time
               s == o.signal
    <3>1. o = AudioBlock(n, u, s, MixdownSetup, a)
      BY <1>1
    <3> HIDE DEF a, n, u, s
    <3>2. f = AudioBlock(counter, t, "none", MixdownSetup, a)
      BY <2>1, <3>1 DEF AudioBlock
    <3> QED  BY <3>2 DEF a
  <2>5. "none" \in Signals
    BY DEF Signals
  <2>6. f \in Blocks
    BY <1>1, <2>2, <2>4, <2>5, BlockMade
  <2>7. f.counter = counter /\ f.signal = "none" /\ f.time = t
    BY <2>4 DEF AudioBlock
  <2>8. (\A b \in originals : b.time = b.counter) => f.time = f.counter
    BY <1>1, <2>3, <2>7
  <2>9. \A known : (\A b \in originals : b.counter = counter => counter \notin known)
                             => Stands(f, originals, known)
    BY <2>7, <2>8 DEF Stands
  <2> QED  BY <1>3, <2>6, <2>7, <2>9 DEF f
<1> QED  BY <1>2, <1>3

\* Clearing the audio changes nothing else.
LEMMA SilencedBlock ==
  ASSUME NEW b \in Blocks
  PROVE  /\ Silenced(b) \in Blocks /\ Silenced(b).counter = b.counter
         /\ Silenced(b).signal = b.signal /\ Silenced(b).time = b.time
<1>1. Silence \in [1..BlockSamples -> Samples]
  BY DEF Silence, Samples
<1> DEFINE a == b.audio
           n == b.counter
           u == b.time
           s == b.signal
<1>2. b = AudioBlock(n, u, s, MixdownSetup, a) /\ n \in Nat /\ u \in Nat /\ s \in Signals
  BY BlockData
<1> HIDE DEF a, n, u, s
<1>3. Silenced(b) = AudioBlock(n, u, s, MixdownSetup, Silence)
  BY <1>2 DEF Silenced, AudioBlock
<1>4. Silenced(b) \in Blocks
  BY <1>1, <1>2, <1>3, BlockMade
<1>5. /\ Silenced(b).counter = n /\ Silenced(b).signal = s /\ Silenced(b).time = u
  BY <1>3 DEF AudioBlock
<1> QED  BY <1>4, <1>5 DEF n, s, u

\* The block that arrived itself.
LEMMA ItselfStands ==
  ASSUME NEW originals, Distinct(originals), NEW o \in originals, NEW known, NEW first, NEW redundant,
         o.counter \in first
  PROVE  /\ Stands(o, originals, known) /\ Stands(Silenced(o), originals, known)
         /\ Sounds(o, originals, first, redundant)
<1>1. o \in Blocks /\ \A b \in originals : b.counter = o.counter => b = o
  BY DEF Distinct
<1>2. Silenced(o).counter = o.counter /\ Silenced(o).signal = o.signal /\ Silenced(o).time = o.time
  BY <1>1, SilencedBlock
<1>3. Stands(o, originals, known) /\ Sounds(o, originals, first, redundant)
  BY <1>1 DEF Stands, Sounds
<1>4. Stands(Silenced(o), originals, known)
  BY <1>1, <1>2 DEF Stands
<1> QED  BY <1>3, <1>4

\* What the queue gives out up to the packet that arrived.
LEMMA GivenOutStands ==
  ASSUME NEW originals, Distinct(originals), NEW m, Carries(m, originals), NEW last \in Blocks,
         last.counter < m.block.counter, NEW first, NEW redundant,
         m.block.counter \in first,
         \A x \in first : x <= last.counter \/ x = m.block.counter,
         \A x \in redundant : x <= last.counter \/ (m.fec # <<>> /\ m.fec[1].counter = x)
  PROVE  LET g == GivenOut(last, m)
         IN  /\ g \in Seq(Blocks) /\ Len(g) >= 1 /\ g[Len(g)].counter = m.block.counter
             /\ \A i \in 1..Len(g) : last.counter < g[i].counter /\ g[i].counter <= m.block.counter
             /\ \A i, j \in 1..Len(g) : i < j => g[i].counter < g[j].counter
             /\ \A i \in 1..Len(g) : Stands(g[i], originals, first \cup redundant)
             /\ Sounds(g[1], originals, first, redundant)
             /\ \A i \in 1..Len(g) : i > 1 => g[i - 1].counter \notin first
<1> DEFINE o == m.block
           l == last.counter
           n == o.counter
           known == first \cup redundant
           head == FillIn(m, l + 1)
           second == FillIn(m, n - 1)
           mute == Silenced(second)
           shared == m.fec = <<>> \/ m.fec[1].counter # second.counter
           final == IF shared THEN Silenced(o) ELSE o
           Fits(x) == x \in Blocks /\ Stands(x, originals, known)
<1>1. o \in originals /\ o \in Blocks /\ l \in Nat /\ n \in Nat /\ l < n
  BY BlockData DEF Carries, Distinct
<1>2. Fits(o) /\ Fits(Silenced(o)) /\ Silenced(o).counter = n /\ Sounds(o, originals, first, redundant)
  BY <1>1, ItselfStands, SilencedBlock
<1>3. ASSUME NEW x \in Nat, l < x, x < n
      PROVE  /\ Fits(FillIn(m, x)) /\ FillIn(m, x).counter = x
             /\ Sounds(FillIn(m, x), originals, first, redundant)
             /\ x \notin first
  <2> DEFINE f == FillIn(m, x)
  <2>1. x \notin first /\ (x \in redundant => m.fec # <<>> /\ m.fec[1].counter = x)
    BY <1>1, <1>3
  <2>2. \A b \in originals : b.counter = x /\ x \in known => m.fec # <<>> /\ m.fec[1].counter = x
    BY <2>1
  <2>3. /\ f \in Blocks /\ f.counter = x
        /\ (\A b \in originals : b.counter = x /\ x \in known => m.fec # <<>> /\ m.fec[1].counter = x)
              => Stands(f, originals, known)
        /\ m.fec # <<>> /\ m.fec[1].counter = x =>
                  \A b \in originals : b.counter = x => Reduced(f, b)
    <3> HIDE DEF known
    <3> QED  BY <1>3, FilledIn
  <2> HIDE DEF f
  <2>4. Sounds(f, originals, first, redundant)
    BY <2>1, <2>3 DEF Sounds
  <2>5. Stands(f, originals, known)
    <3> HIDE DEF known
    <3> QED  BY <2>2, <2>3
  <2> QED  BY <2>1, <2>3, <2>4, <2>5 DEF f
<1> HIDE DEF Fits
<1> DEFINE Good(g) == /\ g \in Seq(Blocks) /\ Len(g) >= 1 /\ g[Len(g)].counter = n
                      /\ \A i \in 1..Len(g) : l < g[i].counter /\ g[i].counter <= n
                      /\ \A i, j \in 1..Len(g) : i < j => g[i].counter < g[j].counter
                      /\ \A i \in 1..Len(g) : Fits(g[i])
                      /\ Sounds(g[1], originals, first, redundant)
                      /\ \A i \in 1..Len(g) : i > 1 => g[i - 1].counter \notin first
<1>4. \A x : Fits(x) => x \in Blocks
  BY DEF Fits
<1>5. CASE n - l - 1 = 0
  <2>1. GivenOut(last, m) = <<o>>
    <3>1. m.block.counter - last.counter - 1 = 0
      BY <1>5
    <3>2. m.block.counter - last.counter - 1 # 1
      BY <3>1
    <3> QED  BY <3>1, <3>2 DEF GivenOut
  <2> HIDE DEF o, l, n
  <2>2. <<o>> \in Seq(Blocks) /\ Len(<<o>>) = 1 /\ <<o>>[1] = o
    BY <1>1
  <2>3. \A i \in 1..1 : i = 1
    OBVIOUS
  <2>4. o.counter = n
    BY DEF n
  <2>5. Good(<<o>>)
    BY <1>1, <1>2, <2>2, <2>3, <2>4
  <2> QED  BY <2>1, <2>5 DEF o, n, l, Fits
<1>6. CASE n - l - 1 = 1
  <2>1. GivenOut(last, m) = <<head, o>>
    BY <1>1, <1>6 DEF GivenOut
  <2>2. /\ l + 1 \in Nat /\ l < l + 1 /\ l + 1 < n
    BY <1>1, <1>6
  <2>3. /\ Fits(head) /\ head.counter = l + 1 /\ Sounds(head, originals, first, redundant)
        /\ l + 1 \notin first
    BY <1>3, <2>2
  <2>4. o.counter = n
    OBVIOUS
  <2> HIDE DEF o, l, n, head
  <2>5. <<head, o>> \in Seq(Blocks) /\ Len(<<head, o>>) = 2 /\ <<head, o>>[1] = head /\ <<head, o>>[2] = o
    BY <1>1, <1>4, <2>3
  <2>6. \A i \in 1..2 : i = 1 \/ i = 2
    OBVIOUS
  <2> DEFINE g == <<head, o>>
  <2> HIDE DEF g
  <2>7. Good(g)
    BY <1>1, <1>2, <2>2, <2>3, <2>4, <2>5, <2>6 DEF g
  <2> QED  BY <2>1, <2>7 DEF o, n, l, Fits, g
<1>7. CASE n - l - 1 # 0 /\ n - l - 1 # 1
  <2>1. GivenOut(last, m) = <<head, mute, final>>
    BY <1>1, <1>7 DEF GivenOut
  <2>2. /\ l + 1 \in Nat /\ l < l + 1 /\ l + 1 < n - 1 /\ n - 1 \in Nat /\ n - 1 < n /\ l < n - 1 /\ l + 1 < n
    BY <1>1, <1>7
  <2>3. /\ Fits(head) /\ head.counter = l + 1 /\ Sounds(head, originals, first, redundant)
        /\ l + 1 \notin first
    BY <1>3, <2>2
  <2>4. Fits(second) /\ second.counter = n - 1 /\ n - 1 \notin first
    BY <1>3, <2>2
  <2>5. Fits(mute) /\ mute.counter = n - 1
    <3> HIDE DEF second
    <3>1. second \in Blocks
      BY <1>4, <2>4
    <3>2. mute \in Blocks /\ mute.counter = second.counter /\ mute.signal = second.signal /\ mute.time = second.time
      BY <3>1, SilencedBlock
    <3> HIDE DEF mute
    <3> QED  BY <2>4, <3>2 DEF Fits, Stands
  <2>6. Fits(final) /\ final.counter = n
    BY <1>2
  <2> HIDE DEF l, n, head, mute, final
  <2> DEFINE g == <<head, mute, final>>
  <2>7. g \in Seq(Blocks) /\ Len(g) = 3 /\ g[1] = head /\ g[2] = mute /\ g[3] = final
    BY <1>4, <2>3, <2>5, <2>6
  <2>8. \A i \in 1..3 : i = 1 \/ i = 2 \/ i = 3
    OBVIOUS
  <2> HIDE DEF g
  <2>9. Good(g)
    BY <1>1, <2>2, <2>3, <2>4, <2>5, <2>6, <2>7, <2>8
  <2> QED  BY <2>1, <2>9 DEF n, l, Fits, g
<1> QED  BY <1>5, <1>6, <1>7

\* The blocks a client has played: each stands for the one of its counter, and sounds
\* like it unless the one before it has not arrived itself.
PlayedWell(r, originals, first, redundant) ==
  \A k \in 1..Len(r) :
    /\ Stands(r[k], originals, first \cup redundant)
    /\ Sounds(r[k], originals, first, redundant) \/ (k > 1 /\ r[k - 1].counter \notin first)

\* Nothing is played twice or out of order.
Increasing(r) == \A i, j \in 1..Len(r) : i < j => r[i].counter < r[j].counter

\* Nothing that arrived is newer than what was given out last.
UpToDate(r, first, redundant) ==
  /\ r \in Seq(Blocks) /\ first \subseteq Nat /\ redundant \subseteq Nat
  /\ r = <<>> => first = {} /\ redundant = {}
  /\ r # <<>> => /\ r[Len(r)].counter \in first
                 /\ \A x \in first \cup redundant : x <= r[Len(r)].counter
  /\ Increasing(r)

\* A sequence behind another, the second one not empty.
LEMMA Joined ==
  ASSUME NEW S, NEW r \in Seq(S), NEW g \in Seq(S), Len(g) >= 1
  PROVE  LET t == r \o g
         IN  /\ t \in Seq(S) /\ Len(t) = Len(r) + Len(g) /\ t # <<>> /\ t[Len(t)] = g[Len(g)]
             /\ \A k \in 1..Len(r) : t[k] = r[k]
             /\ \A i \in 1..Len(g) : t[Len(r) + i] = g[i]
             /\ \A k \in 1..Len(t) : k \in 1..Len(r) \/ \E i \in 1..Len(g) : k = Len(r) + i
<1> DEFINE t == r \o g
           n == Len(r)
           h == Len(g)
<1>1. n \in Nat /\ h \in Nat /\ h >= 1
  OBVIOUS
<1>2. t \in Seq(S) /\ Len(t) = n + h
  OBVIOUS
<1>3. (\A k \in 1..n : t[k] = r[k]) /\ \A i \in 1..h : t[n + i] = g[i]
  OBVIOUS
<1>4. t # <<>>
  <2> HIDE DEF t, n, h
  <2>1. Len(t) # 0
    BY <1>1, <1>2
  <2> QED  BY <1>2, <2>1
<1> HIDE DEF t, n, h
<1>5. t[Len(t)] = g[h]
  BY <1>1, <1>2, <1>3
<1>6. ASSUME NEW k \in 1..(n + h), k \notin 1..n PROVE \E i \in 1..h : k = n + i
  <2>1. k - n \in 1..h /\ k = n + (k - n)
    BY <1>1, <1>6
  <2> QED  BY <2>1
<1> QED  BY <1>2, <1>3, <1>4, <1>5, <1>6 DEF t, n, h

\* A block keeps its standing when nothing about its counter arrives.
LEMMA StandsStill ==
  ASSUME NEW got, NEW originals, NEW first, NEW redundant, NEW first2, NEW redundant2,
         got.counter \in first2 <=> got.counter \in first,
         got.counter \in redundant2 => got.counter \in first \cup redundant
  PROVE  /\ Stands(got, originals, first \cup redundant) => Stands(got, originals, first2 \cup redundant2)
         /\ Sounds(got, originals, first, redundant) => Sounds(got, originals, first2, redundant2)
<1>1. got.counter \in first2 \cup redundant2 => got.counter \in first \cup redundant
  OBVIOUS
<1>2. Stands(got, originals, first \cup redundant) => Stands(got, originals, first2 \cup redundant2)
  BY <1>1 DEF Stands
<1>3. Sounds(got, originals, first, redundant) => Sounds(got, originals, first2, redundant2)
  BY DEF Sounds
<1> QED  BY <1>2, <1>3

\* A message arrives: what is given out continues what was played.
LEMMA PlaysOn ==
  ASSUME NEW originals, Distinct(originals), NEW m, Carries(m, originals),
         NEW r, NEW first, NEW redundant,
         UpToDate(r, first, redundant), PlayedWell(r, originals, first, redundant),
         r # <<>> => r[Len(r)].counter < m.block.counter,
         r # <<>> /\ m.fec # <<>> => r[Len(r)].counter <= m.fec[1].counter,
         m.fec # <<>> => m.fec[1].counter \in Nat /\ m.fec[1].counter < m.block.counter
  PROVE  LET t == IF r = <<>> THEN <<m.block>> ELSE r \o GivenOut(r[Len(r)], m)
             first2 == first \cup {m.block.counter}
             redundant2 == IF m.fec # <<>> THEN redundant \cup {m.fec[1].counter} ELSE redundant
         IN  UpToDate(t, first2, redundant2) /\ PlayedWell(t, originals, first2, redundant2)
<1> DEFINE o == m.block
           n == m.block.counter
           e == m.fec[1].counter
           first2 == first \cup {n}
           redundant2 == IF m.fec # <<>> THEN redundant \cup {e} ELSE redundant
<1>1. o \in originals /\ o \in Blocks /\ n \in Nat /\ r \in Seq(Blocks) /\ Len(r) \in Nat
      /\ first2 \subseteq Nat /\ redundant2 \subseteq Nat /\ n \in first2
  BY BlockData DEF Carries, Distinct, UpToDate
<1>2. CASE r = <<>>
  <2> DEFINE t == <<o>>
  <2>1. t \in Seq(Blocks) /\ Len(t) = 1 /\ t[1] = o /\ t # <<>>
    BY <1>1
  <2>2. Stands(o, originals, first2 \cup redundant2) /\ Sounds(o, originals, first2, redundant2)
    <3> HIDE DEF redundant2, first2
    <3> QED  BY <1>1, ItselfStands
  <2>3. \A x \in first2 \cup redundant2 : x <= n
    BY <1>1, <1>2 DEF UpToDate
  <2>4. \A i \in 1..1 : i = 1
    OBVIOUS
  <2> HIDE DEF t, first2, redundant2, n
  <2>5. PlayedWell(t, originals, first2, redundant2)
    BY <2>1, <2>2, <2>4 DEF PlayedWell
  <2>6. UpToDate(t, first2, redundant2)
    BY <1>1, <2>1, <2>3, <2>4 DEF UpToDate, Increasing, n
  <2> QED  BY <1>2, <2>5, <2>6 DEF t, first2, redundant2, n
<1>3. CASE r # <<>>
  <2> DEFINE last == r[Len(r)]
             l == last.counter
             g == GivenOut(last, m)
             t == r \o g
  <2>1. /\ last \in Blocks /\ l \in Nat /\ l < n /\ l \in first
        /\ \A x \in first \cup redundant : x <= l
        /\ m.fec # <<>> => e \in Nat /\ l <= e /\ e < n
        /\ first \subseteq Nat /\ redundant \subseteq Nat
    <3>1. last \in Blocks
      BY <1>1, <1>3
    <3> QED  BY <1>3, <3>1, BlockData DEF UpToDate
  <2>2. (\A x \in first2 : x <= l \/ x = n) /\ \A x \in redundant2 : x <= l \/ (m.fec # <<>> /\ e = x)
    BY <2>1
  <2>3. /\ g \in Seq(Blocks) /\ Len(g) >= 1 /\ g[Len(g)].counter = n
        /\ \A i \in 1..Len(g) : l < g[i].counter /\ g[i].counter <= n
        /\ \A i, j \in 1..Len(g) : i < j => g[i].counter < g[j].counter
        /\ \A i \in 1..Len(g) : Stands(g[i], originals, first2 \cup redundant2)
        /\ Sounds(g[1], originals, first2, redundant2)
        /\ \A i \in 1..Len(g) : i > 1 => g[i - 1].counter \notin first2
    <3> HIDE DEF first2, redundant2
    <3> QED  BY <1>1, <2>1, <2>2, GivenOutStands
  <2>4. /\ t \in Seq(Blocks) /\ Len(t) = Len(r) + Len(g) /\ t # <<>> /\ t[Len(t)] = g[Len(g)]
        /\ \A k \in 1..Len(r) : t[k] = r[k]
        /\ \A i \in 1..Len(g) : t[Len(r) + i] = g[i]
        /\ \A k \in 1..Len(t) : k \in 1..Len(r) \/ \E i \in 1..Len(g) : k = Len(r) + i
    <3> HIDE DEF g
    <3> QED  BY <1>1, <2>3, Joined
  <2>5. \A k \in 1..Len(r) : r[k].counter \in Nat /\ r[k].counter <= l /\ (r[k].counter = l => k = Len(r))
    <3> SUFFICES ASSUME NEW k \in 1..Len(r)
                 PROVE  r[k].counter \in Nat /\ r[k].counter <= l /\ (r[k].counter = l => k = Len(r))
      OBVIOUS
    <3>1. r[k].counter \in Nat
      BY <1>1, BlockData
    <3>2. k < Len(r) => r[k].counter < l
      <4>1. Len(r) \in 1..Len(r)
        BY <1>1
      <4> QED  BY <4>1 DEF UpToDate, Increasing
    <3> QED  BY <1>1, <2>1, <3>1, <3>2
  <2>6. \A i \in 1..Len(g) : g[i].counter \in Nat
    BY <2>3, BlockData
  <2>7. l \in first /\ Len(r) \in 1..Len(r)
    BY <1>1, <1>3, <2>1
  <2> HIDE DEF g, t
  <2>8. Increasing(t)
    <3> SUFFICES ASSUME NEW i \in 1..Len(t), NEW j \in 1..Len(t), i < j
                 PROVE  t[i].counter < t[j].counter
      BY DEF Increasing
    <3>1. CASE j \in 1..Len(r)
      <4>1. i \in 1..Len(r)
        BY <1>1, <2>4, <3>1
      <4> QED  BY <2>4, <3>1, <4>1 DEF UpToDate, Increasing
    <3>2. ASSUME NEW y \in 1..Len(g), j = Len(r) + y PROVE t[i].counter < t[j].counter
      <4>1. t[j] = g[y]
        BY <2>4, <3>2
      <4>2. CASE i \in 1..Len(r)
        <5>1. t[i] = r[i]
          BY <2>4, <4>2
        <5> HIDE DEF l
        <5> QED  BY <2>1, <2>3, <2>5, <2>6, <4>1, <4>2, <5>1
      <4>3. ASSUME NEW x \in 1..Len(g), i = Len(r) + x PROVE t[i].counter < t[j].counter
        <5>1. t[i] = g[x] /\ x < y
          BY <1>1, <2>4, <3>2, <4>3
        <5> QED  BY <2>3, <4>1, <5>1
      <4> QED  BY <2>4, <4>2, <4>3
    <3> QED  BY <2>4, <3>1, <3>2
  <2>9. UpToDate(t, first2, redundant2)
    <3>1. \A x \in first2 \cup redundant2 : x <= n
      BY <1>1, <2>1
    <3>2. t[Len(t)].counter = n
      BY <2>3, <2>4
    <3> HIDE DEF first2, redundant2, n
    <3> QED  BY <1>1, <2>4, <2>8, <3>1, <3>2 DEF UpToDate
  <2>10. ASSUME NEW k \in 1..Len(r)
         PROVE  /\ Stands(t[k], originals, first2 \cup redundant2)
                /\ Sounds(t[k], originals, first2, redundant2) \/ (k > 1 /\ t[k - 1].counter \notin first2)
    <3> DEFINE x == r[k]
    <3>1. t[k] = x /\ x.counter \in Nat /\ x.counter <= l
      BY <2>4, <2>5
    <3>2. x.counter \in first2 <=> x.counter \in first
      BY <2>1, <3>1
    <3>3. x.counter \in redundant2 => x.counter \in first \cup redundant
      BY <2>1, <3>1
    <3>4. /\ Stands(x, originals, first \cup redundant)
          /\ Sounds(x, originals, first, redundant) \/ (k > 1 /\ r[k - 1].counter \notin first)
      BY DEF PlayedWell
    <3>5. k > 1 /\ r[k - 1].counter \notin first => t[k - 1].counter \notin first2
      <4> SUFFICES ASSUME k > 1, r[k - 1].counter \notin first PROVE t[k - 1].counter \notin first2
        OBVIOUS
      <4>1. k - 1 \in 1..Len(r)
        BY <1>1
      <4>2. t[k - 1] = r[k - 1] /\ r[k - 1].counter <= l /\ r[k - 1].counter \in Nat
        BY <2>4, <2>5, <4>1
      <4> QED  BY <2>1, <4>2
    <3> HIDE DEF x, first2, redundant2
    <3> QED  BY <3>1, <3>2, <3>3, <3>4, <3>5, StandsStill
  <2>11. ASSUME NEW k \in 1..Len(t), NEW i \in 1..Len(g), k = Len(r) + i
         PROVE  /\ Stands(t[k], originals, first2 \cup redundant2)
                /\ Sounds(t[k], originals, first2, redundant2) \/ (k > 1 /\ t[k - 1].counter \notin first2)
    <3>1. t[k] = g[i]
      BY <2>4, <2>11
    <3>2. i = 1 \/ (i > 1 /\ i - 1 \in 1..Len(g) /\ k - 1 = Len(r) + (i - 1) /\ k > 1)
      BY <1>1, <2>3, <2>11
    <3>3. i > 1 => t[k - 1].counter \notin first2
      <4> SUFFICES ASSUME i > 1 PROVE t[k - 1].counter \notin first2
        OBVIOUS
      <4>1. PICK h \in 1..Len(g) : h = i - 1 /\ k - 1 = Len(r) + h
        BY <3>2
      <4>2. t[k - 1] = g[h]
        BY <2>4, <4>1
      <4>3. g[h].counter \notin first2
        BY <2>3, <4>1
      <4> QED  BY <4>2, <4>3
    <3> HIDE DEF first2, redundant2
    <3> QED  BY <2>3, <3>1, <3>2, <3>3
  <2>12. PlayedWell(t, originals, first2, redundant2)
    <3> HIDE DEF first2, redundant2
    <3> QED  BY <2>4, <2>10, <2>11 DEF PlayedWell
  <2> QED  BY <1>3, <2>9, <2>12 DEF t, g
<1> QED  BY <1>2, <1>3

\* The blocks produced for a client.
Originals(c) == {produced[c][i].block : i \in 1..Len(produced[c])}

\* What arrived was sent, and what was played continues it.
Hears(c) ==
  LET first == arrived[c].first
      redundant == arrived[c].redundant
  IN  /\ UpToDate(received[c], first, redundant)
      /\ \A x \in first \cup redundant :
           \E i \in 1..packageCounters[c] : x = produced[c][i].block.counter
      /\ PlayedWell(received[c], Originals(c), first, redundant)

\* Of all clients, with the types.
HeardInv ==
  /\ received \in [Clients -> Seq(Blocks)]
  /\ arrived \in [Clients -> [first : SUBSET Nat, redundant : SUBSET Nat]]
  /\ \A c \in Clients : Hears(c)

\* Every client has a ring.
RingsInv == DOMAIN fecData = Clients /\ RingInv

\* The packages of a client, by their counters.
LEMMA PackagesOf ==
  ASSUME QueueInv, NEW c \in Clients
  PROVE  /\ produced[c] \in Seq(Packages) /\ Len(produced[c]) \in Nat /\ Latest(c) \in Nat
         /\ packageCounters[c] \in Nat /\ packageCounters[c] <= Len(produced[c])
         /\ \A i \in 1..Len(produced[c]) : /\ produced[c][i].block \in Blocks
                                           /\ produced[c][i].block.counter \in Nat
                                           /\ produced[c][i].block.counter <= Latest(c)
         /\ \A i, j \in 1..Len(produced[c]) :
              i < j => produced[c][i].block.counter < produced[c][j].block.counter
         /\ Distinct(Originals(c))
<1> DEFINE s == produced[c]
<1>1. /\ s \in Seq(Packages) /\ Len(s) \in Nat /\ Latest(c) \in Nat
      /\ packageCounters[c] \in Nat /\ packageCounters[c] <= Len(s)
  BY LatestType DEF QueueInv, PackagesData, WaitingInv
<1>2. \A i \in 1..Len(s) : s[i].block \in Blocks /\ s[i].block.counter \in Nat
  BY <1>1, BlockFields
<1>3. /\ \A i, j \in 1..Len(s) : i < j => s[i].block.counter < s[j].block.counter
      /\ \A i \in 1..Len(s) : Latest(c) - s[i].block.counter >= Len(s) - i
  BY DEF QueueInv, ProducedInv, Produced
<1>4. \A i \in 1..Len(s) : s[i].block.counter <= Latest(c)
  <2> SUFFICES ASSUME NEW i \in 1..Len(s) PROVE s[i].block.counter <= Latest(c)
    OBVIOUS
  <2> DEFINE x == s[i].block.counter
             l == Latest(c)
             n == Len(s)
  <2>1. x \in Nat /\ l \in Nat /\ n \in Nat /\ i \in 1..n /\ l - x >= n - i
    BY <1>1, <1>2, <1>3
  <2> HIDE DEF x, l, n
  <2>2. x <= l
    BY <2>1
  <2> QED  BY <2>2 DEF x, l
<1>5. Distinct(Originals(c))
  <2>1. Originals(c) \subseteq Blocks
    BY <1>2 DEF Originals
  <2>2. ASSUME NEW a \in Originals(c), NEW b \in Originals(c), a.counter = b.counter PROVE a = b
    <3>1. PICK i \in 1..Len(s) : a = s[i].block
      BY DEF Originals
    <3>2. PICK j \in 1..Len(s) : b = s[j].block
      BY DEF Originals
    <3>3. i = j
      <4>1. i \in Nat /\ j \in Nat /\ ~(i < j) /\ ~(j < i)
        BY <1>1, <1>2, <1>3, <2>2, <3>1, <3>2
      <4> QED  BY <4>1
    <3> QED  BY <3>1, <3>2, <3>3
  <2> QED  BY <2>1, <2>2 DEF Distinct
<1> QED  BY <1>1, <1>2, <1>3, <1>4, <1>5

\* A later package stands for nothing that was played.
LEMMA StandsLater ==
  ASSUME NEW got, NEW originals, NEW known, NEW first, NEW redundant, NEW later,
         originals \subseteq later,
         \A b \in later : b.counter = got.counter => b \in originals
  PROVE  /\ Stands(got, originals, known) => Stands(got, later, known)
         /\ Sounds(got, originals, first, redundant) => Sounds(got, later, first, redundant)
<1>1. Stands(got, originals, known) => Stands(got, later, known)
  <2> SUFFICES ASSUME Stands(got, originals, known) PROVE Stands(got, later, known)
    OBVIOUS
  <2>1. (\A b \in later : b.time = b.counter) => \A b \in originals : b.time = b.counter
    OBVIOUS
  <2> QED  BY <2>1 DEF Stands
<1>2. Sounds(got, originals, first, redundant) => Sounds(got, later, first, redundant)
  BY DEF Sounds
<1> QED  BY <1>1, <1>2

\* A mix changes nothing for what was played.
LEMMA MixHeard ==
  ASSUME QueueInv, HeardInv, RingsInv, NEW mixed \in SUBSET Clients, NEW order \in Seq(mixed),
         NEW package \in [mixed -> Packages], Mixing(mixed, order, package)
  PROVE  HeardInv' /\ RingsInv'
<1>1. PackagesData /\ ProducedInv /\ WaitingInv
  BY DEF QueueInv
<1>2. /\ fecData' = fecData /\ packageCounters' = packageCounters /\ received' = received
      /\ arrived' = arrived
  BY DEF Mixing, heardVars
<1>3. ASSUME NEW c \in Clients, NEW i \in 1..packageCounters[c]
      PROVE  produced'[c][i] = produced[c][i]
  <2>1. i \in 1..Len(produced[c])
    BY PackagesOf
  <2> QED  BY <1>1, <2>1, AfterMix
<1>4. RingsInv'
  <2>1. ASSUME NEW c \in Clients, packageCounters[c] # 0
        PROVE  packageCounters[c] \in 1..packageCounters[c]
    BY <2>1, PackagesOf
  <2>2. \A c \in Clients : packageCounters[c] # 0 =>
          produced'[c][packageCounters[c]] = produced[c][packageCounters[c]]
    BY <1>3, <2>1
  <2> QED  BY <1>2, <2>2 DEF RingsInv, RingInv
<1>5. ASSUME NEW c \in Clients PROVE Hears(c)'
  <2> DEFINE r == received[c]
             first == arrived[c].first
             redundant == arrived[c].redundant
             o == Originals(c)
             o2 == {produced'[c][i].block : i \in 1..Len(produced'[c])}
  <2>1. /\ UpToDate(r, first, redundant) /\ PlayedWell(r, o, first, redundant)
        /\ \A x \in first \cup redundant :
             \E i \in 1..packageCounters[c] : x = produced[c][i].block.counter
    BY DEF HeardInv, Hears
  <2>2. /\ Len(produced[c]) \in Nat
        /\ \A i \in 1..Len(produced[c]) : /\ produced[c][i].block.counter \in Nat
                                          /\ produced[c][i].block.counter <= Latest(c)
        /\ packageCounters[c] \in Nat /\ packageCounters[c] <= Len(produced[c]) /\ Latest(c) \in Nat
    BY PackagesOf
  <2>3. /\ \A i \in 1..Len(produced[c]) : produced'[c][i] = produced[c][i]
        /\ c \in mixed => /\ Len(produced'[c]) = Len(produced[c]) + 1
                          /\ produced'[c][Len(produced[c]) + 1] = package[c]
        /\ c \notin mixed => produced'[c] = produced[c]
    BY <1>1, AfterMix
  <2>4. c \in mixed => package[c].block.counter \in Nat /\ package[c].block.counter > Latest(c)
    <3> SUFFICES ASSUME c \in mixed PROVE package[c].block.counter \in Nat /\ package[c].block.counter > Latest(c)
      OBVIOUS
    <3>1. PackageFor(c, package[c])
      BY DEF Mixing
    <3> QED  BY <2>2, <3>1, BlockFields DEF PackageFor
  <2>5. \A x \in first \cup redundant : x <= Latest(c) /\ x \in Nat
    <3> SUFFICES ASSUME NEW x \in first \cup redundant PROVE x <= Latest(c) /\ x \in Nat
      OBVIOUS
    <3>1. PICK i \in 1..packageCounters[c] : x = produced[c][i].block.counter
      BY <2>1
    <3>2. i \in 1..Len(produced[c])
      BY <2>2
    <3> QED  BY <2>2, <3>1, <3>2
  <2>6. \A k \in 1..Len(r) : r[k].counter \in Nat /\ r[k].counter <= Latest(c)
    <3> SUFFICES ASSUME NEW k \in 1..Len(r) PROVE r[k].counter \in Nat /\ r[k].counter <= Latest(c)
      OBVIOUS
    <3>1. r \in Seq(Blocks) /\ Len(r) \in Nat /\ r # <<>> /\ Len(r) \in 1..Len(r)
      BY <2>1 DEF UpToDate
    <3>2. r[k] \in Blocks /\ r[Len(r)] \in Blocks
      BY <3>1
    <3>3. r[k].counter \in Nat /\ r[Len(r)].counter \in Nat
      BY <3>2, BlockData
    <3>4. r[k].counter <= r[Len(r)].counter
      <4>1. k < Len(r) \/ k = Len(r)
        BY <3>1
      <4>2. k < Len(r) => r[k].counter < r[Len(r)].counter
        BY <2>1, <3>1 DEF UpToDate, Increasing
      <4> QED  BY <3>3, <4>1, <4>2
    <3>5. r[Len(r)].counter \in first
      BY <2>1, <3>1 DEF UpToDate
    <3>6. r[Len(r)].counter <= Latest(c)
      BY <2>5, <3>5
    <3> HIDE DEF r
    <3> QED  BY <2>2, <3>3, <3>4, <3>6
  <2>7. o \subseteq o2 /\ \A b \in o2 : b \in o \/ (c \in mixed /\ b = package[c].block)
    <3>1. CASE c \in mixed
      <4> DEFINE n == Len(produced[c])
      <4>1. /\ Len(produced'[c]) = n + 1 /\ produced'[c][n + 1] = package[c] /\ n \in Nat
            /\ \A i \in 1..n : produced'[c][i] = produced[c][i]
        BY <2>2, <2>3, <3>1
      <4>2. o = {produced[c][i].block : i \in 1..n}
        BY DEF Originals
      <4>3. \A i \in 1..(n + 1) : i \in 1..n \/ i = n + 1
        BY <4>1
      <4>4. \A i \in 1..n : i \in 1..(n + 1)
        BY <4>1
      <4> HIDE DEF o, n
      <4> QED  BY <3>1, <4>1, <4>2, <4>3, <4>4
    <3>2. CASE c \notin mixed
      BY <2>3, <3>2 DEF Originals
    <3> QED  BY <3>1, <3>2
  <2>8. ASSUME NEW k \in 1..Len(r)
        PROVE  /\ Stands(r[k], o2, first \cup redundant)
               /\ Sounds(r[k], o2, first, redundant) \/ (k > 1 /\ r[k - 1].counter \notin first)
    <3>1. \A b \in o2 : b.counter = r[k].counter => b \in o
      <4> SUFFICES ASSUME NEW b \in o2, b.counter = r[k].counter, b \notin o PROVE FALSE
        OBVIOUS
      <4>1. c \in mixed /\ b = package[c].block
        BY <2>7
      <4>2. b.counter \in Nat /\ b.counter > Latest(c)
        BY <2>4, <4>1
      <4>3. r[k].counter \in Nat /\ r[k].counter <= Latest(c)
        BY <2>6
      <4> HIDE DEF r, o, o2
      <4> QED  BY <2>2, <4>2, <4>3
    <3>2. /\ Stands(r[k], o, first \cup redundant)
          /\ Sounds(r[k], o, first, redundant) \/ (k > 1 /\ r[k - 1].counter \notin first)
      BY <2>1 DEF PlayedWell
    <3> HIDE DEF r, o, o2, first, redundant
    <3> QED  BY <2>7, <3>1, <3>2, StandsLater
  <2>9. PlayedWell(r, o2, first, redundant)
    <3> HIDE DEF r, o2, first, redundant
    <3> QED  BY <2>8 DEF PlayedWell
  <2>10. \A x \in first \cup redundant :
           \E i \in 1..packageCounters[c] : x = produced'[c][i].block.counter
    BY <1>3, <2>1
  <2> QED  BY <1>2, <2>1, <2>9, <2>10 DEF Hears, Originals
<1>6. HeardInv'
  BY <1>2, <1>5 DEF HeardInv
<1> QED  BY <1>4, <1>6

\* SendThread pushes the block it sends.
LEMMA SendRings ==
  ASSUME QueueInv, RingsInv, SendNext
  PROVE  RingsInv'
<1>0. PICK c : c = Head(outgoing).target
  OBVIOUS
<1> DEFINE p == Head(outgoing)
           n == packageCounters[c]
<1>1. /\ outgoing # <<>> /\ produced' = produced
      /\ packageCounters' = [packageCounters EXCEPT ![c] = @ + 1]
      /\ fecData' = [fecData EXCEPT ![c] = push(@, p.block)]
  BY <1>0 DEF SendNext
<1>2. c \in Clients /\ n \in Nat /\ p = produced[c][n + 1]
  BY <1>0, <1>1, HeadIsNext DEF QueueInv
<1>3. /\ DOMAIN fecData = Clients /\ packageCounters \in [Clients -> Nat] /\ RingInv
  BY DEF RingsInv, QueueInv, PackagesData
<1>4. /\ DOMAIN fecData' = Clients /\ fecData'[c] = push(fecData[c], p.block)
      /\ packageCounters'[c] = n + 1 /\ n + 1 # 0
      /\ \A d \in Clients : d # c => fecData'[d] = fecData[d] /\ packageCounters'[d] = packageCounters[d]
  <2> HIDE DEF p
  <2> QED  BY <1>1, <1>2, <1>3
<1>5. IsRing(fecData[c])
  BY <1>2, <1>3 DEF RingInv
<1>6. IsRing(fecData'[c]) /\ ~isEmpty(fecData'[c]) /\ getLast(fecData'[c]) = p.block
  BY <1>4, <1>5, PushedIsLast
<1> HIDE DEF p, n
<1>7. ASSUME NEW d \in Clients
      PROVE  /\ IsRing(fecData'[d])
             /\ IF packageCounters'[d] = 0 THEN isEmpty(fecData'[d])
                ELSE ~isEmpty(fecData'[d]) /\ getLast(fecData'[d]) = produced'[d][packageCounters'[d]].block
  <2>1. CASE d = c
    BY <1>1, <1>2, <1>4, <1>6, <2>1
  <2>2. CASE d # c
    BY <1>1, <1>3, <1>4, <2>2 DEF RingInv
  <2> QED  BY <2>1, <2>2
<1> QED  BY <1>4, <1>7 DEF RingsInv, RingInv

\* What the client hears of the package sent, if it arrives.
LEMMA SendHeard ==
  ASSUME QueueInv, RingsInv, HeardInv, SendNext
  PROVE  HeardInv'
<1>0. PICK c : c = Head(outgoing).target
  OBVIOUS
<1> DEFINE n == packageCounters[c]
           m == deserialize(serialize(AudioFor(Head(outgoing))))
           r == received[c]
           first == arrived[c].first
           redundant == arrived[c].redundant
           t == IF r = <<>> THEN <<m.block>> ELSE r \o GivenOut(r[Len(r)], m)
           first2 == first \cup {m.block.counter}
           redundant2 == IF m.fec # <<>> THEN redundant \cup {m.fec[1].counter} ELSE redundant
           redundant3 == IF fec /\ n > 0 THEN redundant \cup {produced[c][n].block.counter}
                         ELSE redundant
<1>1. /\ outgoing # <<>> /\ produced' = produced
      /\ packageCounters' = [packageCounters EXCEPT ![c] = @ + 1]
      /\ HearAudio(c, m) \/ UNCHANGED <<received, arrived>>
  <2>1. PackagesData
    BY DEF QueueInv
  <2>2. HearAudio(c, m) \/ UNCHANGED <<received, arrived>>
    BY <1>0, <2>1, SendSession
  <2> QED  BY <1>0, <2>2 DEF SendNext
<1>2. c \in Clients /\ n \in Nat /\ n + 1 \in 1..Len(produced[c])
  BY <1>0, <1>1, HeadIsNext DEF QueueInv
<1>3. /\ received \in [Clients -> Seq(Blocks)] /\ packageCounters \in [Clients -> Nat]
      /\ arrived \in [Clients -> [first : SUBSET Nat, redundant : SUBSET Nat]]
      /\ \A d \in Clients : Hears(d)
  BY DEF HeardInv, QueueInv, PackagesData
<1>4. packageCounters'[c] = n + 1 /\ \A d \in Clients : d # c => packageCounters'[d] = packageCounters[d]
  BY <1>1, <1>2, <1>3
<1>5. ASSUME NEW d \in Clients, received'[d] = received[d], arrived'[d] = arrived[d]
      PROVE  Hears(d)'
  <2>1. packageCounters[d] \in Nat /\ packageCounters'[d] \in Nat /\ packageCounters[d] <= packageCounters'[d]
    BY <1>2, <1>3, <1>4
  <2>2. \A i \in 1..packageCounters[d] : i \in 1..packageCounters'[d]
    BY <2>1
  <2>3. Hears(d)
    BY <1>3
  <2> QED  BY <1>1, <1>5, <2>2, <2>3 DEF Hears, Originals
<1>6. CASE UNCHANGED <<received, arrived>>
  BY <1>3, <1>5, <1>6 DEF HeardInv
<1>7. CASE HearAudio(c, m)
  <2>1. /\ m.block = produced[c][n + 1].block /\ (m.fec # <<>> <=> fec /\ n > 0)
        /\ m.fec # <<>> => Redundant(m.fec[1], produced[c][n].block)
    BY <1>0, <1>1, MessageArrives DEF RingsInv
  <2>2. m.fec # <<>> => n \in 1..n /\ m.fec[1].counter = produced[c][n].block.counter
    BY <1>2, <2>1 DEF Redundant
  <2>3. /\ received' = [received EXCEPT ![c] = IF @ = <<>> THEN <<m.block>> ELSE @ \o GivenOut(@[Len(@)], m)]
        /\ arrived' = [arrived EXCEPT ![c] =
             [first |-> @.first \cup {m.block.counter},
              redundant |-> IF fec /\ packageCounters[c] > 0
                            THEN @.redundant \cup {produced[c][packageCounters[c]].block.counter}
                            ELSE @.redundant]]
    <3> HIDE DEF m
    <3> QED  BY <1>7 DEF HearAudio
  <2> HIDE DEF m
  <2>4. /\ received'[c] = t /\ arrived'[c] = [first |-> first2, redundant |-> redundant3]
        /\ \A d \in Clients : d # c => received'[d] = received[d] /\ arrived'[d] = arrived[d]
    BY <1>2, <1>3, <2>3
  <2>5. redundant3 = redundant2
    BY <2>1, <2>2
  <2>6. /\ UpToDate(r, first, redundant) /\ PlayedWell(r, Originals(c), first, redundant)
        /\ \A x \in first \cup redundant :
             \E i \in 1..n : x = produced[c][i].block.counter
    BY <1>2, <1>3 DEF Hears
  <2>7. /\ Len(produced[c]) \in Nat /\ Distinct(Originals(c)) /\ n <= Len(produced[c])
        /\ \A i \in 1..Len(produced[c]) : /\ produced[c][i].block \in Blocks
                                          /\ produced[c][i].block.counter \in Nat
        /\ \A i, j \in 1..Len(produced[c]) :
              i < j => produced[c][i].block.counter < produced[c][j].block.counter
    BY <1>2, PackagesOf
  <2>8. /\ \A i \in 1..n : i \in 1..Len(produced[c]) /\ i < n + 1
        /\ \A i \in 1..n : i < n \/ i = n
    BY <1>2, <2>7
  <2>9. \A i \in 1..n : produced[c][i].block.counter < m.block.counter
    BY <1>2, <2>1, <2>7, <2>8
  <2>10. m.fec # <<>> => \A i \in 1..n : produced[c][i].block.counter <= m.fec[1].counter
    <3> SUFFICES ASSUME m.fec # <<>>, NEW i \in 1..n
                 PROVE  produced[c][i].block.counter <= produced[c][n].block.counter
      BY <2>2
    <3>1. n \in 1..Len(produced[c]) /\ i \in 1..Len(produced[c])
      BY <2>2, <2>8
    <3> QED  BY <2>7, <2>8, <3>1
  <2>11. Carries(m, Originals(c))
    <3>1. m.block \in Originals(c)
      BY <1>2, <2>1 DEF Originals
    <3>2. m.fec # <<>> => /\ produced[c][n].block \in Originals(c)
                          /\ produced[c][n].block.counter < m.block.counter
      BY <2>2, <2>8, <2>9 DEF Originals
    <3> QED  BY <2>1, <3>1, <3>2 DEF Carries
  <2>12. r # <<>> => \E i \in 1..n : r[Len(r)].counter = produced[c][i].block.counter
    BY <2>6 DEF UpToDate
  <2>13. /\ r # <<>> => r[Len(r)].counter < m.block.counter
         /\ r # <<>> /\ m.fec # <<>> => r[Len(r)].counter <= m.fec[1].counter
    BY <2>9, <2>10, <2>12
  <2>14. m.fec # <<>> => m.fec[1].counter \in Nat /\ m.fec[1].counter < m.block.counter
    BY <2>2, <2>7, <2>8, <2>9
  <2>15. UpToDate(t, first2, redundant2) /\ PlayedWell(t, Originals(c), first2, redundant2)
    <3> HIDE DEF r, first, redundant
    <3> QED  BY <2>6, <2>7, <2>11, <2>13, <2>14, PlaysOn
  <2>16. \A x \in first2 \cup redundant2 : \E i \in 1..(n + 1) : x = produced[c][i].block.counter
    <3>1. \A x \in first \cup redundant : \E i \in 1..(n + 1) : x = produced[c][i].block.counter
      <4>1. \A i \in 1..n : i \in 1..(n + 1)
        BY <1>2
      <4> QED  BY <2>6, <4>1
    <3>2. \E i \in 1..(n + 1) : m.block.counter = produced[c][i].block.counter
      <4>1. n + 1 \in 1..(n + 1)
        BY <1>2
      <4> QED  BY <2>1, <4>1
    <3>3. m.fec # <<>> => \E i \in 1..(n + 1) : m.fec[1].counter = produced[c][i].block.counter
      <4>1. n \in 1..n => n \in 1..(n + 1)
        BY <1>2
      <4> QED  BY <2>2, <4>1
    <3> HIDE DEF first, redundant
    <3> QED  BY <3>1, <3>2, <3>3
  <2> HIDE DEF t, first2, redundant2, redundant3
  <2>17. Hears(c)'
    <3>1. arrived'[c].first = first2 /\ arrived'[c].redundant = redundant2
      BY <2>4, <2>5
    <3> HIDE DEF n
    <3> QED  BY <1>1, <1>4, <2>4, <2>15, <2>16, <3>1 DEF Hears, Originals
  <2>18. \A d \in Clients : Hears(d)'
    BY <1>5, <2>4, <2>17
  <2>19. t \in Seq(Blocks) /\ first2 \in SUBSET Nat /\ redundant2 \in SUBSET Nat
    BY <2>15 DEF UpToDate
  <2>20. received' \in [Clients -> Seq(Blocks)]
    BY <1>2, <1>3, <2>3, <2>19 DEF t
  <2>21. arrived' \in [Clients -> [first : SUBSET Nat, redundant : SUBSET Nat]]
    <3>1. arrived' = [arrived EXCEPT ![c] = [first |-> first2, redundant |-> redundant3]]
      BY <2>3 DEF first2, redundant3
    <3>2. [first |-> first2, redundant |-> redundant3] \in [first : SUBSET Nat, redundant : SUBSET Nat]
      BY <2>5, <2>19
    <3> QED  BY <1>2, <1>3, <3>1, <3>2
  <2> QED  BY <2>18, <2>20, <2>21 DEF HeardInv
<1> QED  BY <1>1, <1>6, <1>7

\* For any ring, block length, losses and changes of the FEC switch: what a client plays
\* for a counter is that block, or stands in for it without inventing a signal; a signal
\* that arrived, itself or as a redundant block, is played; and the audio and the time
\* are right where PlayedIsHonest says so.
THEOREM PlaysHonestly == SessionMixSpec => []PlayedIsHonest
<1> DEFINE I == QueueInv /\ RosterInv /\ RingsInv /\ HeardInv
<1>1. SessionMixInit => I
  <2> SUFFICES ASSUME SessionMixInit PROVE I
    OBVIOUS
  <2>1. QueueInv /\ RosterInv
    BY SessionStart
  <2>2. RingsInv
    <3>1. /\ fecData = [c \in Clients |-> EmptyRing(FecRingSize)]
          /\ packageCounters = [c \in Clients |-> 0]
      BY DEF SessionMixInit
    <3> QED  BY <3>1, EmptyRingIsRing DEF RingsInv, RingInv
  <2>3. /\ received = [c \in Clients |-> <<>>]
        /\ arrived = [c \in Clients |-> [first |-> {}, redundant |-> {}]]
    BY DEF SessionMixInit
  <2>4. received \in [Clients -> Seq(Blocks)]
    <3>1. <<>> \in Seq(Blocks)
      OBVIOUS
    <3> QED  BY <2>3, <3>1
  <2>5. arrived \in [Clients -> [first : SUBSET Nat, redundant : SUBSET Nat]]
    BY <2>3
  <2>6. ASSUME NEW c \in Clients PROVE Hears(c)
    <3>1. received[c] = <<>> /\ arrived[c].first = {} /\ arrived[c].redundant = {}
      BY <2>3
    <3>2. <<>> \in Seq(Blocks) /\ Len(<<>>) = 0
      OBVIOUS
    <3> QED  BY <3>1, <3>2 DEF Hears, UpToDate, PlayedWell, Increasing
  <2> QED  BY <2>1, <2>2, <2>4, <2>5, <2>6 DEF HeardInv
<1>2. I /\ [SessionMixNext]_sessionMixVars => I'
  <2> SUFFICES ASSUME I, [SessionMixNext]_sessionMixVars PROVE I'
    OBVIOUS
  <2>1. QueueInv' /\ RosterInv'
    BY SessionStep
  <2>2. CASE Mix
    <3>1. PackagesData
      BY DEF QueueInv
    <3>2. PICK mixed \in SUBSET Clients :
            \E order \in Seq(mixed), package \in [mixed -> Packages] : Mixing(mixed, order, package)
      BY <2>2, <3>1, MixEffect
    <3>3. PICK order \in Seq(mixed), package \in [mixed -> Packages] : Mixing(mixed, order, package)
      BY <3>2
    <3> QED  BY <2>1, <3>3, MixHeard
  <2>3. CASE SendNext
    BY <2>1, <2>3, SendRings, SendHeard
  <2>4. CASE ChangeSetup \/ SetUseFEC \/ UNCHANGED sessionMixVars
    <3>1. /\ fecData' = fecData /\ packageCounters' = packageCounters /\ produced' = produced
          /\ received' = received /\ arrived' = arrived
      BY <2>4 DEF ChangeSetup, SetUseFEC, sessionMixVars, serverVars, heardVars
    <3>2. RingsInv'
      BY <3>1 DEF RingsInv, RingInv
    <3>3. ASSUME NEW c \in Clients PROVE Hears(c)'
      <4>1. Hears(c)
        BY DEF HeardInv
      <4> QED  BY <3>1, <4>1 DEF Hears, Originals
    <3>4. HeardInv'
      BY <3>1, <3>3 DEF HeardInv
    <3> QED  BY <2>1, <3>2, <3>4
  <2> QED  BY <2>2, <2>3, <2>4 DEF SessionMixNext
<1>3. I => PlayedIsHonest
  <2> SUFFICES ASSUME I, NEW c \in Clients, NEW k \in DOMAIN received[c]
               PROVE  LET got       == received[c][k]
                          originals == {produced[c][i].block : i \in DOMAIN produced[c]}
                          regular   == Len(produced[c]) = mixTime /\ Latest(c) = mixTime
                      IN  /\ k > 1 => got.counter > received[c][k - 1].counter
                          /\ got.signal # "none" => \E b \in originals : b.counter = got.counter
                          /\ \A b \in originals : b.counter = got.counter =>
                               /\ got.signal \in {b.signal, "none"}
                               /\ got.counter \in arrived[c].first \cup arrived[c].redundant => got.signal = b.signal
                               /\ \/ k > 1 /\ received[c][k - 1].counter \notin arrived[c].first
                                  \/ IF got.counter \in arrived[c].first THEN got.audio = b.audio
                                     ELSE got.counter \in arrived[c].redundant =>
                                            \A i \in 1..BlockSamples :
                                              got.audio[i] = b.audio[i - ((i - 1) % FecReduction)]
                          /\ regular => got.time = got.counter
    BY DEF PlayedIsHonest
  <2> DEFINE r == received[c]
             got == r[k]
             o == Originals(c)
             first == arrived[c].first
             redundant == arrived[c].redundant
  <2>1. /\ UpToDate(r, first, redundant) /\ PlayedWell(r, o, first, redundant)
    BY DEF HeardInv, Hears
  <2>2. r \in Seq(Blocks) /\ k \in 1..Len(r) /\ Len(r) \in Nat
    BY <2>1 DEF UpToDate
  <2>3. /\ produced[c] \in Seq(Packages) /\ Len(produced[c]) \in Nat
    BY PackagesOf
  <2>4. o = {produced[c][i].block : i \in DOMAIN produced[c]}
    BY <2>3 DEF Originals
  <2>5. /\ Stands(got, o, first \cup redundant)
        /\ Sounds(got, o, first, redundant) \/ (k > 1 /\ r[k - 1].counter \notin first)
    BY <2>1, <2>2 DEF PlayedWell
  <2>6. k > 1 => got.counter > r[k - 1].counter
    <3> SUFFICES ASSUME k > 1 PROVE got.counter > r[k - 1].counter
      OBVIOUS
    <3>1. k - 1 \in 1..Len(r) /\ k - 1 < k
      BY <2>2
    <3>2. r[k - 1].counter < r[k].counter
      BY <2>1, <2>2, <3>1 DEF UpToDate, Increasing
    <3>3. r[k - 1].counter \in Nat /\ r[k].counter \in Nat
      BY <2>2, <3>1, BlockData
    <3> QED  BY <3>2, <3>3
  <2>7. Len(produced[c]) = mixTime /\ Latest(c) = mixTime => \A b \in o : b.time = b.counter
    <3> SUFFICES ASSUME Len(produced[c]) = mixTime, Latest(c) = mixTime,
                        NEW i \in 1..Len(produced[c])
                 PROVE  produced[c][i].block.time = produced[c][i].block.counter
      BY DEF Originals
    <3> DEFINE x == produced[c][i].block.counter
               u == produced[c][i].block.time
               n == Len(produced[c])
    <3>1. x \in Nat /\ u \in Nat
      BY <2>3, BlockFields
    <3>2. x >= i /\ Latest(c) - x >= n - i /\ u >= i /\ mixTime - u >= n - i
      BY DEF QueueInv, ProducedInv, Produced
    <3>3. mixTime \in Nat /\ mixTime = n /\ Latest(c) = n /\ n \in Nat /\ i \in 1..n
      BY <2>3
    <3> HIDE DEF x, u, n
    <3>4. x = i /\ u = i
      BY <3>1, <3>2, <3>3
    <3> QED  BY <3>4 DEF x, u
  <2> HIDE DEF got, o, first, redundant
  <2>8. /\ got.signal # "none" => \E b \in o : b.counter = got.counter
        /\ \A b \in o : b.counter = got.counter =>
             /\ got.signal \in {b.signal, "none"}
             /\ got.counter \in first \cup redundant => got.signal = b.signal
             /\ \/ k > 1 /\ r[k - 1].counter \notin first
                \/ IF got.counter \in first THEN got.audio = b.audio
                   ELSE got.counter \in redundant =>
                          \A i \in 1..BlockSamples :
                            got.audio[i] = b.audio[i - ((i - 1) % FecReduction)]
        /\ Len(produced[c]) = mixTime /\ Latest(c) = mixTime => got.time = got.counter
    <3>1. /\ got.signal # "none" => \E b \in o : b.counter = got.counter
          /\ Len(produced[c]) = mixTime /\ Latest(c) = mixTime => got.time = got.counter
      BY <2>5, <2>7 DEF Stands
    <3> SUFFICES ASSUME NEW b \in o, b.counter = got.counter
                 PROVE  /\ got.signal \in {b.signal, "none"}
                        /\ got.counter \in first \cup redundant => got.signal = b.signal
                        /\ \/ k > 1 /\ r[k - 1].counter \notin first
                           \/ IF got.counter \in first THEN got.audio = b.audio
                              ELSE got.counter \in redundant =>
                                     \A i \in 1..BlockSamples :
                                       got.audio[i] = b.audio[i - ((i - 1) % FecReduction)]
      BY <3>1
    <3>2. got.signal \in {b.signal, "none"} /\ (got.counter \in first \cup redundant => got.signal = b.signal)
      BY <2>5 DEF Stands
    <3>3. Sounds(got, o, first, redundant) =>
            IF got.counter \in first THEN got.audio = b.audio
            ELSE got.counter \in redundant => Reduced(got, b)
      BY DEF Sounds
    <3> QED  BY <2>5, <3>2, <3>3 DEF Reduced
  <2> QED  BY <2>4, <2>6, <2>8 DEF got, first, redundant
<1> QED  BY <1>1, <1>2, <1>3, PTL DEF SessionMixSpec
===============================================================================
