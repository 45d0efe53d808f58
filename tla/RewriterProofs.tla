---------------------------- MODULE RewriterProofs ----------------------------
(***************************************************************************)
(* Proofs about Rewriter, for any packets and any ranges of the counters.  *)
(***************************************************************************)
EXTENDS Rewriter, TLAPS

\* A number is given by how often it wrapped and by what is left.
LEMMA Division ==
  ASSUME NEW a \in Nat, NEW n \in Nat, n > 0
  PROVE  /\ a \div n \in Nat
         /\ a % n \in 0..(n - 1)
         /\ a = (a \div n) * n + (a % n)
BY Z3

\* A number that has not wrapped is its own remainder.
LEMMA SmallRemainder ==
  ASSUME NEW a \in Nat, NEW n \in Nat, a < n
  PROVE  a % n = a
BY Z3

\* Multiples keep the order of their factors.
LEMMA Multiples ==
  ASSUME NEW a \in Int, NEW b \in Int, NEW n \in Nat, a <= b
  PROVE  a * n <= b * n
BY Z3

\* Numbers less than half a cycle apart wrapped equally often, or one of them
\* once more.
LEMMA NearbyCycles ==
  ASSUME NEW n \in Nat, n > 0,
         NEW p \in Nat, NEW q \in Nat,
         NEW x \in 0..(n - 1), NEW r \in 0..(n - 1),
         Near(p * n + x, q * n + r, n)
  PROVE  p \in {q - 1, q, q + 1}
<1>1. ASSUME p >= q + 2
      PROVE  FALSE
  <2>1. (q + 2) * n <= p * n
    BY <1>1, Multiples
  <2>2. (q + 2) * n = q * n + 2 * n
    BY Z3
  <2> QED
    BY <2>1, <2>2, Z3 DEF Near
<1>2. ASSUME q >= p + 2
      PROVE  FALSE
  <2>1. (p + 2) * n <= q * n
    BY <1>2, Multiples
  <2>2. (p + 2) * n = p * n + 2 * n
    BY Z3
  <2> QED
    BY <2>1, <2>2, Z3 DEF Near
<1> QED
  BY <1>1, <1>2

\* ExpandCounter finds the number that is less than half a cycle away from
\* the latest one.
LEMMA ExpandCounterFinds ==
  ASSUME NEW n \in Nat, n > 1, Word \in Nat,
         NEW x \in Nat, NEW latest \in Nat,
         Near(x, latest, n), x < Word
  PROVE  ExpandCounter(x % n, n, latest) = x
<1> DEFINE p == x \div n
           q == latest \div n
           t == x % n
           r == latest % n
<1>1. /\ p \in Nat /\ t \in 0..(n - 1) /\ x = p * n + t
      /\ q \in Nat /\ r \in 0..(n - 1) /\ latest = q * n + r
  BY Division
<1>2. p \in {q - 1, q, q + 1}
  <2>1. Near(p * n + t, q * n + r, n)
    BY <1>1
  <2>2. n > 0
    OBVIOUS
  <2> HIDE DEF p, q, t, r
  <2> QED
    BY <1>1, <2>1, <2>2, NearbyCycles, Zenon
<1> DEFINE half == n \div 2
<1>3. half \in Nat /\ (n = 2 * half \/ n = 2 * half + 1)
  BY Z3
<1> DEFINE ROC == IF r > t /\ r - t > half THEN q + 1
                  ELSE IF q > 0 /\ t > r /\ t - r > half THEN q - 1 ELSE q
<1>4. ExpandCounter(t, n, latest) = (ROC * n + t) % Word
  BY DEF ExpandCounter
<1>5. 2 * (x - latest) < n /\ 2 * (latest - x) < n
  BY DEF Near
<1> HIDE DEF p, q, t, r, half
<1>6. ROC = p
  <2>1. CASE p = q
    <3>1. x - latest = t - r
      BY <1>1, <2>1, Z3
    <3> QED
      BY <1>1, <1>3, <1>5, <2>1, <3>1, Z3
  <2>2. CASE p = q + 1
    <3>1. x - latest = n + t - r
      BY <1>1, <2>2, Z3
    <3> QED
      BY <1>1, <1>3, <1>5, <2>2, <3>1, Z3
  <2>3. CASE p = q - 1
    <3>1. latest - x = n + r - t
      BY <1>1, <2>3, Z3
    <3> QED
      BY <1>1, <1>3, <1>5, <2>3, <3>1, Z3
  <2> QED
    BY <1>2, <2>1, <2>2, <2>3
<1>7. x % Word = x
  BY Z3
<1> QED
  BY <1>1, <1>4, <1>6, <1>7 DEF t

\* What is left of a number does not change when it wraps some more times.
LEMMA RemainderOfMultiple ==
  ASSUME NEW n \in Nat, n > 0, NEW k \in Nat, NEW x \in Nat
  PROVE  (k * n + x) % n = x % n
<1> DEFINE p == x \div n
           t == x % n
<1>1. p \in Nat /\ t \in 0..(n - 1) /\ x = p * n + t
  BY Division
<1> HIDE DEF p, t
<1>2. k * n + x = (k + p) * n + t
  BY <1>1, Z3
<1>3. ((k + p) * n + t) % n = t
  BY <1>1, Z3
<1> QED
  BY <1>2, <1>3 DEF t

\* The rewriter counts from what it saw of the first packet after a switch.
\* It expands the identifier of a later one that is less than half a cycle
\* from the newest one so that it is as far from the first as it really is.
LEMMA ExpandsTruly ==
  ASSUME NEW n \in Nat, n > 1, Word \in Nat,
         NEW first \in Nat, NEW new \in Nat, NEW number \in Nat,
         first <= new, first <= number, Near(number, new, n),
         NEW latest, latest = (first % n) + (new - first),
         NEW x, x = (first % n) + (number - first), x < Word
  PROVE  ExpandCounter(number % n, n, latest) = x
<1> DEFINE f == first % n
           k == first \div n
<1>1. k \in Nat /\ f \in 0..(n - 1) /\ first = k * n + f
  BY Division
<1>2. x \in Nat /\ latest \in Nat
  BY <1>1
<1>3. Near(x, latest, n)
  BY <1>1 DEF Near
<1>4. number = k * n + x
  <2>1. x = f + (number - first)
    OBVIOUS
  <2> HIDE DEF k, f
  <2> QED
    BY <1>1, <2>1, Z3
<1>5. number % n = x % n
  <2>1. n > 0
    OBVIOUS
  <2> HIDE DEF k
  <2> QED
    <3>1. k \in Nat /\ x \in Nat
      BY <1>1, <1>2
    <3>2. (k * n + x) % n = x % n
      BY <2>1, <3>1, RemainderOfMultiple, Zenon
    <3> QED
      BY <1>4, <3>2
<1>6. ExpandCounter(x % n, n, latest) = x
  BY <1>2, <1>3, ExpandCounterFinds
<1> QED
  BY <1>5, <1>6

-----------------------------------------------------------------------------
(* The inductive invariant.                                                *)

\* The counters of incoming packets are ahead of the truncated identifiers of
\* the first packet as far as the newest packet is really ahead of it.
CountersAreTrue ==
  /\ newest.timestamp >= origin.timestamp
  /\ newest.sequenceNumber >= origin.sequenceNumber
  /\ state.firstIncoming = Truncate(origin)
  /\ state.latestIncoming.timestamp =
       (origin.timestamp % Long) + (newest.timestamp - origin.timestamp)
  /\ state.latestIncoming.sequenceNumber =
       (origin.sequenceNumber % Short)
         + (newest.sequenceNumber - origin.sequenceNumber)

RInv == RewriterTypeOK /\ CountersAreTrue

\* The initial states satisfy the invariant.
LEMMA RewriterInitInv == RewriterInit => RInv
BY RewriterAssumption, Z3
   DEF RewriterInit, RInv, RewriterTypeOK, CountersAreTrue, Zeros,
       Identifiers, ExpandedPacketIdentifiers, TruncatedPacketIdentifiers,
       Truncate, NoSSRC

\* A packet of the stream that is forwarded gets the identifiers that are as
\* far from those of the first one as its own are.
LEMMA ProcessResult ==
  ASSUME RInv, NEW packet \in Packet, state.ssrc = packet.ssrc,
         InOrder(packet), InRange(packet)
  PROVE  LET result == process(Truncate(packet.ids))
             time == packet.ids.timestamp - origin.timestamp
             number == packet.ids.sequenceNumber - origin.sequenceNumber
         IN  /\ result.outgoing = Identifiers(
                  state.firstOutgoing.timestamp + time,
                  state.firstOutgoing.sequenceNumber + number)
             /\ result.state = [state EXCEPT !.latestIncoming = Identifiers(
                  max((origin.timestamp % Long) + time,
                      state.latestIncoming.timestamp),
                  max((origin.sequenceNumber % Short) + number,
                      state.latestIncoming.sequenceNumber))]
<1> DEFINE time == packet.ids.timestamp - origin.timestamp
           number == packet.ids.sequenceNumber - origin.sequenceNumber
           ft == origin.timestamp % Long
           fs == origin.sequenceNumber % Short
<1>1. /\ packet.ids.timestamp \in Nat /\ packet.ids.sequenceNumber \in Nat
      /\ origin.timestamp \in Nat /\ origin.sequenceNumber \in Nat
      /\ newest.timestamp \in Nat /\ newest.sequenceNumber \in Nat
  BY RewriterAssumption DEF RInv, RewriterTypeOK
<1>2. time \in Nat /\ number \in Nat
  BY <1>1 DEF InOrder
<1>3. /\ ft \in 0..(Long - 1) /\ fs \in 0..(Short - 1)
      /\ state.firstIncoming.timestamp = ft
      /\ state.firstIncoming.sequenceNumber = fs
  BY <1>1, RewriterAssumption DEF RInv, CountersAreTrue, Truncate, Identifiers
<1>4. /\ ft + time < Word /\ fs + number < Long
      /\ state.firstOutgoing.timestamp + time < Word
      /\ state.firstOutgoing.sequenceNumber + number < Long
  BY <1>1, <1>3 DEF InRange
<1>5. ExpandCounter(packet.ids.timestamp % Long, Long,
                    state.latestIncoming.timestamp) = ft + time
  <2>1. /\ Long \in Nat /\ Long > 1 /\ Word \in Nat
        /\ origin.timestamp <= newest.timestamp
        /\ origin.timestamp <= packet.ids.timestamp
        /\ Near(packet.ids.timestamp, newest.timestamp, Long)
        /\ state.latestIncoming.timestamp
             = (origin.timestamp % Long)
                 + (newest.timestamp - origin.timestamp)
    BY <1>1, RewriterAssumption DEF RInv, CountersAreTrue, InOrder
  <2> QED
    BY <1>1, <1>4, <2>1, ExpandsTruly
<1>6. ExpandCounter(packet.ids.sequenceNumber % Short, Short,
                    state.latestIncoming.sequenceNumber) = fs + number
  <2>1. /\ Short \in Nat /\ Short > 1 /\ Word \in Nat
        /\ origin.sequenceNumber <= newest.sequenceNumber
        /\ origin.sequenceNumber <= packet.ids.sequenceNumber
        /\ Near(packet.ids.sequenceNumber, newest.sequenceNumber, Short)
        /\ state.latestIncoming.sequenceNumber
             = (origin.sequenceNumber % Short)
                 + (newest.sequenceNumber - origin.sequenceNumber)
    BY <1>1, RewriterAssumption DEF RInv, CountersAreTrue, InOrder
  <2>2. fs + number < Word
    BY <1>2, <1>3, <1>4, RewriterAssumption
  <2> QED
    BY <1>1, <2>1, <2>2, ExpandsTruly
<1> HIDE DEF time, number, ft, fs
<1>7. state.latestIncoming.sequenceNumber \in 0..(Long - 1)
  BY DEF RInv, RewriterTypeOK, ExpandedPacketIdentifiers
<1>8. /\ (fs + number) % Long = fs + number
      /\ max(fs + number, state.latestIncoming.sequenceNumber) % Long
           = max(fs + number, state.latestIncoming.sequenceNumber)
  BY <1>2, <1>3, <1>4, <1>7, RewriterAssumption DEF max
<1>9. /\ state.firstOutgoing.timestamp \in Nat
      /\ state.firstOutgoing.sequenceNumber \in Nat
  BY DEF RInv, RewriterTypeOK, ExpandedPacketIdentifiers
<1>10. Sub(Identifiers(ft + time, fs + number), state.firstIncoming)
         = Identifiers(time, number)
  BY <1>2, <1>3, <1>4, RewriterAssumption DEF Sub, Identifiers
<1>11. Add(state.firstOutgoing, Identifiers(time, number))
         = Identifiers(state.firstOutgoing.timestamp + time,
                       state.firstOutgoing.sequenceNumber + number)
  <2>0. /\ state.firstOutgoing.timestamp + time \in Nat
        /\ state.firstOutgoing.sequenceNumber + number \in Nat
        /\ Word \in Nat /\ Long \in Nat
    BY <1>2, <1>9, RewriterAssumption
  <2>1. /\ (state.firstOutgoing.timestamp + time) % Word
             = state.firstOutgoing.timestamp + time
        /\ (state.firstOutgoing.sequenceNumber + number) % Long
             = state.firstOutgoing.sequenceNumber + number
    BY <1>4, <2>0, SmallRemainder, Zenon
  <2> QED
    BY <2>1 DEF Add, Identifiers
<1>12. /\ Truncate(packet.ids).timestamp = packet.ids.timestamp % Long
       /\ Truncate(packet.ids).sequenceNumber
            = packet.ids.sequenceNumber % Short
  BY DEF Truncate, Identifiers
<1> QED
  BY <1>5, <1>6, <1>8, <1>10, <1>11, <1>12 DEF process, time, number, ft, fs

\* What a step does with a packet of the stream that is forwarded: the state
\* after it, and the identifiers that are given.
LEMMA ContinueStep ==
  ASSUME RInv, NEW packet \in Packet, state.ssrc = packet.ssrc,
         InOrder(packet), InRange(packet), ProcessIncoming(packet),
         NEW t, t = state.firstOutgoing.timestamp
                      + (packet.ids.timestamp - origin.timestamp),
         NEW s, s = state.firstOutgoing.sequenceNumber
                      + (packet.ids.sequenceNumber - origin.sequenceNumber)
  PROVE  /\ RInv'
         /\ UNCHANGED <<state.ssrc, state.firstOutgoing, origin>>
         /\ latestOutgoing' =
              Identifiers(max(latestOutgoing.timestamp, t),
                          max(latestOutgoing.sequenceNumber, s))
         /\ written' = Identifiers(t % Long, s % Short)
<1> DEFINE time == packet.ids.timestamp - origin.timestamp
           number == packet.ids.sequenceNumber - origin.sequenceNumber
           lt == max((origin.timestamp % Long) + time,
                     state.latestIncoming.timestamp)
           ls == max((origin.sequenceNumber % Short) + number,
                     state.latestIncoming.sequenceNumber)
           result == process(Truncate(packet.ids))
<1>1. /\ packet.ids.timestamp \in Nat /\ packet.ids.sequenceNumber \in Nat
      /\ origin.timestamp \in Nat /\ origin.sequenceNumber \in Nat
      /\ newest.timestamp \in Nat /\ newest.sequenceNumber \in Nat
  BY RewriterAssumption DEF RInv, RewriterTypeOK
<1>2. /\ time \in Nat /\ number \in Nat
  BY <1>1 DEF InOrder
<1>3. /\ result.outgoing = Identifiers(t, s)
      /\ result.state = [state EXCEPT !.latestIncoming = Identifiers(lt, ls)]
  BY ProcessResult
<1>4. /\ state.firstOutgoing.timestamp \in Nat
      /\ state.firstOutgoing.sequenceNumber \in Nat
      /\ state.latestIncoming.timestamp \in 0..(Word - 1)
      /\ state.latestIncoming.sequenceNumber \in 0..(Long - 1)
  BY RewriterAssumption DEF RInv, RewriterTypeOK, ExpandedPacketIdentifiers
<1>5. /\ origin.timestamp % Long \in Nat
      /\ origin.sequenceNumber % Short \in Nat
      /\ state.firstIncoming.timestamp = origin.timestamp % Long
      /\ state.firstIncoming.sequenceNumber = origin.sequenceNumber % Short
  BY <1>1, RewriterAssumption DEF RInv, CountersAreTrue, Truncate, Identifiers
<1>6. /\ t < Word /\ s < Long
      /\ (origin.timestamp % Long) + time < Word
      /\ (origin.sequenceNumber % Short) + number < Long
  BY <1>5 DEF InRange
<1> HIDE DEF time, number
<1>7. /\ t \in 0..(Word - 1) /\ s \in 0..(Long - 1)
  BY <1>2, <1>4, <1>6, RewriterAssumption DEF time, number
<1>8. /\ lt \in 0..(Word - 1) /\ ls \in 0..(Long - 1)
  BY <1>2, <1>4, <1>5, <1>6, RewriterAssumption DEF max
<1> HIDE DEF lt, ls, result
<1>9. /\ state' = [state EXCEPT !.latestIncoming = Identifiers(lt, ls)]
      /\ latestOutgoing' = Max(latestOutgoing, Identifiers(t, s))
      /\ written' = Truncate(Identifiers(t, s))
      /\ origin' = origin
      /\ newest' = Max(newest, packet.ids)
  BY <1>3 DEF ProcessIncoming, result
<1>10. /\ t % Long \in 0..(Long - 1)
      /\ s % Short \in 0..(Short - 1)
  BY <1>7, RewriterAssumption
<1>11. RewriterTypeOK'
  BY <1>1, <1>7, <1>8, <1>9, <1>10
     DEF RInv, RewriterTypeOK, ExpandedPacketIdentifiers,
         TruncatedPacketIdentifiers, Max, max, Truncate, Identifiers
<1>12. CountersAreTrue'
  <2>1. /\ newest'.timestamp = max(newest.timestamp, packet.ids.timestamp)
        /\ newest'.sequenceNumber =
             max(newest.sequenceNumber, packet.ids.sequenceNumber)
    BY <1>9 DEF Max, Identifiers
  <2>2. /\ state'.firstIncoming = state.firstIncoming
        /\ state'.latestIncoming.timestamp = lt
        /\ state'.latestIncoming.sequenceNumber = ls
    BY <1>9 DEF RInv, RewriterTypeOK, Identifiers
  <2> DEFINE ft == origin.timestamp % Long
             fs == origin.sequenceNumber % Short
  <2>3. /\ ft \in Nat /\ fs \in Nat
        /\ newest.timestamp >= origin.timestamp
        /\ newest.sequenceNumber >= origin.sequenceNumber
        /\ state.latestIncoming.timestamp
             = ft + (newest.timestamp - origin.timestamp)
        /\ state.latestIncoming.sequenceNumber
             = fs + (newest.sequenceNumber - origin.sequenceNumber)
        /\ lt = max(ft + (packet.ids.timestamp - origin.timestamp),
                    state.latestIncoming.timestamp)
        /\ ls = max(fs + (packet.ids.sequenceNumber - origin.sequenceNumber),
                    state.latestIncoming.sequenceNumber)
    BY <1>5 DEF RInv, CountersAreTrue, lt, ls, time, number
  <2> HIDE DEF ft, fs
  <2>4. /\ newest'.timestamp >= origin.timestamp
        /\ lt = ft + (newest'.timestamp - origin.timestamp)
    <3>1. CASE newest.timestamp > packet.ids.timestamp
      BY <1>1, <2>1, <2>3, <3>1 DEF max
    <3>2. CASE newest.timestamp <= packet.ids.timestamp
      BY <1>1, <2>1, <2>3, <3>2 DEF max
    <3> QED
      BY <1>1, <3>1, <3>2
  <2>5. /\ newest'.sequenceNumber >= origin.sequenceNumber
        /\ ls = fs + (newest'.sequenceNumber - origin.sequenceNumber)
    <3>1. CASE newest.sequenceNumber > packet.ids.sequenceNumber
      BY <1>1, <2>1, <2>3, <3>1 DEF max
    <3>2. CASE newest.sequenceNumber <= packet.ids.sequenceNumber
      BY <1>1, <2>1, <2>3, <3>2 DEF max
    <3> QED
      BY <1>1, <3>1, <3>2
  <2> QED
    BY <1>9, <2>2, <2>4, <2>5 DEF RInv, CountersAreTrue, Truncate, ft, fs
<1> QED
  BY <1>9, <1>11, <1>12 DEF RInv, RewriterTypeOK, Max, Truncate, Identifiers

\* What a step does with the first packet of another stream.
LEMMA SwitchStep ==
  ASSUME RInv, NEW packet \in Packet, state.ssrc # packet.ssrc,
         InRange(packet), ProcessIncoming(packet),
         NEW t, t = IF state.ssrc = NoSSRC THEN latestOutgoing.timestamp
                    ELSE latestOutgoing.timestamp + 1,
         NEW s, s = IF state.ssrc = NoSSRC THEN latestOutgoing.sequenceNumber
                    ELSE latestOutgoing.sequenceNumber + 2
  PROVE  /\ RInv'
         /\ state'.ssrc = packet.ssrc
         /\ state'.firstOutgoing = Identifiers(t, s)
         /\ origin' = packet.ids
         /\ latestOutgoing' = Identifiers(t, s)
         /\ written' = Identifiers(t % Long, s % Short)
<1>1. /\ packet.ids \in [timestamp : Nat, sequenceNumber : Nat]
      /\ packet.ssrc \in Nat
      /\ latestOutgoing.timestamp \in Nat
      /\ latestOutgoing.sequenceNumber \in Nat
  BY RewriterAssumption
     DEF RInv, RewriterTypeOK, ExpandedPacketIdentifiers
<1>2. /\ t \in 0..(Word - 1) /\ s \in 0..(Long - 1)
  BY <1>1, RewriterAssumption DEF InRange
<1>3. t % Word = t /\ s % Long = s
  <2>1. t \in Nat /\ s \in Nat /\ t < Word /\ s < Long
        /\ Word \in Nat /\ Long \in Nat
    BY <1>2, RewriterAssumption
  <2> QED
    BY <2>1, SmallRemainder, Zenon
<1> DEFINE result == reset(packet.ssrc, Truncate(packet.ids))
<1>4. /\ result.outgoing = Identifiers(t, s)
      /\ result.state = [ssrc |-> packet.ssrc,
                         firstIncoming |-> Truncate(packet.ids),
                         latestIncoming |-> Truncate(packet.ids),
                         firstOutgoing |-> Identifiers(t, s)]
  <2>1. t = latestOutgoing.timestamp
             + (IF state.ssrc # NoSSRC THEN Identifiers(1, 2) ELSE Zeros).timestamp
    BY <1>1 DEF Identifiers, Zeros
  <2>2. s = latestOutgoing.sequenceNumber
             + (IF state.ssrc # NoSSRC THEN Identifiers(1, 2)
                ELSE Zeros).sequenceNumber
    BY <1>1 DEF Identifiers, Zeros
  <2> QED
    BY <1>3, <2>1, <2>2 DEF reset, Add, Identifiers
<1> HIDE DEF result
<1>5. /\ state' = [ssrc |-> packet.ssrc,
                   firstIncoming |-> Truncate(packet.ids),
                   latestIncoming |-> Truncate(packet.ids),
                   firstOutgoing |-> Identifiers(t, s)]
      /\ latestOutgoing' = Max(latestOutgoing, Identifiers(t, s))
      /\ written' = Truncate(Identifiers(t, s))
      /\ origin' = packet.ids
      /\ newest' = packet.ids
  BY <1>4 DEF ProcessIncoming, result
<1>6. latestOutgoing' = Identifiers(t, s)
  BY <1>1, <1>5 DEF Max, max, Identifiers, RInv, RewriterTypeOK
<1>7. /\ t % Long \in 0..(Long - 1)
      /\ s % Short \in 0..(Short - 1)
      /\ packet.ids.timestamp % Long \in 0..(Long - 1)
      /\ packet.ids.sequenceNumber % Short \in 0..(Short - 1)
  BY <1>1, <1>2, RewriterAssumption
<1>8. RewriterTypeOK'
  BY <1>1, <1>2, <1>5, <1>6, <1>7, RewriterAssumption
     DEF RInv, RewriterTypeOK, ExpandedPacketIdentifiers,
         TruncatedPacketIdentifiers, Truncate, Identifiers
<1>9. CountersAreTrue'
  BY <1>1, <1>5, <1>7 DEF CountersAreTrue, Truncate, Identifiers
<1> QED
  BY <1>5, <1>6, <1>8, <1>9 DEF RInv, Truncate, Identifiers

\* Every step keeps the invariant.
LEMMA RewriterStepInv == RInv /\ [RewriterNext]_vars => RInv'
<1> SUFFICES ASSUME RInv, [RewriterNext]_vars
             PROVE  RInv'
  OBVIOUS
<1>1. ASSUME NEW packet \in Packet, InOrder(packet), InRange(packet),
             ProcessIncoming(packet)
      PROVE  RInv'
  <2>1. CASE state.ssrc = packet.ssrc
    BY <1>1, <2>1, ContinueStep
  <2>2. CASE state.ssrc # packet.ssrc
    BY <1>1, <2>2, SwitchStep
  <2> QED
    BY <2>1, <2>2
<1>2. CASE UNCHANGED vars
  BY <1>2 DEF vars, RInv, RewriterTypeOK, CountersAreTrue
<1> QED
  BY <1>1, <1>2 DEF RewriterNext

-----------------------------------------------------------------------------
(* What the rewriter promises.                                             *)

\* The invariant holds in every reachable state.
THEOREM RewriterInvariance == RewriterSpec => []RInv
BY RewriterInitInv, RewriterStepInv, PTL DEF RewriterSpec

\* Expanded counters keep their width, and truncated ones theirs.
THEOREM RewriterTypeCorrect == RewriterSpec => []RewriterTypeOK
BY RewriterInvariance, PTL DEF RInv

\* The rewriter renumbers all packets as it should: what it does with wrapped
\* counters is what Renumbering does with the true numbers, as long as the
\* packets of a stream come within half a cycle of each other and none comes
\* before the first.
THEOREM RewriterRenumbers == RewriterSpec => Renumbers
<1>1. RewriterInit => Ideal!Init
  BY DEF RewriterInit, Ideal!Init, Zeros, Identifiers, Ideal!Identifiers,
         NoSSRC, Ideal!NoSSRC
<1>2. RInv /\ [RewriterNext]_vars => [Ideal!Next]_Ideal!vars
  <2> SUFFICES ASSUME RInv, [RewriterNext]_vars
               PROVE  [Ideal!Next]_Ideal!vars
    OBVIOUS
  <2>1. ASSUME NEW packet \in Packet, InOrder(packet), InRange(packet),
               ProcessIncoming(packet)
        PROVE  Ideal!Next
    <3>1. CASE state.ssrc = packet.ssrc
      <4>1. Ideal!Continue(packet)
        BY <2>1, <3>1, ContinueStep
           DEF Ideal!Continue, Ideal!Give, Ideal!Identifiers, Ideal!Highest,
               Identifiers, max
      <4> QED
        BY <4>1 DEF Ideal!Next
    <3>2. CASE state.ssrc # packet.ssrc
      <4> DEFINE t == IF state.ssrc = NoSSRC THEN latestOutgoing.timestamp
                      ELSE latestOutgoing.timestamp + 1
                 s == IF state.ssrc = NoSSRC
                      THEN latestOutgoing.sequenceNumber
                      ELSE latestOutgoing.sequenceNumber + 2
      <4>1. /\ state'.ssrc = packet.ssrc
            /\ state'.firstOutgoing = Identifiers(t, s)
            /\ origin' = packet.ids
            /\ latestOutgoing' = Identifiers(t, s)
            /\ written' = Identifiers(t % Long, s % Short)
        <5> HIDE DEF t, s
        <5>1. t = (IF state.ssrc = NoSSRC THEN latestOutgoing.timestamp
                   ELSE latestOutgoing.timestamp + 1)
              /\ s = (IF state.ssrc = NoSSRC
                      THEN latestOutgoing.sequenceNumber
                      ELSE latestOutgoing.sequenceNumber + 2)
          BY DEF t, s
        <5> QED
          BY <2>1, <3>2, <5>1, SwitchStep
      <4>2. /\ latestOutgoing.timestamp \in Nat
            /\ latestOutgoing.sequenceNumber \in Nat
            /\ latestOutgoing = Identifiers(latestOutgoing.timestamp,
                                            latestOutgoing.sequenceNumber)
        BY RewriterAssumption
           DEF RInv, RewriterTypeOK, ExpandedPacketIdentifiers, Identifiers
      <4>3. t >= latestOutgoing.timestamp /\ s >= latestOutgoing.sequenceNumber
        BY <4>2
      <4>4. Identifiers(t, s) =
              IF state.ssrc = NoSSRC THEN latestOutgoing
              ELSE Identifiers(latestOutgoing.timestamp + 1,
                               latestOutgoing.sequenceNumber + 2)
        BY <4>2
      <4> HIDE DEF t, s
      <4>5. /\ Ideal!Highest(latestOutgoing.timestamp, t) = t
            /\ Ideal!Highest(latestOutgoing.sequenceNumber, s) = s
        BY <4>2, <4>3 DEF Ideal!Highest, t, s
      <4>6. Ideal!Give(Identifiers(t, s))
        BY <4>1, <4>5 DEF Ideal!Give, Ideal!Identifiers, Identifiers
      <4>7. Ideal!Switch(packet)
        BY <3>2, <4>1, <4>4, <4>6
           DEF Ideal!Switch, Ideal!Identifiers, Identifiers, NoSSRC,
               Ideal!NoSSRC
      <4> QED
        BY <4>7 DEF Ideal!Next
    <3> QED
      BY <3>1, <3>2
  <2>2. CASE UNCHANGED vars
    BY <2>2 DEF vars, Ideal!vars
  <2> QED
    BY <2>1, <2>2 DEF RewriterNext
<1> QED
  BY <1>1, <1>2, RewriterInvariance, PTL
     DEF RewriterSpec, Renumbers, Ideal!Spec

=============================================================================
