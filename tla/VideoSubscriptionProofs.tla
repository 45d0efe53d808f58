------------------------ MODULE VideoSubscriptionProofs ------------------------
(***************************************************************************)
(* Proofs about VideoSubscription, for any packets, any capacity of the    *)
(* worker's queue and any number of packets.                               *)
(***************************************************************************)
EXTENDS VideoSubscription, RewriterProofs, SequenceTheorems

\* Who is going to stop the subscription.
Stoppers == {g \in Goroutine : at[g] \in {"stopping", "removing"}}

\* Only one goroutine gets past the flag, and it removes the track last.
OneStops ==
  /\ \A g, h \in Stoppers : g = h
  /\ ~stopped => Stoppers = {}
  /\ Stoppers # {} \/ ~stopped => removals = 0
  /\ removals \in {0, 1}

\* The worker's channel is closed by the one who stops it, before it removes the
\* track, and by nobody else.
WorkerStopsFirst ==
  /\ ~stopped => channel = "open"
  /\ \A g \in Goroutine :
       /\ at[g] = "stopping" => channel = "open"
       /\ at[g] = "removing" => channel = "closed"
  /\ removals > 0 => channel = "closed"

\* The worker leaves no packet behind.
WorkerEndsEmpty == worker = "ended" => channel = "closed" /\ queue = <<>>

Inv == OneStops /\ WorkerStopsFirst /\ WorkerEndsEmpty

IInv == TypeOK /\ Inv

-----------------------------------------------------------------------------
(* Types.                                                                  *)

\* Whatever a packet is, the rewriter keeps its types.
LEMMA ProcessIncomingTypes ==
  ASSUME RewriterTypeOK, NEW packet \in Packet, ProcessIncoming(packet)
  PROVE  RewriterTypeOK'
<1> DEFINE incoming == Truncate(packet.ids)
<1>1. /\ \A x \in Int : x % Word \in 0..(Word - 1)
      /\ \A x \in Int : x % Long \in 0..(Long - 1)
      /\ \A x \in Int : x % Short \in 0..(Short - 1)
      /\ 0..(Short - 1) \subseteq 0..(Long - 1)
      /\ 0..(Long - 1) \subseteq 0..(Word - 1)
  BY RewriterAssumption
<1>2. /\ packet.ssrc \in Nat
      /\ packet.ids \in [timestamp : Nat, sequenceNumber : Nat]
  BY RewriterAssumption
<1>3. incoming \in TruncatedPacketIdentifiers
  BY <1>1, <1>2 DEF Truncate, Identifiers, TruncatedPacketIdentifiers
<1>4. TruncatedPacketIdentifiers \subseteq ExpandedPacketIdentifiers
  BY <1>1 DEF TruncatedPacketIdentifiers, ExpandedPacketIdentifiers
<1>5. \A p, q \in ExpandedPacketIdentifiers :
        /\ Add(p, q) \in ExpandedPacketIdentifiers
        /\ Sub(p, q) \in ExpandedPacketIdentifiers
        /\ Max(p, q) \in ExpandedPacketIdentifiers
        /\ Truncate(p) \in TruncatedPacketIdentifiers
  <2> TAKE p, q \in ExpandedPacketIdentifiers
  <2>1. /\ p.timestamp \in 0..(Word - 1) /\ p.sequenceNumber \in 0..(Long - 1)
        /\ q.timestamp \in 0..(Word - 1) /\ q.sequenceNumber \in 0..(Long - 1)
    BY DEF ExpandedPacketIdentifiers
  <2>2. /\ p.timestamp + q.timestamp \in Int
        /\ p.timestamp - q.timestamp \in Int
        /\ p.sequenceNumber + q.sequenceNumber \in Int
        /\ p.sequenceNumber - q.sequenceNumber \in Int
        /\ p.timestamp \in Int /\ p.sequenceNumber \in Int
    BY <2>1, RewriterAssumption
  <2>3. /\ Add(p, q) \in ExpandedPacketIdentifiers
        /\ Sub(p, q) \in ExpandedPacketIdentifiers
    BY <1>1, <2>2 DEF Add, Sub, Identifiers, ExpandedPacketIdentifiers
  <2>4. Max(p, q) \in ExpandedPacketIdentifiers
    BY <2>1 DEF Max, max, Identifiers, ExpandedPacketIdentifiers
  <2>5. Truncate(p) \in TruncatedPacketIdentifiers
    BY <1>1, <2>2 DEF Truncate, Identifiers, TruncatedPacketIdentifiers
  <2> QED
    BY <2>3, <2>4, <2>5
<1>6. /\ state.ssrc \in Nat
      /\ state.firstIncoming \in ExpandedPacketIdentifiers
      /\ state.latestIncoming \in ExpandedPacketIdentifiers
      /\ state.firstOutgoing \in ExpandedPacketIdentifiers
      /\ latestOutgoing \in ExpandedPacketIdentifiers
  BY DEF RewriterTypeOK
<1> HIDE DEF incoming
<1>7. CASE state.ssrc # packet.ssrc
  <2> DEFINE outgoing == reset(packet.ssrc, incoming).outgoing
  <2>1. /\ Identifiers(1, 2) \in ExpandedPacketIdentifiers
        /\ Zeros \in ExpandedPacketIdentifiers
    BY RewriterAssumption DEF Zeros, Identifiers, ExpandedPacketIdentifiers
  <2>2. outgoing \in ExpandedPacketIdentifiers
    BY <1>5, <1>6, <2>1 DEF reset
  <2>3. reset(packet.ssrc, incoming).state =
          [ssrc |-> packet.ssrc, firstIncoming |-> incoming,
           latestIncoming |-> incoming, firstOutgoing |-> outgoing]
    BY DEF reset
  <2> HIDE DEF outgoing
  <2>4. /\ state' = [ssrc |-> packet.ssrc, firstIncoming |-> incoming,
                     latestIncoming |-> incoming, firstOutgoing |-> outgoing]
        /\ latestOutgoing' = Max(latestOutgoing, outgoing)
        /\ written' = Truncate(outgoing)
        /\ origin' = packet.ids /\ newest' = packet.ids
    BY <1>7, <2>3 DEF ProcessIncoming, incoming, outgoing
  <2> QED
    BY <1>2, <1>3, <1>4, <1>5, <1>6, <2>2, <2>4 DEF RewriterTypeOK
<1>8. CASE state.ssrc = packet.ssrc
  <2> DEFINE number == ExpandCounter(incoming.sequenceNumber, Short,
                                     state.latestIncoming.sequenceNumber)
             time == ExpandCounter(incoming.timestamp, Long,
                                   state.latestIncoming.timestamp)
             latest == Identifiers(
               max(time, state.latestIncoming.timestamp),
               max(number, state.latestIncoming.sequenceNumber) % Long)
             outgoing == process(incoming).outgoing
  <2>1. \A truncated, range, last \in Nat :
          range > 0 => ExpandCounter(truncated, range, last) \in 0..(Word - 1)
    <3> TAKE truncated, range, last \in Nat
    <3> HAVE range > 0
    <3>1. last \div range \in Nat
      BY Division
    <3> DEFINE Wrapped(n) == (n * range + truncated) % Word
    <3>2. \A n \in Int : Wrapped(n) \in 0..(Word - 1)
      <4> TAKE n \in Int
      <4>1. n * range + truncated \in Int
        OBVIOUS
      <4> QED
        BY <1>1, <4>1
    <3>3. \E n \in Int : ExpandCounter(truncated, range, last) = Wrapped(n)
      <4>1. /\ (last \div range) + 1 \in Int
            /\ (last \div range) - 1 \in Int
            /\ last \div range \in Int
        BY <3>1
      <4>2. ExpandCounter(truncated, range, last) \in
              {Wrapped((last \div range) + 1), Wrapped((last \div range) - 1),
               Wrapped(last \div range)}
        BY DEF ExpandCounter
      <4> HIDE DEF Wrapped
      <4> QED
        BY <4>1, <4>2
    <3> HIDE DEF Wrapped
    <3> QED
      BY <3>2, <3>3
  <2>2. /\ incoming.sequenceNumber \in Nat /\ incoming.timestamp \in Nat
        /\ state.latestIncoming.sequenceNumber \in 0..(Long - 1)
        /\ state.latestIncoming.timestamp \in 0..(Word - 1)
        /\ state.latestIncoming.sequenceNumber \in Nat
        /\ state.latestIncoming.timestamp \in Nat
        /\ Short \in Nat /\ Long \in Nat /\ Short > 0 /\ Long > 0
    BY <1>3, <1>6, RewriterAssumption
       DEF TruncatedPacketIdentifiers, ExpandedPacketIdentifiers
  <2>3. /\ number \in 0..(Word - 1) /\ time \in 0..(Word - 1)
    BY <2>1, <2>2, Zenon
  <2> HIDE DEF number, time
  <2>4. latest \in ExpandedPacketIdentifiers
    <3>1. /\ max(time, state.latestIncoming.timestamp) \in 0..(Word - 1)
          /\ max(number, state.latestIncoming.sequenceNumber) \in Int
      BY <2>2, <2>3 DEF max
    <3> QED
      BY <1>1, <3>1 DEF Identifiers, ExpandedPacketIdentifiers
  <2>5. Identifiers(time, number % Long) \in ExpandedPacketIdentifiers
    BY <1>1, <2>3 DEF Identifiers, ExpandedPacketIdentifiers
  <2>6. outgoing = Add(state.firstOutgoing,
                       Sub(Identifiers(time, number % Long),
                           state.firstIncoming))
    BY DEF process, time, number
  <2>7. process(incoming).state = [state EXCEPT !.latestIncoming = latest]
    BY DEF process, time, number
  <2> HIDE DEF latest, outgoing
  <2>8. outgoing \in ExpandedPacketIdentifiers
    BY <1>5, <1>6, <2>5, <2>6
  <2>9. /\ state' = [state EXCEPT !.latestIncoming = latest]
        /\ latestOutgoing' = Max(latestOutgoing, outgoing)
        /\ written' = Truncate(outgoing)
        /\ origin' = origin
        /\ newest' = Max(newest, packet.ids)
    BY <1>8, <2>7 DEF ProcessIncoming, incoming, outgoing
  <2>10. newest' \in [timestamp : Nat, sequenceNumber : Nat]
    BY <1>2, <2>9 DEF Max, max, Identifiers, RewriterTypeOK
  <2> QED
    BY <1>5, <1>6, <2>4, <2>8, <2>9, <2>10 DEF RewriterTypeOK
<1> QED
  BY <1>7, <1>8

Identity == [timestamp : Nat, sequenceNumber : Nat]

\* The publisher's steps and the worker's keep the types.
LEMMA PacketTypes ==
  ASSUME IInv, Worker \/ \E packet \in Packet : WriteRTP(packet)
  PROVE  TypeOK'
<1> USE SubscriptionAssumption
<1>1. ASSUME NEW packet \in Packet, WriteRTP(packet)
      PROVE  TypeOK'
  <2>1. /\ queue' \in Seq(Packet)
        /\ Len(queue') <= ChannelSize
    BY <1>1, AppendProperties DEF IInv, TypeOK, WriteRTP
  <2>2. packet.ssrc \in Nat /\ packet.ids \in Identity
    BY RewriterAssumption DEF Identity
  <2>3. accepted.newest \in Identity /\ accepted.ssrc \in Nat
        /\ accepted.first \in Identity
    BY DEF IInv, TypeOK, Identity
  <2>4. Max(accepted.newest, packet.ids) \in Identity
    BY <2>2, <2>3 DEF Max, max, Identifiers, Identity
  <2>5. accepted' \in [ssrc : Nat, first : Identity, newest : Identity]
    <3>1. CASE packet.ssrc # accepted.ssrc
      BY <1>1, <2>2, <3>1 DEF WriteRTP
    <3>2. CASE packet.ssrc = accepted.ssrc
      BY <1>1, <2>3, <2>4, <3>2 DEF WriteRTP, IInv, TypeOK, Identity
    <3> QED
      BY <3>1, <3>2
  <2>6. forwarded' \in 0..MaxPackets
    BY <1>1 DEF IInv, TypeOK, WriteRTP
  <2>7. RewriterTypeOK'
    BY <1>1 DEF IInv, TypeOK, RewriterTypeOK, WriteRTP, vars
  <2> QED
    BY <1>1, <2>1, <2>5, <2>6, <2>7
       DEF IInv, TypeOK, WriteRTP, callVars, Identity
<1>2. CASE handlePacket
  <2>1. /\ Head(queue) \in Packet
        /\ queue' \in Seq(Packet)
        /\ Len(queue') <= ChannelSize
    BY <1>2, LenProperties DEF IInv, TypeOK, handlePacket
  <2>2. RewriterTypeOK'
    BY <1>2, <2>1, ProcessIncomingTypes DEF IInv, TypeOK, handlePacket
  <2> QED
    BY <1>2, <2>1, <2>2 DEF IInv, TypeOK, handlePacket, callVars
<1>3. CASE WorkerEnds
  BY <1>3 DEF IInv, TypeOK, RewriterTypeOK, WorkerEnds, vars, callVars
<1> QED
  BY <1>1, <1>2, <1>3 DEF Worker

-----------------------------------------------------------------------------
(* Who stops the subscription.                                             *)

Places ==
  {"idle", "reading", "notifying", "calling", "stopping", "removing",
   "returned", "ended"}

\* A goroutine that goes from one place to another leaves the others alone.
LEMMA GoesOn ==
  ASSUME TypeOK, NEW g \in Goroutine, NEW place \in Places, Goes(g, place)
  PROVE  /\ at' \in [Goroutine -> Places]
         /\ at'[g] = place
         /\ \A h \in Goroutine : h # g => at'[h] = at[h]
         /\ place \notin {"stopping", "removing"} =>
              Stoppers' = Stoppers \ {g}
         /\ place \in {"stopping", "removing"} =>
              Stoppers' = Stoppers \cup {g}
BY DEF TypeOK, Goes, Places, Stoppers

\* A step that neither sets the flag, nor closes the channel, nor removes the
\* track, and after which nobody new is going to.
Aside ==
  /\ UNCHANGED <<queueVars, stopped, removals>>
  /\ \/ UNCHANGED at
     \/ \E g \in Goroutine \ Stoppers :
          \E place \in Places \ {"stopping", "removing"} : Goes(g, place)

LEMMA AsideKeepsInv ==
  ASSUME IInv, Aside
  PROVE  Inv' /\ at' \in [Goroutine -> Places]
<1>1. CASE UNCHANGED at
  BY <1>1
     DEF Aside, IInv, Inv, TypeOK, OneStops, WorkerStopsFirst, WorkerEndsEmpty,
         Stoppers, Places, queueVars
<1>2. ASSUME NEW g \in Goroutine \ Stoppers,
             NEW place \in Places \ {"stopping", "removing"},
             Goes(g, place)
      PROVE  Inv' /\ at' \in [Goroutine -> Places]
  <2>1. /\ at' \in [Goroutine -> Places]
        /\ at'[g] = place
        /\ \A h \in Goroutine : h # g => at'[h] = at[h]
        /\ Stoppers' = Stoppers
    BY <1>2, GoesOn DEF IInv
  <2> QED
    BY <1>2, <2>1
       DEF Aside, IInv, Inv, OneStops, WorkerStopsFirst, WorkerEndsEmpty,
           queueVars
<1> QED
  BY <1>1, <1>2 DEF Aside

\* All steps are such ones but those of the packets and of Unsubscribe.
LEMMA OthersStepAside ==
  ASSUME IInv,
         \/ LoopUnsubscribes \/ TrackEnds \/ ConnectionEnds
         \/ ReadRTCP \/ RequestKeyFrame \/ CloseRequests
         \/ Events
  PROVE  Aside /\ TypeOK'
<1> USE DEF Aside, Places, Stoppers, Goroutine
<1>1. Aside
  <2>1. CASE LoopUnsubscribes
    BY <2>1 DEF LoopUnsubscribes
  <2>2. CASE TrackEnds
    BY <2>2 DEF TrackEnds
  <2>3. CASE ConnectionEnds
    BY <2>3 DEF ConnectionEnds
  <2>4. CASE ReadRTCP
    BY <2>4 DEF ReadRTCP
  <2>5. CASE RequestKeyFrame
    BY <2>5 DEF RequestKeyFrame
  <2>6. CASE CloseRequests
    BY <2>6 DEF CloseRequests
  <2>7. CASE Events
    BY <2>7 DEF Events, processKeyFrameRequest, RequestsEnd, Forget
  <2> QED
    BY <2>1, <2>2, <2>3, <2>4, <2>5, <2>6, <2>7
<1>2. at' \in [Goroutine -> Places]
  BY <1>1, AsideKeepsInv
<1>3. /\ UNCHANGED <<vars, queueVars, stopped, removals>>
      /\ sender' \in {sender, "ended"}
      /\ listed' \in {listed, FALSE}
      /\ mutex' \in {mutex, "loop", "waiter"}
      /\ events' \in {"receiving", "requesting", "forgetting", "ended", events}
  BY DEF LoopUnsubscribes, TrackEnds, ConnectionEnds, ReadRTCP,
         RequestKeyFrame, CloseRequests, Events, processKeyFrameRequest,
         RequestsEnd, Forget
<1>4. RewriterTypeOK'
  BY <1>3 DEF IInv, TypeOK, RewriterTypeOK, vars
<1>5. /\ listed' \in BOOLEAN
      /\ mutex' \in {"free", "loop", "waiter"}
      /\ sender' \in {"attached", "ended"}
      /\ events' \in {"receiving", "requesting", "forgetting", "ended"}
  BY <1>3 DEF IInv, TypeOK
<1> QED
  BY <1>1, <1>2, <1>3, <1>4, <1>5 DEF IInv, TypeOK, queueVars

\* The first goroutine that calls Unsubscribe sets the flag, and is the one that
\* stops the subscription; another one returns.
LEMMA UnsubscribeKeepsInv ==
  ASSUME IInv, NEW g \in Goroutine, Unsubscribe(g)
  PROVE  IInv'
<1>1. /\ UNCHANGED <<vars, queueVars, sender, listed, events, removals>>
      /\ at[g] = "calling" /\ stopped'
      /\ mutex' \in {mutex, "free"}
  BY DEF Unsubscribe, Return
<1>2. RewriterTypeOK' /\ stopped' \in BOOLEAN
  BY <1>1 DEF IInv, TypeOK, RewriterTypeOK, vars, Unsubscribe
<1>3. g \notin Stoppers
  BY <1>1 DEF Stoppers
<1>4. CASE stopped
  <2>1. Goes(g, "returned") /\ "returned" \in Places
    BY <1>4 DEF Unsubscribe, Return, Places
  <2>2. /\ at' \in [Goroutine -> Places]
        /\ at'[g] = "returned"
        /\ \A h \in Goroutine : h # g => at'[h] = at[h]
        /\ Stoppers' = Stoppers
    BY <1>3, <2>1, GoesOn DEF IInv
  <2>3. Inv'
    BY <1>1, <1>4, <2>2
       DEF IInv, Inv, OneStops, WorkerStopsFirst, WorkerEndsEmpty, queueVars
  <2> QED
    BY <1>1, <1>2, <2>2, <2>3 DEF IInv, TypeOK, queueVars, Places
<1>5. CASE ~stopped
  <2>1. Goes(g, "stopping") /\ "stopping" \in Places
    BY <1>5 DEF Unsubscribe, Places
  <2>2. Stoppers = {} /\ removals = 0 /\ channel = "open"
    BY <1>5 DEF IInv, Inv, OneStops, WorkerStopsFirst
  <2>3. /\ at' \in [Goroutine -> Places]
        /\ at'[g] = "stopping"
        /\ \A h \in Goroutine : h # g => at'[h] = at[h]
        /\ Stoppers' = {g}
    BY <2>1, <2>2, GoesOn DEF IInv
  <2>4. \A h \in Goroutine : at'[h] # "removing"
    BY <2>2, <2>3 DEF Stoppers
  <2>5. Inv'
    BY <1>1, <2>2, <2>3, <2>4
       DEF IInv, Inv, OneStops, WorkerStopsFirst, WorkerEndsEmpty, queueVars
  <2> QED
    BY <1>1, <1>2, <2>3, <2>5 DEF IInv, TypeOK, queueVars, Places
<1> QED
  BY <1>4, <1>5 DEF IInv, TypeOK

LEMMA StopWorkerKeepsInv ==
  ASSUME IInv, NEW g \in Goroutine, StopWorker(g)
  PROVE  IInv'
<1>1. /\ UNCHANGED <<vars, queue, worker, accepted, forwarded, stopped, sender,
                     listed, mutex, events, removals>>
      /\ at[g] = "stopping" /\ channel' = "closed"
      /\ Goes(g, "removing") /\ "removing" \in Places
  BY DEF StopWorker, Places
<1>2. RewriterTypeOK'
  BY <1>1 DEF IInv, TypeOK, RewriterTypeOK, vars
<1>3. /\ at' \in [Goroutine -> Places]
      /\ at'[g] = "removing"
      /\ \A h \in Goroutine : h # g => at'[h] = at[h]
      /\ Stoppers' = Stoppers \cup {g}
  BY <1>1, GoesOn DEF IInv
<1>4. g \in Stoppers
  BY <1>1 DEF Stoppers
<1>5. /\ stopped /\ removals = 0
      /\ \A h \in Goroutine : h # g => at[h] # "stopping"
  BY <1>4 DEF IInv, Inv, OneStops, Stoppers
<1>6. Stoppers' = Stoppers
  BY <1>3, <1>4
<1>7. Inv'
  BY <1>1, <1>3, <1>5, <1>6
     DEF IInv, Inv, OneStops, WorkerStopsFirst, WorkerEndsEmpty
<1> QED
  BY <1>1, <1>2, <1>3, <1>7 DEF IInv, TypeOK, Places

LEMMA RemoveTrackKeepsInv ==
  ASSUME IInv, NEW g \in Goroutine, RemoveTrack(g)
  PROVE  IInv'
<1>1. /\ UNCHANGED <<vars, queueVars, stopped, listed, events>>
      /\ at[g] = "removing" /\ sender' = "ended"
      /\ removals' = removals + 1
      /\ mutex' \in {mutex, "free"}
      /\ Goes(g, "returned") /\ "returned" \in Places
  BY DEF RemoveTrack, Return, Places
<1>2. RewriterTypeOK'
  BY <1>1 DEF IInv, TypeOK, RewriterTypeOK, vars
<1>3. /\ at' \in [Goroutine -> Places]
      /\ at'[g] = "returned"
      /\ \A h \in Goroutine : h # g => at'[h] = at[h]
      /\ Stoppers' = Stoppers \ {g}
  BY <1>1, GoesOn DEF IInv
<1>4. g \in Stoppers
  BY <1>1 DEF Stoppers
<1>5. stopped /\ removals = 0 /\ Stoppers = {g} /\ channel = "closed"
  BY <1>1, <1>4 DEF IInv, Inv, OneStops, WorkerStopsFirst
<1>6. Stoppers' = {} /\ removals' = 1
  BY <1>1, <1>3, <1>5
<1>7. Inv'
  BY <1>1, <1>3, <1>5, <1>6
     DEF IInv, Inv, OneStops, WorkerStopsFirst, WorkerEndsEmpty, queueVars
<1> QED
  BY <1>1, <1>2, <1>3, <1>6, <1>7 DEF IInv, TypeOK, queueVars, Places

\* Packets do not get into a channel that is closed.
LEMMA PacketsKeepInv ==
  ASSUME IInv, Worker \/ \E packet \in Packet : WriteRTP(packet)
  PROVE  Inv'
<1>1. /\ UNCHANGED <<callVars, channel>>
      /\ \/ worker' = worker /\ worker = "running"
         \/ worker' = worker /\ channel = "open"
         \/ channel = "closed" /\ queue = <<>> /\ UNCHANGED queue
  BY DEF Worker, handlePacket, WorkerEnds, WriteRTP
<1>2. Stoppers' = Stoppers
  BY <1>1 DEF Stoppers, callVars
<1> QED
  BY <1>1, <1>2
     DEF IInv, Inv, OneStops, WorkerStopsFirst, WorkerEndsEmpty, callVars

LEMMA SubscriptionInitInv == Init => IInv
<1> SUFFICES ASSUME Init PROVE IInv
  OBVIOUS
<1>1. RewriterTypeOK
  BY RewriterInitInv DEF Init, RInv
<1>2. Stoppers = {}
  BY DEF Init, Stoppers
<1>3. queue \in Seq(Packet) /\ Len(queue) <= ChannelSize
  BY SubscriptionAssumption DEF Init
<1>4. /\ accepted \in [ssrc : Nat,
                       first : [timestamp : Nat, sequenceNumber : Nat],
                       newest : [timestamp : Nat, sequenceNumber : Nat]]
      /\ forwarded \in 0..MaxPackets
  BY SubscriptionAssumption DEF Init, NoSSRC, Zeros, Identifiers
<1>5. /\ at \in [Goroutine -> {"idle", "reading", "notifying", "calling",
                               "stopping", "removing", "returned", "ended"}]
      /\ \A g \in Goroutine : at[g] \in {"idle", "reading"}
  BY DEF Init
<1>6. TypeOK
  <2>1. /\ channel \in {"open", "closed"} /\ worker \in {"running", "ended"}
        /\ sender \in {"attached", "ended"}
        /\ mutex \in {"free", "loop", "waiter"}
        /\ events \in {"receiving", "requesting", "forgetting", "ended"}
        /\ removals \in 0..3
    BY DEF Init
  <2>2. stopped \in BOOLEAN /\ listed \in BOOLEAN
    BY DEF Init
  <2> QED
    BY <1>1, <1>3, <1>4, <1>5, <2>1, <2>2 DEF TypeOK
<1>7. Inv
  BY <1>2, <1>5
     DEF Init, Inv, OneStops, WorkerStopsFirst, WorkerEndsEmpty
<1> QED
  BY <1>6, <1>7 DEF IInv

LEMMA SubscriptionStepInv == IInv /\ [Next]_subVars => IInv'
<1> SUFFICES ASSUME IInv, [Next]_subVars PROVE IInv'
  OBVIOUS
<1>1. CASE UNCHANGED subVars
  <2>1. RewriterTypeOK'
    BY <1>1 DEF IInv, TypeOK, RewriterTypeOK, subVars, vars
  <2>2. Aside
    BY <1>1 DEF Aside, subVars, callVars
  <2>3. Inv'
    BY <2>2, AsideKeepsInv
  <2> QED
    BY <1>1, <2>1, <2>3 DEF IInv, TypeOK, subVars, queueVars, callVars
<1>2. CASE Worker \/ \E packet \in Packet : WriteRTP(packet)
  BY <1>2, PacketTypes, PacketsKeepInv DEF IInv
<1>3. ASSUME NEW g \in Goroutine, Caller(g)
      PROVE  IInv'
  BY <1>3, UnsubscribeKeepsInv, StopWorkerKeepsInv, RemoveTrackKeepsInv
     DEF Caller
<1>4. CASE \/ LoopUnsubscribes \/ TrackEnds \/ ConnectionEnds
           \/ ReadRTCP \/ RequestKeyFrame \/ CloseRequests
           \/ Events
  BY <1>4, OthersStepAside, AsideKeepsInv DEF IInv
<1> QED
  BY <1>1, <1>2, <1>3, <1>4 DEF Next

\* The strengthened invariant: one goroutine at most is past the flag, the
\* track is removed by nobody else, and the worker is stopped before.
THEOREM SubscriptionInvariance == Spec => []IInv
BY SubscriptionInitInv, SubscriptionStepInv, PTL DEF Spec

\* Every variable keeps its type, and the worker's queue its capacity.
THEOREM SubscriptionTypeCorrect == Spec => []TypeOK
<1>1. IInv => TypeOK
  BY DEF IInv
<1> QED
  BY <1>1, SubscriptionInvariance, PTL

\* The main loop, the end of the track and the reader may unsubscribe in any
\* order: the track is removed from the connection at most once.
THEOREM TrackRemovedOnce == Spec => []RemovedOnce
<1>1. IInv => RemovedOnce
  BY DEF IInv, Inv, OneStops, RemovedOnce
<1> QED
  BY <1>1, SubscriptionInvariance, PTL

\* The track is not removed from the connection, and the worker does not end,
\* before the worker has been told to.
THEOREM WorkerIsStoppedFirst ==
  Spec => [](removals > 0 \/ worker = "ended" => channel = "closed")
<1>1. IInv => (removals > 0 \/ worker = "ended" => channel = "closed")
  BY DEF IInv, Inv, WorkerStopsFirst, WorkerEndsEmpty
<1> QED
  BY <1>1, SubscriptionInvariance, PTL

-----------------------------------------------------------------------------
(* The order of the packets.                                               *)

\* What the publisher and the rewriter each know of the stream.
Stream == [ssrc : Nat, first : Identity, newest : Identity]

\* The stream as the rewriter has seen it.
Seen == [ssrc |-> state.ssrc, first |-> origin, newest |-> newest]

Follows(stream, packet) ==
  packet.ssrc = stream.ssrc =>
    /\ packet.ids.sequenceNumber + Late >= stream.first.sequenceNumber
    /\ Near(packet.ids.timestamp, stream.newest.timestamp, Long)
    /\ Near(packet.ids.sequenceNumber, stream.newest.sequenceNumber, Short)

With(stream, packet) ==
  IF packet.ssrc # stream.ssrc
  THEN [ssrc |-> packet.ssrc, first |-> packet.ids, newest |-> packet.ids]
  ELSE [stream EXCEPT !.newest = Max(@, packet.ids)]

\* The stream grows from what the rewriter has seen to what was accepted by the
\* packets of the queue, one after the other.
Grows(f) ==
  /\ f[0] = Seen
  /\ f[Len(queue)] = accepted
  /\ \A i \in 1..Len(queue) :
       Follows(f[i - 1], queue[i]) /\ f[i] = With(f[i - 1], queue[i])

QueueIsInOrder == \E f \in [0..Len(queue) -> Stream] : Grows(f)

\* The rewriter counts from a packet of the stream.
OriginIsAPacket ==
  state.ssrc # NoSSRC =>
    \E packet \in Packet : packet.ssrc = state.ssrc /\ packet.ids = origin

OInv == IInv /\ QueueIsInOrder /\ OriginIsAPacket

LEMMA InitOInv == Init => OInv
<1> SUFFICES ASSUME Init PROVE OInv
  OBVIOUS
<1>1. IInv
  BY SubscriptionInitInv
<1>2. OriginIsAPacket
  BY DEF Init, RewriterInit, OriginIsAPacket
<1>3. /\ queue = <<>> /\ Len(queue) = 0
      /\ accepted = Seen /\ accepted \in Stream
  BY <1>1 DEF Init, RewriterInit, Seen, IInv, TypeOK, Stream, Identity
<1>4. [i \in 0..Len(queue) |-> accepted] \in [0..Len(queue) -> Stream]
  BY <1>3
<1>5. Grows([i \in 0..Len(queue) |-> accepted])
  BY <1>3 DEF Grows
<1> QED
  BY <1>1, <1>2, <1>4, <1>5 DEF OInv, QueueIsInOrder

\* What the rewriter has seen grows by the packet that it is given.
LEMMA SeenGrows ==
  ASSUME IInv, NEW packet \in Packet, ProcessIncoming(packet)
  PROVE  Seen' = With(Seen, packet)
<1>1. CASE state.ssrc # packet.ssrc
  BY <1>1 DEF ProcessIncoming, reset, Seen, With
<1>2. CASE state.ssrc = packet.ssrc
  <2>1. state'.ssrc = state.ssrc
    BY <1>2 DEF ProcessIncoming, process, IInv, TypeOK, RewriterTypeOK
  <2>2. origin' = origin /\ newest' = Max(newest, packet.ids)
    BY <1>2 DEF ProcessIncoming
  <2> QED
    BY <1>2, <2>1, <2>2 DEF Seen, With
<1> QED
  BY <1>1, <1>2

\* A packet that is put into the queue follows what was accepted.
LEMMA WriteKeepsOrder ==
  ASSUME OInv, TypeOK', NEW packet \in Packet, WriteRTP(packet)
  PROVE  QueueIsInOrder' /\ OriginIsAPacket'
<1>1. /\ UNCHANGED vars
      /\ queue' = Append(queue, packet)
      /\ Follows(accepted, packet)
      /\ accepted' = With(accepted, packet)
  BY DEF WriteRTP, CanFollow, Follows, With
<1>2. OriginIsAPacket' /\ Seen' = Seen
  BY <1>1 DEF OInv, OriginIsAPacket, Seen, vars
<1>3. PICK f \in [0..Len(queue) -> Stream] : Grows(f)
  BY DEF OInv, QueueIsInOrder
<1>4. /\ queue \in Seq(Packet) /\ Len(queue) \in Nat
      /\ Len(queue') = Len(queue) + 1
      /\ \A i \in 1..Len(queue) : queue'[i] = queue[i]
      /\ queue'[Len(queue) + 1] = packet
  BY <1>1 DEF OInv, IInv, TypeOK
<1>5. PICK new \in Stream : new = accepted'
  BY DEF TypeOK, Stream, Identity
<1>6. PICK n \in Nat : n = Len(queue)
  BY <1>4
<1> DEFINE g == [i \in 0..(n + 1) |-> IF i = n + 1 THEN new ELSE f[i]]
<1>7. g \in [0..(n + 1) -> Stream]
  BY <1>4, <1>5, <1>6
<1>8. Grows(g)'
  <2>1. g[0] = Seen'
    BY <1>2, <1>3, <1>6 DEF Grows
  <2>2. g[n + 1] = accepted'
    BY <1>4, <1>5
  <2>3. \A i \in 1..(n + 1) : Follows(g[i - 1], queue'[i])
                              /\ g[i] = With(g[i - 1], queue'[i])
    <3> TAKE i \in 1..(n + 1)
    <3>1. CASE i = n + 1
      <4>1. g[i - 1] = accepted /\ g[i] = new /\ queue'[i] = packet
        BY <1>3, <1>4, <1>6, <3>1 DEF Grows
      <4> HIDE DEF g
      <4> QED
        BY <1>1, <1>5, <4>1
    <3>2. CASE i \in 1..n
      <4>1. g[i - 1] = f[i - 1] /\ g[i] = f[i] /\ queue'[i] = queue[i]
        BY <1>4, <1>6, <3>2
      <4> HIDE DEF g
      <4> QED
        BY <1>3, <1>6, <3>2, <4>1 DEF Grows
    <3> QED
      BY <1>4, <3>1, <3>2
  <2> HIDE DEF g
  <2> QED
    BY <1>4, <1>6, <2>1, <2>2, <2>3 DEF Grows, Follows
<1> QED
  BY <1>2, <1>4, <1>6, <1>7, <1>8 DEF QueueIsInOrder

\* The packet that the worker takes follows what the rewriter has seen, and the
\* others follow it.
LEMMA HandleKeepsOrder ==
  ASSUME OInv, handlePacket
  PROVE  /\ Head(queue) \in Packet
         /\ Follows(Seen, Head(queue))
         /\ QueueIsInOrder' /\ OriginIsAPacket'
<1>1. PICK packet \in Packet : packet = Head(queue)
  BY DEF handlePacket, OInv, IInv, TypeOK
<1>2. PICK n \in Nat \ {0} : n = Len(queue)
  BY EmptySeq DEF handlePacket, OInv, IInv, TypeOK
<1>3. /\ ProcessIncoming(packet)
      /\ queue' = Tail(queue)
      /\ Len(queue') = n - 1
      /\ queue[1] = packet
      /\ \A i \in 1..(n - 1) : queue'[i] = queue[i + 1]
      /\ accepted' = accepted
  BY <1>1, <1>2 DEF handlePacket, OInv, IInv, TypeOK
<1>4. PICK f \in [0..n -> Stream] : Grows(f)
  BY <1>2 DEF OInv, QueueIsInOrder
<1>5. f[0] = Seen /\ Follows(f[0], packet) /\ f[1] = With(f[0], packet)
  BY <1>2, <1>3, <1>4 DEF Grows
<1>6. Seen' = f[1]
  BY <1>3, <1>5, SeenGrows DEF OInv
<1> DEFINE g == [i \in 0..(n - 1) |-> f[i + 1]]
<1>7. g \in [0..(n - 1) -> Stream]
  BY <1>2, <1>4
<1>8. Grows(g)'
  <2>1. g[0] = Seen' /\ g[n - 1] = accepted'
    BY <1>2, <1>3, <1>4, <1>6 DEF Grows
  <2>2. \A i \in 1..(n - 1) : Follows(g[i - 1], queue'[i])
                              /\ g[i] = With(g[i - 1], queue'[i])
    <3> TAKE i \in 1..(n - 1)
    <3>1. /\ g[i - 1] = f[i] /\ g[i] = f[i + 1]
          /\ queue'[i] = queue[i + 1]
      BY <1>2, <1>3
    <3>2. /\ i + 1 \in 1..n
          /\ (i + 1) - 1 = i
      BY <1>2
    <3>3. /\ Follows(f[i], queue[i + 1])
          /\ f[i + 1] = With(f[i], queue[i + 1])
      BY <1>2, <1>4, <3>2 DEF Grows
    <3> HIDE DEF g
    <3> QED
      BY <3>1, <3>3
  <2> HIDE DEF g
  <2> QED
    BY <1>3, <2>1, <2>2 DEF Grows, Follows
<1>9. QueueIsInOrder'
  BY <1>3, <1>7, <1>8 DEF QueueIsInOrder
<1>10. OriginIsAPacket'
  <2>1. CASE state.ssrc # packet.ssrc
    <3>1. Seen' = [ssrc |-> packet.ssrc, first |-> packet.ids,
                   newest |-> packet.ids]
      BY <1>5, <1>6, <2>1 DEF With, Seen
    <3>2. state'.ssrc = packet.ssrc /\ origin' = packet.ids
      BY <3>1 DEF Seen
    <3> QED
      BY <3>2 DEF OriginIsAPacket
  <2>2. CASE state.ssrc = packet.ssrc
    <3>1. state'.ssrc = state.ssrc /\ origin' = origin
      BY <1>3, <2>2 DEF ProcessIncoming, process, OInv, IInv, TypeOK,
                        RewriterTypeOK
    <3> QED
      BY <3>1 DEF OInv, OriginIsAPacket
  <2> QED
    BY <2>1, <2>2
<1> QED
  BY <1>1, <1>5, <1>9, <1>10

LEMMA StepOInv == OInv /\ [Next]_subVars => OInv'
<1> SUFFICES ASSUME OInv, [Next]_subVars PROVE OInv'
  OBVIOUS
<1>1. IInv'
  BY SubscriptionStepInv DEF OInv
<1>2. CASE UNCHANGED <<vars, queue, accepted>>
  <2>1. OriginIsAPacket' /\ Seen' = Seen
    BY <1>2 DEF OInv, OriginIsAPacket, Seen, vars
  <2>2. QueueIsInOrder'
    BY <1>2, <2>1 DEF OInv, QueueIsInOrder, Grows, Follows
  <2> QED
    BY <1>1, <2>1, <2>2 DEF OInv
<1>3. ASSUME NEW packet \in Packet, WriteRTP(packet)
      PROVE  OInv'
  BY <1>1, <1>3, WriteKeepsOrder DEF OInv, IInv
<1>4. CASE handlePacket
  BY <1>1, <1>4, HandleKeepsOrder DEF OInv
<1>5. ASSUME NEW g \in Goroutine, Caller(g)
      PROVE  UNCHANGED <<vars, queue, accepted>>
  BY <1>5 DEF Caller, Unsubscribe, StopWorker, RemoveTrack, queueVars
<1>6. \/ UNCHANGED <<vars, queue, accepted>>
      \/ handlePacket
      \/ \E packet \in Packet : WriteRTP(packet)
  BY <1>5
     DEF Next, Worker, WorkerEnds, LoopUnsubscribes, TrackEnds, ConnectionEnds,
         ReadRTCP, RequestKeyFrame, CloseRequests, Events,
         processKeyFrameRequest, RequestsEnd, Forget, subVars, queueVars
<1> QED
  BY <1>2, <1>3, <1>4, <1>6

\* The expanded counters last for all packets that the worker is given.
CountersLast == [][handlePacket => InRange(Head(queue))]_subVars

\* No packet that is older than the first one of its layer comes after it.  The
\* network does not promise that: it is for the theorems below to say what
\* depends on it.
Overtaken(packet) ==
  state.ssrc = packet.ssrc
    /\ packet.ids.sequenceNumber < origin.sequenceNumber

FirstIsNotOvertaken == [][handlePacket => ~Overtaken(Head(queue))]_subVars

\* In a behaviour in which the first packet of a layer is never overtaken, the
\* worker uses the rewriter as that expects, however the later packets come,
\* whichever packets the queue has no room for, for whatever reason the layer
\* changes and whoever unsubscribes meanwhile.
THEOREM PacketsReachTheRewriterInOrder ==
  ASSUME FramesInOrder
  PROVE  Spec /\ CountersLast /\ FirstIsNotOvertaken => RewriterIsUsedWell
<1>1. Init => RewriterInit
  BY DEF Init
<1>2. OInv /\ [Next]_subVars /\ [handlePacket => InRange(Head(queue))]_subVars
        /\ [handlePacket => ~Overtaken(Head(queue))]_subVars
        => [RewriterNext]_vars
  <2> SUFFICES ASSUME OInv, [Next]_subVars,
                      [handlePacket => InRange(Head(queue))]_subVars,
                      [handlePacket => ~Overtaken(Head(queue))]_subVars
               PROVE  [RewriterNext]_vars
    OBVIOUS
  <2>1. CASE handlePacket
    <3>1. PICK packet \in Packet : packet = Head(queue)
      BY <2>1, HandleKeepsOrder
    <3>2. Follows(Seen, packet) /\ ProcessIncoming(packet)
      BY <2>1, <3>1, HandleKeepsOrder DEF handlePacket
    <3>3. InRange(packet) /\ ~Overtaken(packet)
      <4>1. queue' # queue
        BY <2>1, LenProperties, EmptySeq
           DEF handlePacket, OInv, IInv, TypeOK
      <4> QED
        BY <2>1, <3>1, <4>1 DEF subVars, queueVars
    <3>4. InOrder(packet)
      <4> SUFFICES ASSUME state.ssrc = packet.ssrc
                   PROVE  /\ packet.ids.timestamp >= origin.timestamp
                          /\ packet.ids.sequenceNumber >= origin.sequenceNumber
                          /\ Near(packet.ids.timestamp, newest.timestamp, Long)
                          /\ Near(packet.ids.sequenceNumber,
                                  newest.sequenceNumber, Short)
        BY DEF InOrder
      <4>1. /\ Near(packet.ids.timestamp, newest.timestamp, Long)
            /\ Near(packet.ids.sequenceNumber, newest.sequenceNumber, Short)
        BY <3>2 DEF Follows, Seen
      <4>2. /\ packet.ssrc # NoSSRC
            /\ packet.ids.sequenceNumber \in Nat
            /\ packet.ids.timestamp \in Nat
            /\ origin.sequenceNumber \in Nat
        BY RewriterAssumption DEF NoSSRC, OInv, IInv, TypeOK, RewriterTypeOK
      <4>3. packet.ids.sequenceNumber >= origin.sequenceNumber
        BY <3>3, <4>2 DEF Overtaken
      <4>4. PICK first \in Packet : first.ssrc = state.ssrc /\ first.ids = origin
        BY <4>2 DEF OInv, OriginIsAPacket
      <4>5. origin.timestamp <= packet.ids.timestamp
        BY <4>3, <4>4 DEF FramesInOrder
      <4> QED
        BY <4>1, <4>3, <4>5
    <3> QED
      BY <3>2, <3>3, <3>4 DEF RewriterNext
  <2>2. CASE ~handlePacket
    <3>1. ASSUME NEW packet \in Packet, WriteRTP(packet)
          PROVE  UNCHANGED vars
      BY <3>1 DEF WriteRTP
    <3>2. ASSUME NEW g \in Goroutine, Caller(g)
          PROVE  UNCHANGED vars
      BY <3>2 DEF Caller, Unsubscribe, StopWorker, RemoveTrack
    <3> QED
      BY <2>2, <3>1, <3>2
         DEF Next, Worker, WorkerEnds, LoopUnsubscribes, TrackEnds,
             ConnectionEnds, ReadRTCP, RequestKeyFrame, CloseRequests, Events,
             processKeyFrameRequest, RequestsEnd, Forget, subVars
  <2> QED
    BY <2>1, <2>2
<1> QED
  BY <1>1, <1>2, InitOInv, StepOInv, PTL
     DEF Spec, CountersLast, FirstIsNotOvertaken, RewriterIsUsedWell,
         RewriterSpec

\* In such a behaviour the subscriber gets one stream: the promise of the
\* rewriter, composed with the queue before it.
THEOREM OneStreamUnlessTheFirstIsOvertaken ==
  ASSUME FramesInOrder
  PROVE  Spec /\ CountersLast /\ FirstIsNotOvertaken => Renumbers
BY PacketsReachTheRewriterInOrder, RewriterRenumbers, PTL
   DEF RewriterIsUsedWell

=============================================================================
