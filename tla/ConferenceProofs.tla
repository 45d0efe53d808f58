-------------------------- MODULE ConferenceProofs --------------------------
(***************************************************************************)
(* Proofs about Conference, for every set of participants, peers, tracks   *)
(* and messages and every capacity of the channels.                        *)
(***************************************************************************)
EXTENDS Conference, TLAPS

\* A Track object that AddPublishedTrack can take has no subscribers.
NewTracksAreIdle ==
  \A o \in Track, id \in ParticipantID :
    trackState[o] = "new" => subscriptions[o][id] = NoPeer

\* A Track object that was taken has an ID and an owner.
TracksHaveIDs ==
  \A o \in Track :
    trackState[o] # "new" => trackID[o] # NoTrackID /\ trackOwner[o] # NoID

\* Whoever posts was created.
SendersAreKnown ==
  /\ \A m \in inFlight : Created(m.from)
  /\ \A i \in DOMAIN peerMessages : Created(peerMessages[i].from)

\* No connection gets lost: one that exists is the current one of its
\* participant, or was terminated, or belongs to a NewPeer that failed.
PeersAreAccountedFor ==
  \A q \in Peer : Created(q) => q \in sealed \cup refused \/ Current(q)

\* Only peers that exist are terminated, or refused.
SealedPeersWereCreated == \A q \in sealed \cup refused : Created(q)

\* The main loop returns when it has no participants.
LoopEndsEmpty == signalDone => ~HasParticipants

PeersInv == /\ CurrentPeersAreOpen
            /\ SendersAreKnown
            /\ PeersAreAccountedFor
            /\ SealedPeersWereCreated

TracksInv == /\ PublishedTracksAreOwned
             /\ SubscribersAreCurrent
             /\ NewTracksAreIdle
             /\ TracksHaveIDs

Inv == PeersInv /\ TracksInv /\ LoopEndsEmpty

IInv == TypeOK /\ Inv

-----------------------------------------------------------------------------
(* The types of the helpers.                                               *)

\* A resend tells every peer a set of tracks.
LEMMA ResendType ==
  ASSUME TypeOK, NEW who \in SUBSET ParticipantID, NEW map, NEW owners,
         NEW metadata
  PROVE  Resend(who, map, owners, metadata) \in [Peer -> SUBSET TrackID]
BY DEF TypeOK, Resend, Available

\* The queue of the Matrix worker holds signaling messages.
LEMMA EnqueuedType ==
  ASSUME TypeOK, NEW q \in Peer,
         NEW what \in {"answer", "candidates", "hangup"}
  PROVE  Enqueued(matrixQueue, q, what) \in Seq(Signal)
<1>1. [to |-> q, what |-> what] \in Signal
  BY DEF Signal
<1> QED
  BY <1>1 DEF TypeOK, Enqueued

\* Metadata maps streams to participants.
LEMMA DescribedType ==
  ASSUME NEW metadata \in [StreamID -> ParticipantID \cup {NoID}],
         NEW id \in ParticipantID, NEW streams
  PROVE  Described(metadata, id, streams)
           \in [StreamID -> ParticipantID \cup {NoID}]
BY DEF Described

\* Terminating a peer and removing its tracks respects the types.
LEMMA TearDownType ==
  ASSUME TypeOK, NEW id \in ParticipantID, IsParticipant(id), TearDown(id)
  PROVE  /\ sealed' \in SUBSET Peer
         /\ dataChannel' \in [Peer -> BOOLEAN]
         /\ announced' \in [Peer -> SUBSET TrackID]
         /\ publishedTracks' \in [TrackID -> Track \cup {NoTrack}]
         /\ trackID' \in [Track -> TrackID \cup {NoTrackID}]
         /\ trackOwner' \in [Track -> ParticipantID \cup {NoID}]
         /\ trackState' \in
              [Track -> {"new", "running", "stopping", "done", "reported"}]
         /\ subscriptions' \in [Track -> [ParticipantID -> Peer \cup {NoPeer}]]
         /\ inFlight' \in SUBSET Message
         /\ MetadataWithout(id) \in [StreamID -> ParticipantID \cup {NoID}]
<1> DEFINE q == participants[id]
<1>1. q \in Peer
  BY DEF TypeOK, IsParticipant
<1>2. /\ sealed' \in SUBSET Peer
      /\ dataChannel' \in [Peer -> BOOLEAN]
  BY <1>1 DEF TypeOK, TearDown, Terminate
<1>3. LeftTheCall(q) \in Message
  BY <1>1 DEF LeftTheCall, Message, PlainKind
<1>4. inFlight' \in SUBSET Message
  BY <1>3 DEF TypeOK, TearDown, Terminate
<1>5. announced' \in [Peer -> SUBSET TrackID]
  <2>1. Resend(ParticipantID \ {id}, TracksWithout(id), trackOwner,
               MetadataWithout(id)) \in [Peer -> SUBSET TrackID]
    BY ResendType
  <2> QED
    BY <2>1, <1>1 DEF TearDown
<1>6. publishedTracks' \in [TrackID -> Track \cup {NoTrack}]
  BY DEF TypeOK, TearDown, TracksWithout
<1>7. trackState' \in
        [Track -> {"new", "running", "stopping", "done", "reported"}]
  BY DEF TypeOK, TearDown, Stopped
<1>8. subscriptions' \in [Track -> [ParticipantID -> Peer \cup {NoPeer}]]
  BY DEF TypeOK, TearDown, SubscriptionsWithout
<1>9. MetadataWithout(id) \in [StreamID -> ParticipantID \cup {NoID}]
  BY DEF TypeOK, MetadataWithout
<1> QED
  BY <1>2, <1>4, <1>5, <1>6, <1>7, <1>8, <1>9 DEF TypeOK, TearDown

\* The fields of a message have the types its handler expects.
LEMMA MessageFields ==
  ASSUME NEW m \in Message
  PROVE  /\ m.from \in Peer
         /\ m.kind = "NewTrackPublished" => m.track \in TrackID
         /\ m.kind = "TrackSubscription" =>
              m.request.subscribe \subseteq TrackID
BY DEF Message, PlainKind, SubscriptionRequest

\* The message that the loop takes is typed, its sender has an ID, and the
\* messages behind it were in the channel before.
LEMMA TakenMessage ==
  ASSUME IInv, ProcessPeerMessage
  PROVE  /\ Head(peerMessages) \in Message
         /\ Head(peerMessages).from \in Peer
         /\ owner[Head(peerMessages).from] \in ParticipantID
         /\ peerMessages' \in Seq(Message)
         /\ \A i \in DOMAIN peerMessages' :
              peerMessages'[i].from \in Peer /\ Created(peerMessages'[i].from)
<1>1. /\ peerMessages \in Seq(Message)
      /\ peerMessages # <<>>
      /\ peerMessages' = Tail(peerMessages)
  BY DEF IInv, TypeOK, ProcessPeerMessage
<1>2. /\ 1 \in DOMAIN peerMessages
      /\ Head(peerMessages) = peerMessages[1]
      /\ Head(peerMessages) \in Message
  BY <1>1
<1>3. Head(peerMessages).from \in Peer
  BY <1>2, MessageFields
<1>4. Created(Head(peerMessages).from)
  BY <1>2 DEF IInv, Inv, PeersInv, SendersAreKnown
<1>5. owner[Head(peerMessages).from] \in ParticipantID
  BY <1>3, <1>4 DEF IInv, TypeOK, Created
<1>6. peerMessages' \in Seq(Message)
  BY <1>1
<1>7. ASSUME NEW i \in DOMAIN peerMessages'
      PROVE  peerMessages'[i].from \in Peer /\ Created(peerMessages'[i].from)
  <2>1. /\ i + 1 \in DOMAIN peerMessages
        /\ peerMessages'[i] = peerMessages[i + 1]
        /\ peerMessages'[i] \in Message
    BY <1>1
  <2> QED
    BY <2>1, MessageFields DEF IInv, Inv, PeersInv, SendersAreKnown
<1> QED
  BY <1>2, <1>3, <1>5, <1>6, <1>7

-----------------------------------------------------------------------------
(* Types.                                                                  *)

\* Removing a participant keeps the types.
LEMMA RemovalType ==
  ASSUME IInv, NEW id \in ParticipantID, IsParticipant(id),
         removeParticipant(id), peerMessages' \in Seq(Message),
         matrixQueue' \in Seq(Signal), signalDone' \in BOOLEAN
  PROVE  TypeOK'
<1>1. TearDown(id)
  BY DEF removeParticipant
<1>2. participants' \in [ParticipantID -> Peer \cup {NoPeer}]
  BY DEF IInv, TypeOK, removeParticipant
<1>3. /\ owner' \in [Peer -> ParticipantID \cup {NoID}]
      /\ refused' \in SUBSET Peer
  BY DEF IInv, TypeOK, removeParticipant
<1>4. streamsMetadata' \in [StreamID -> ParticipantID \cup {NoID}]
  BY <1>1, TearDownType DEF IInv, removeParticipant
<1> QED
  BY <1>1, <1>2, <1>3, <1>4, TearDownType DEF IInv, TypeOK

\* Every handler of a peer's message keeps the types.
LEMMA PeerMessageType ==
  ASSUME IInv, LoopStep(ProcessPeerMessage)
  PROVE  TypeOK'
<1> DEFINE m == Head(peerMessages)
           id == owner[m.from]
<1>1. /\ m \in Message
      /\ m.from \in Peer
      /\ id \in ParticipantID
      /\ peerMessages' \in Seq(Message)
  BY TakenMessage DEF LoopStep
<1>2. signalDone' \in BOOLEAN
  BY DEF LoopStep
<1>3. TypeOK
  BY DEF IInv
<1>4. processPeerMessage(m)
  BY DEF LoopStep, ProcessPeerMessage
<1>5. CASE Ignored(m)
  BY <1>1, <1>2, <1>3, <1>5 DEF TypeOK, Ignored, peers, tracks
<1>6. CASE processLeftTheCallMessage(id)
  <2>1. IsParticipant(id) /\ removeParticipant(id)
    BY <1>6 DEF processLeftTheCallMessage
  <2>2. participants[id] \in Peer
    BY <1>1, <1>3, <2>1 DEF TypeOK, IsParticipant
  <2>3. matrixQueue' \in Seq(Signal)
    BY <1>3, <1>6, <2>2, EnqueuedType DEF processLeftTheCallMessage
  <2> QED
    BY <1>1, <1>2, <2>1, <2>3, RemovalType
<1>7. CASE m.kind = "NewTrackPublished"
             /\ processNewTrackPublishedMessage(id, m.track)
  <2>1. m.track \in TrackID
    BY <1>1, <1>7, MessageFields
  <2>2. announced' \in [Peer -> SUBSET TrackID]
    BY <1>3, <1>7, ResendType DEF processNewTrackPublishedMessage
  <2>3. CASE UNCHANGED tracks
    BY <1>1, <1>2, <1>3, <1>7, <2>2, <2>3
       DEF TypeOK, processNewTrackPublishedMessage, peers, tracks
  <2>4. CASE AddPublishedTrack(id, m.track)
    <3>1. /\ publishedTracks' \in [TrackID -> Track \cup {NoTrack}]
          /\ trackID' \in [Track -> TrackID \cup {NoTrackID}]
          /\ trackOwner' \in [Track -> ParticipantID \cup {NoID}]
          /\ trackState' \in
               [Track -> {"new", "running", "stopping", "done", "reported"}]
          /\ subscriptions' = subscriptions
      BY <1>1, <1>3, <2>1, <2>4 DEF TypeOK, AddPublishedTrack
    <3> QED
      BY <1>1, <1>2, <1>3, <1>7, <2>2, <3>1
         DEF TypeOK, processNewTrackPublishedMessage, peers
  <2> QED
    BY <1>7, <2>3, <2>4 DEF processNewTrackPublishedMessage
<1>8. CASE processTrackSubscriptionMessage(id, m.request)
  <2>1. participants[id] \in Peer
    BY <1>1, <1>3, <1>8
       DEF TypeOK, IsParticipant, processTrackSubscriptionMessage
  <2>2. subscriptions' \in [Track -> [ParticipantID -> Peer \cup {NoPeer}]]
    BY <1>1, <1>3, <1>8, <2>1 DEF TypeOK, processTrackSubscriptionMessage
  <2> QED
    BY <1>1, <1>2, <1>3, <1>8, <2>2
       DEF TypeOK, processTrackSubscriptionMessage, peers
<1>9. CASE processNegotiateMessage(id, m.streams)
  <2>1. streamsMetadata' \in [StreamID -> ParticipantID \cup {NoID}]
    BY <1>1, <1>3, <1>9, DescribedType DEF TypeOK, processNegotiateMessage
  <2>2. SendAvailable(id, streamsMetadata') \in [Peer -> SUBSET TrackID]
    BY <1>1, <1>3, ResendType DEF SendAvailable
  <2> QED
    BY <1>1, <1>2, <1>3, <1>9, <2>1, <2>2
       DEF TypeOK, processNegotiateMessage, peers, tracks
<1>10. CASE processMetadataMessage(id, m.streams)
  <2>1. streamsMetadata' \in [StreamID -> ParticipantID \cup {NoID}]
    BY <1>1, <1>3, <1>10, DescribedType DEF TypeOK, processMetadataMessage
  <2>2. announced' \in [Peer -> SUBSET TrackID]
    BY <1>3, <1>10, ResendType DEF processMetadataMessage
  <2> QED
    BY <1>1, <1>2, <1>3, <1>10, <2>1, <2>2
       DEF TypeOK, processMetadataMessage, peers, tracks
<1>11. CASE processAnnouncement(id)
  <2>1. announced' \in [Peer -> SUBSET TrackID]
    BY <1>1, <1>3, <1>11, ResendType DEF processAnnouncement, SendAvailable
  <2> QED
    BY <1>1, <1>2, <1>3, <1>11, <2>1
       DEF TypeOK, processAnnouncement, peers, tracks
<1>12. CASE processNewICECandidateMessage(id)
  <2>1. participants[id] \in Peer
    BY <1>1, <1>3, <1>12
       DEF TypeOK, IsParticipant, processNewICECandidateMessage
  <2>2. matrixQueue' \in Seq(Signal)
    BY <1>3, <1>12, <2>1, EnqueuedType DEF processNewICECandidateMessage
  <2> QED
    BY <1>1, <1>2, <1>3, <1>12, <2>2
       DEF TypeOK, processNewICECandidateMessage, peers, tracks
<1> QED
  BY <1>4, <1>5, <1>6, <1>7, <1>8, <1>9, <1>10, <1>11, <1>12
     DEF processPeerMessage

\* Every handler of a Matrix message keeps the types.
LEMMA MatrixMessageType ==
  ASSUME IInv, LoopStep(ProcessMatrixMessage)
  PROVE  TypeOK'
<1>1. PICK id \in ParticipantID :
        onNewParticipant(id) \/ onHangup(id) \/ onSelectAnswer(id)
  BY DEF LoopStep, ProcessMatrixMessage
<1>2. /\ TypeOK
      /\ peerMessages' \in Seq(Message)
      /\ signalDone' \in BOOLEAN
  BY DEF IInv, TypeOK, LoopStep, ProcessMatrixMessage
<1>3. ASSUME NEW streams \in Declarations, Join(id, streams)
      PROVE  TypeOK'
  <2>1. PICK q \in Peer :
          /\ owner' = [owner EXCEPT ![q] = id]
          /\ participants' = [participants EXCEPT ![id] = q]
          /\ matrixQueue' = Enqueued(matrixQueue, q, "answer")
    BY <1>3 DEF Join
  <2>2. matrixQueue' \in Seq(Signal)
    BY <1>2, <2>1, EnqueuedType
  <2>3. streamsMetadata' \in [StreamID -> ParticipantID \cup {NoID}]
    BY <1>2, <1>3, DescribedType DEF TypeOK, Join
  <2> QED
    BY <1>2, <1>3, <2>1, <2>2, <2>3 DEF TypeOK, Join, tracks
<1>4. ASSUME NEW streams \in Declarations, Rejoin(id, streams)
      PROVE  TypeOK'
  <2>1. PICK q \in Peer :
          /\ owner' = [owner EXCEPT ![q] = id]
          /\ participants' = [participants EXCEPT ![id] = q]
          /\ matrixQueue' = Enqueued(matrixQueue, q, "answer")
    BY <1>4 DEF Rejoin
  <2>2. IsParticipant(id) /\ TearDown(id)
    BY <1>4 DEF Rejoin
  <2>3. matrixQueue' \in Seq(Signal)
    BY <1>2, <2>1, EnqueuedType
  <2>4. streamsMetadata' \in [StreamID -> ParticipantID \cup {NoID}]
    BY <1>2, <1>4, <2>2, TearDownType, DescribedType DEF Rejoin
  <2>5. /\ participants' \in [ParticipantID -> Peer \cup {NoPeer}]
        /\ owner' \in [Peer -> ParticipantID \cup {NoID}]
        /\ refused' \in SUBSET Peer
    BY <1>2, <1>4, <2>1 DEF TypeOK, Rejoin
  <2> QED
    BY <1>2, <2>2, <2>3, <2>4, <2>5, TearDownType DEF TypeOK
<1>5. ASSUME NEW streams \in Declarations, Reoffer(id, streams)
      PROVE  TypeOK'
  <2>1. participants[id] \in Peer
    BY <1>2, <1>5 DEF TypeOK, Reoffer, IsParticipant
  <2>2. matrixQueue' \in Seq(Signal)
    BY <1>2, <1>5, <2>1, EnqueuedType DEF Reoffer
  <2>3. streamsMetadata' \in [StreamID -> ParticipantID \cup {NoID}]
    BY <1>2, <1>5, DescribedType DEF TypeOK, Reoffer
  <2> QED
    BY <1>2, <1>5, <2>2, <2>3 DEF TypeOK, Reoffer, peers, tracks
<1>6. CASE JoinFails(id)
  <2>1. /\ owner' \in [Peer -> ParticipantID \cup {NoID}]
        /\ refused' \in SUBSET Peer
    BY <1>2, <1>6 DEF TypeOK, JoinFails
  <2>2. CASE IsParticipant(id)
    <3>1. /\ TearDown(id)
          /\ participants' \in [ParticipantID -> Peer \cup {NoPeer}]
          /\ streamsMetadata' = MetadataWithout(id)
          /\ matrixQueue' = matrixQueue
      BY <1>2, <1>6, <2>2 DEF TypeOK, JoinFails
    <3> QED
      BY <1>2, <2>1, <2>2, <3>1, TearDownType DEF TypeOK
  <2>3. CASE ~IsParticipant(id)
    BY <1>2, <1>6, <2>1, <2>3 DEF TypeOK, JoinFails, tracks
  <2> QED
    BY <2>2, <2>3
<1>7. CASE onHangup(id) \/ onSelectAnswer(id)
  <2>1. /\ IsParticipant(id)
        /\ removeParticipant(id)
        /\ matrixQueue' = matrixQueue
    BY <1>7 DEF onHangup, onSelectAnswer
  <2> QED
    BY <1>2, <2>1, RemovalType DEF TypeOK
<1> QED
  BY <1>1, <1>3, <1>4, <1>5, <1>6, <1>7 DEF onNewParticipant

\* The report of a stopped track keeps the types.
LEMMA ReportType ==
  ASSUME IInv, NEW o \in Track,
         LoopStep(processPublishedTrackFailedMessage(o))
  PROVE  TypeOK'
<1>1. /\ TypeOK
      /\ processPublishedTrackFailedMessage(o)
      /\ signalDone' \in BOOLEAN
  BY DEF IInv, LoopStep
<1>2. announced' \in [Peer -> SUBSET TrackID]
  BY <1>1, ResendType DEF processPublishedTrackFailedMessage
<1>3. publishedTracks' \in [TrackID -> Track \cup {NoTrack}]
  BY <1>1 DEF TypeOK, processPublishedTrackFailedMessage, RemovePublishedTrack
<1>4. trackState' \in
        [Track -> {"new", "running", "stopping", "done", "reported"}]
  BY <1>1 DEF TypeOK, processPublishedTrackFailedMessage, Stopped
<1> QED
  BY <1>1, <1>2, <1>3, <1>4
     DEF TypeOK, processPublishedTrackFailedMessage, RemovePublishedTrack,
         peers

\* The goroutines around the loop keep the types.
LEMMA GoroutineType ==
  ASSUME TypeOK,
         \/ \E q \in Peer :
              BeginSend(q) \/ OpenDataChannel(q) \/ LoseDataChannel(q)
         \/ \E m \in inFlight : CompleteSend(m) \/ RefuseSend(m)
         \/ \E o \in Track : TrackEnds(o) \/ WatcherQuits(o)
         \/ \E o \in Track, id \in ParticipantID : SubscriptionEnds(o, id)
         \/ MatrixWorkerSends
         \/ UNCHANGED vars
  PROVE  TypeOK'
<1>1. ASSUME NEW q \in Peer, BeginSend(q)
      PROVE  TypeOK'
  BY <1>1 DEF TypeOK, BeginSend, Posts, Post, state, peers, tracks
<1>2. ASSUME NEW q \in Peer, OpenDataChannel(q)
      PROVE  TypeOK'
  <2>1. [kind |-> "DataChannelAvailable", from |-> q] \in Message
    BY DEF Message, PlainKind
  <2> QED
    BY <1>2, <2>1 DEF TypeOK, OpenDataChannel, peers, tracks
<1>3. ASSUME NEW q \in Peer, LoseDataChannel(q)
      PROVE  TypeOK'
  BY <1>3 DEF TypeOK, LoseDataChannel, peers, tracks, loop
<1>4. ASSUME NEW m \in inFlight, CompleteSend(m) \/ RefuseSend(m)
      PROVE  TypeOK'
  <2>1. /\ inFlight' \in SUBSET Message
        /\ m \in Message
        /\ UNCHANGED state
    BY <1>4 DEF TypeOK, CompleteSend, RefuseSend
  <2>2. peerMessages \in Seq(Message)
    BY DEF TypeOK
  <2>3. \/ peerMessages' = Append(peerMessages, m)
        \/ peerMessages' = peerMessages
    BY <1>4 DEF CompleteSend, RefuseSend
  <2>4. peerMessages' \in Seq(Message)
    BY <2>1, <2>2, <2>3
  <2> QED
    BY <2>1, <2>4 DEF TypeOK, state, peers, tracks
<1>5. ASSUME NEW o \in Track, TrackEnds(o) \/ WatcherQuits(o)
      PROVE  TypeOK'
  BY <1>5 DEF TypeOK, TrackEnds, WatcherQuits, peers, loop
<1>6. ASSUME NEW o \in Track, NEW id \in ParticipantID,
             SubscriptionEnds(o, id)
      PROVE  TypeOK'
  BY <1>6 DEF TypeOK, SubscriptionEnds, peers, loop
<1>7. CASE MatrixWorkerSends
  BY <1>7 DEF TypeOK, MatrixWorkerSends, peers, tracks, loop
<1>8. CASE UNCHANGED vars
  BY <1>8 DEF TypeOK, vars, peers, tracks
<1> QED
  BY <1>1, <1>2, <1>3, <1>4, <1>5, <1>6, <1>7, <1>8

\* The first participant has joined, nothing else has happened.
LEMMA InitType == Init => TypeOK
<1> SUFFICES ASSUME Init PROVE TypeOK
  OBVIOUS
<1>1. PICK id \in ParticipantID, q \in Peer, streams \in Declarations :
        /\ participants = [x \in ParticipantID |->
                             IF x = id THEN q ELSE NoPeer]
        /\ owner = [x \in Peer |-> IF x = q THEN id ELSE NoID]
        /\ streamsMetadata =
             Described([s \in StreamID |-> NoID], id, streams)
        /\ matrixQueue = Enqueued(<<>>, q, "answer")
  BY DEF Init
<1>2. streamsMetadata \in [StreamID -> ParticipantID \cup {NoID}]
  BY <1>1, DescribedType
<1>3. matrixQueue \in Seq(Signal)
  <2>1. [to |-> q, what |-> "answer"] \in Signal
    BY DEF Signal
  <2> QED
    BY <1>1, <2>1 DEF Enqueued
<1>4. /\ participants \in [ParticipantID -> Peer \cup {NoPeer}]
      /\ owner \in [Peer -> ParticipantID \cup {NoID}]
  BY <1>1
<1>5. Nothing
  BY DEF Init
<1>6. /\ peerMessages \in Seq(Message)
      /\ inFlight \in SUBSET Message
  BY <1>5 DEF Nothing
<1> QED
  BY <1>2, <1>3, <1>4, <1>5, <1>6 DEF Nothing, TypeOK

\* Every step respects the types.
LEMMA TypeStep == IInv /\ [Next]_vars => TypeOK'
<1> SUFFICES ASSUME IInv, [Next]_vars PROVE TypeOK'
  OBVIOUS
<1> QED
  BY PeerMessageType, MatrixMessageType, ReportType, GoroutineType
     DEF IInv, Next

-----------------------------------------------------------------------------
(* The inductive invariant.                                                *)

\* The messages in the channel and in flight are messages of created peers.
LEMMA QueuedMessages ==
  ASSUME IInv
  PROVE  /\ \A i \in DOMAIN peerMessages :
              peerMessages[i].from \in Peer /\ Created(peerMessages[i].from)
         /\ \A m \in inFlight : m.from \in Peer /\ Created(m.from)
<1>1. ASSUME NEW i \in DOMAIN peerMessages
      PROVE  peerMessages[i].from \in Peer /\ Created(peerMessages[i].from)
  <2>1. peerMessages[i] \in Message
    BY DEF IInv, TypeOK
  <2> QED
    BY <2>1, MessageFields DEF IInv, Inv, PeersInv, SendersAreKnown
<1>2. ASSUME NEW m \in inFlight
      PROVE  m.from \in Peer /\ Created(m.from)
  BY MessageFields DEF IInv, TypeOK, Inv, PeersInv, SendersAreKnown
<1> QED
  BY <1>1, <1>2

\* The peers keep their invariant if none is created, removed or terminated
\* and nothing new is posted.
LEMMA SamePeers ==
  ASSUME IInv, UNCHANGED peers, inFlight' \subseteq inFlight,
         \A i \in DOMAIN peerMessages' : Created(peerMessages'[i].from)
  PROVE  PeersInv'
BY DEF IInv, Inv, PeersInv, CurrentPeersAreOpen, SendersAreKnown,
       PeersAreAccountedFor, SealedPeersWereCreated, IsParticipant, Created,
       Current, peers

\* So do the tracks if they and the participants stay the same.
LEMMA SameTracks ==
  ASSUME IInv, UNCHANGED <<participants, tracks>>
  PROVE  TracksInv'
BY DEF IInv, Inv, TracksInv, PublishedTracksAreOwned, SubscribersAreCurrent,
       NewTracksAreIdle, TracksHaveIDs, IsParticipant, Published, tracks

\* What TearDown leaves in the tracker is not owned by the participant, is as
\* it was, and does not feed the participant.
LEMMA TornDownTracks ==
  ASSUME IInv, NEW id \in ParticipantID, IsParticipant(id), TearDown(id)
  PROVE  /\ \A t \in TrackID :
              LET o == publishedTracks[t] IN
              Published(t)' =>
                /\ Published(t)
                /\ publishedTracks'[t] = o
                /\ trackOwner[o] # id
                /\ trackState'[o] = trackState[o]
                /\ subscriptions'[o] =
                     [subscriptions[o] EXCEPT ![id] = NoPeer]
         /\ UNCHANGED <<trackID, trackOwner>>
         /\ NewTracksAreIdle'
         /\ TracksHaveIDs'
<1>1. ASSUME NEW t \in TrackID, Published(t)'
      PROVE  /\ Published(t)
             /\ publishedTracks'[t] = publishedTracks[t]
             /\ trackOwner[publishedTracks[t]] # id
             /\ publishedTracks[t] \in Track
  BY <1>1 DEF IInv, TypeOK, TearDown, TracksWithout, OwnTracks, Published
<1>2. ASSUME NEW t \in TrackID, Published(t)'
      PROVE  trackState'[publishedTracks[t]] = trackState[publishedTracks[t]]
  BY <1>1, <1>2 DEF IInv, TypeOK, TearDown, OwnTracks
<1>3. ASSUME NEW t \in TrackID, Published(t)'
      PROVE  subscriptions'[publishedTracks[t]] =
               [subscriptions[publishedTracks[t]] EXCEPT ![id] = NoPeer]
  BY <1>1, <1>3 DEF TearDown, SubscriptionsWithout
<1>4. NewTracksAreIdle'
  <2> SUFFICES ASSUME NEW o \in Track, NEW x \in ParticipantID,
                      trackState'[o] = "new"
               PROVE  subscriptions'[o][x] = NoPeer
    BY DEF NewTracksAreIdle
  <2>1. trackState[o] = "new"
    BY DEF IInv, TypeOK, TearDown, Stopped
  <2>2. subscriptions[o][x] = NoPeer
    BY <2>1 DEF IInv, Inv, TracksInv, NewTracksAreIdle
  <2> QED
    BY <2>2 DEF IInv, TypeOK, TearDown, SubscriptionsWithout
<1>5. TracksHaveIDs'
  BY DEF IInv, TypeOK, Inv, TracksInv, TracksHaveIDs, TearDown, Stopped
<1> QED
  BY <1>1, <1>2, <1>3, <1>4, <1>5 DEF TearDown

\* Removing a participant keeps the invariant, and so does replacing its peer
\* by one that has just been created for it.
LEMMA Removal ==
  ASSUME IInv, NEW id \in ParticipantID, IsParticipant(id), TearDown(id),
         NEW r,
         participants' = [participants EXCEPT ![id] = r],
         \A q \in Peer : Created(q) => owner'[q] = owner[q],
         \/ r = NoPeer
         \/ r \in Peer /\ ~Created(r) /\ owner'[r] = id,
         refused \subseteq refused', \A q \in refused' : Created(q)',
         \A q \in Peer : Created(q)' => \/ Created(q)
                                      \/ q = r
                                      \/ q \in refused',
         \A i \in DOMAIN peerMessages' :
           peerMessages'[i].from \in Peer /\ Created(peerMessages'[i].from)
  PROVE  PeersInv' /\ TracksInv'
<1> DEFINE old == participants[id]
<1>1. /\ TypeOK
      /\ old \in Peer
      /\ sealed' = sealed \cup {old}
      /\ inFlight' \subseteq inFlight \cup {LeftTheCall(old)}
  BY DEF IInv, TypeOK, IsParticipant, TearDown, Terminate
<1>2. owner[old] = id /\ Created(old)
  BY ConferenceAssumption
     DEF IInv, Inv, PeersInv, CurrentPeersAreOpen, Created
<1>3. \A q \in Peer : Created(q) => Created(q)'
  BY DEF Created
<1>4. CurrentPeersAreOpen'
  <2> SUFFICES ASSUME NEW x \in ParticipantID, participants'[x] # NoPeer
               PROVE  /\ owner'[participants'[x]] = x
                      /\ participants'[x] \notin sealed'
    BY DEF CurrentPeersAreOpen, IsParticipant
  <2>1. CASE x = id
    BY <1>1, <1>2, <2>1 DEF IInv, Inv, PeersInv, SealedPeersWereCreated, TypeOK
  <2>2. CASE x # id
    <3>1. /\ participants'[x] = participants[x]
          /\ participants[x] \in Peer
          /\ owner[participants[x]] = x
          /\ participants[x] \notin sealed
      BY <1>1, <2>2
         DEF IInv, Inv, PeersInv, CurrentPeersAreOpen, IsParticipant, TypeOK
    <3>2. Created(participants[x])
      BY <3>1, ConferenceAssumption DEF Created
    <3> QED
      BY <1>1, <1>2, <2>2, <3>1, <3>2
  <2> QED
    BY <2>1, <2>2
<1>5. SendersAreKnown' /\ PeersAreAccountedFor'
  <2>1. ASSUME NEW m \in inFlight'
        PROVE  owner'[m.from] # NoID
    <3>1. CASE m = LeftTheCall(old)
      BY <1>1, <1>2, <1>3, <3>1 DEF LeftTheCall, Created
    <3>2. CASE m \in inFlight
      BY <1>3, <3>2, QueuedMessages DEF Created
    <3> QED
      BY <1>1, <2>1, <3>1, <3>2
  <2>2. \A i \in DOMAIN peerMessages' :
          owner'[peerMessages'[i].from] # NoID
    BY <1>3 DEF Created
  <2>3. ASSUME NEW q \in Peer, Created(q)'
        PROVE  q \in sealed' \cup refused' \/ Current(q)'
    <3>1. CASE q = r
      BY <1>1, <2>3, <3>1, ConferenceAssumption DEF TypeOK, Current
    <3>2. CASE Created(q) /\ q # r
      <4>1. q \in sealed \cup refused \/ Current(q)
        BY <3>2 DEF IInv, Inv, PeersInv, PeersAreAccountedFor
      <4>2. owner[q] = id /\ Current(q) => q = old
        BY DEF Current
      <4>3. owner[q] # id => participants'[owner[q]] = participants[owner[q]]
        BY <1>1, <3>2 DEF TypeOK, Created
      <4> QED
        BY <1>1, <1>3, <3>2, <4>1, <4>2, <4>3 DEF Current
    <3> QED
      BY <2>3, <3>1, <3>2
  <2> QED
    BY <2>1, <2>2, <2>3 DEF SendersAreKnown, PeersAreAccountedFor, Created
<1>6. SealedPeersWereCreated'
  BY <1>1, <1>2, <1>3 DEF IInv, Inv, PeersInv, SealedPeersWereCreated, TypeOK
<1>7. PublishedTracksAreOwned'
  <2> SUFFICES ASSUME NEW t \in TrackID, Published(t)'
               PROVE  LET o == publishedTracks'[t] IN
                      /\ trackID'[o] = t
                      /\ participants'[trackOwner'[o]] # NoPeer
                      /\ trackState'[o] \in {"running", "done"}
    BY DEF PublishedTracksAreOwned, IsParticipant
  <2> DEFINE o == publishedTracks[t]
  <2>1. /\ Published(t)
        /\ publishedTracks'[t] = o
        /\ trackOwner[o] # id
        /\ trackState'[o] = trackState[o]
        /\ trackID' = trackID
        /\ trackOwner' = trackOwner
    BY TornDownTracks
  <2>2. /\ trackID[o] = t
        /\ participants[trackOwner[o]] # NoPeer
        /\ trackState[o] \in {"running", "done"}
    BY <2>1 DEF IInv, Inv, TracksInv, PublishedTracksAreOwned, IsParticipant
  <2>3. participants'[trackOwner[o]] = participants[trackOwner[o]]
    BY <1>1, <2>1 DEF TypeOK
  <2> QED
    BY <2>1, <2>2, <2>3
<1>8. SubscribersAreCurrent'
  <2> SUFFICES ASSUME NEW t \in TrackID, NEW x \in ParticipantID,
                      Published(t)',
                      subscriptions'[publishedTracks'[t]][x] # NoPeer
               PROVE  subscriptions'[publishedTracks'[t]][x] =
                        participants'[x]
    BY DEF SubscribersAreCurrent
  <2> DEFINE o == publishedTracks[t]
  <2>0. /\ Published(t)
        /\ publishedTracks'[t] = o
        /\ subscriptions'[o] = [subscriptions[o] EXCEPT ![id] = NoPeer]
    BY TornDownTracks
  <2>1. /\ Published(t)
        /\ publishedTracks'[t] = o
        /\ o \in Track
        /\ subscriptions'[o] = [subscriptions[o] EXCEPT ![id] = NoPeer]
    BY <1>1, <2>0 DEF TypeOK, Published
  <2>2. x # id
    BY <1>1, <2>1 DEF TypeOK
  <2>3. subscriptions'[o][x] = subscriptions[o][x]
    BY <1>1, <2>1, <2>2 DEF TypeOK
  <2>4. subscriptions[o][x] = participants[x]
    BY <2>1, <2>3 DEF IInv, Inv, TracksInv, SubscribersAreCurrent
  <2> QED
    BY <1>1, <2>1, <2>2, <2>3, <2>4 DEF TypeOK
<1> QED
  BY <1>4, <1>5, <1>6, <1>7, <1>8, TornDownTracks DEF PeersInv, TracksInv

\* So a removal that no new peer follows keeps it.
LEMMA PlainRemoval ==
  ASSUME IInv, NEW id \in ParticipantID, IsParticipant(id),
         removeParticipant(id),
         \A i \in DOMAIN peerMessages' :
           peerMessages'[i].from \in Peer /\ Created(peerMessages'[i].from)
  PROVE  PeersInv' /\ TracksInv'
<1>1. /\ TearDown(id)
      /\ participants' = [participants EXCEPT ![id] = NoPeer]
      /\ owner' = owner
      /\ refused' = refused
  BY DEF removeParticipant
<1>2. \A q \in refused' : Created(q)'
  BY <1>1 DEF IInv, Inv, PeersInv, SealedPeersWereCreated, Created
<1>3. \A q \in Peer : Created(q)' => Created(q)
  BY <1>1 DEF Created
<1> QED
  BY <1>1, <1>2, <1>3, Removal

\* A step of the loop checks whether the conference has ended.
LEMMA LoopEnds ==
  ASSUME NEW ACTION step, LoopStep(step)
  PROVE  LoopEndsEmpty'
BY DEF LoopStep, LoopEndsEmpty, HasParticipants, IsParticipant

\* Every handler of a peer's message keeps the invariant.
LEMMA PeerMessageInv ==
  ASSUME IInv, LoopStep(ProcessPeerMessage)
  PROVE  PeersInv' /\ TracksInv'
<1> DEFINE m == Head(peerMessages)
           id == owner[m.from]
<1>1. /\ id \in ParticipantID
      /\ processPeerMessage(m)
      /\ \A i \in DOMAIN peerMessages' :
           peerMessages'[i].from \in Peer /\ Created(peerMessages'[i].from)
  BY TakenMessage DEF LoopStep, ProcessPeerMessage
<1>2. CASE \/ Ignored(m)
           \/ processNegotiateMessage(id, m.streams)
           \/ processMetadataMessage(id, m.streams)
           \/ processAnnouncement(id)
           \/ processNewICECandidateMessage(id)
  <2>1. UNCHANGED <<peers, tracks, inFlight>>
    BY <1>2 DEF Ignored, processNegotiateMessage, processMetadataMessage,
                processAnnouncement, processNewICECandidateMessage
  <2> QED
    BY <1>1, <2>1, SamePeers, SameTracks DEF peers
<1>3. CASE processLeftTheCallMessage(id)
  BY <1>1, <1>3, PlainRemoval DEF processLeftTheCallMessage
<1>4. CASE m.kind = "NewTrackPublished"
             /\ processNewTrackPublishedMessage(id, m.track)
  <2>1. UNCHANGED <<peers, inFlight>>
    BY <1>4 DEF processNewTrackPublishedMessage
  <2>2. PeersInv'
    BY <1>1, <2>1, SamePeers
  <2>3. CASE UNCHANGED tracks
    BY <2>1, <2>2, <2>3, SameTracks DEF peers
  <2>4. CASE AddPublishedTrack(id, m.track)
    <3> DEFINE t == m.track
    <3>1. t \in TrackID
      BY <1>4, MessageFields, TakenMessage DEF LoopStep
    <3>2. PICK o \in Track :
            /\ trackState[o] = "new"
            /\ publishedTracks' = [publishedTracks EXCEPT ![t] = o]
            /\ trackID' = [trackID EXCEPT ![o] = t]
            /\ trackOwner' = [trackOwner EXCEPT ![o] = id]
            /\ trackState' = [trackState EXCEPT ![o] = "running"]
      BY <2>4 DEF AddPublishedTrack
    <3>3. /\ IsParticipant(id)
          /\ subscriptions' = subscriptions
          /\ participants' = participants
      BY <2>1, <2>4 DEF AddPublishedTrack, peers
    <3>4. \A x \in ParticipantID : subscriptions[o][x] = NoPeer
      BY <3>2 DEF IInv, Inv, TracksInv, NewTracksAreIdle
    <3>5. \A x \in TrackID : Published(x) => publishedTracks[x] # o
      BY <3>2 DEF IInv, Inv, TracksInv, PublishedTracksAreOwned
    <3>6. PublishedTracksAreOwned'
      BY <1>1, <3>1, <3>2, <3>3, <3>5
         DEF IInv, TypeOK, Inv, TracksInv, PublishedTracksAreOwned,
             IsParticipant, Published
    <3>7. SubscribersAreCurrent'
      BY <3>1, <3>2, <3>3, <3>4
         DEF IInv, TypeOK, Inv, TracksInv, SubscribersAreCurrent, Published
    <3>8. NewTracksAreIdle'
      BY <3>2, <3>3 DEF IInv, TypeOK, Inv, TracksInv, NewTracksAreIdle
    <3>9. TracksHaveIDs'
      BY <1>1, <3>1, <3>2, ConferenceAssumption
         DEF IInv, TypeOK, Inv, TracksInv, TracksHaveIDs
    <3> QED
      BY <2>2, <3>6, <3>7, <3>8, <3>9 DEF TracksInv
  <2> QED
    BY <1>4, <2>3, <2>4 DEF processNewTrackPublishedMessage
<1>5. CASE m.kind = "TrackSubscription"
             /\ processTrackSubscriptionMessage(id, m.request)
  <2>1. /\ UNCHANGED <<peers, inFlight, publishedTracks, trackID, trackOwner,
                       trackState>>
        /\ IsParticipant(id)
    BY <1>5 DEF processTrackSubscriptionMessage
  <2>2. PeersInv'
    BY <1>1, <2>1, SamePeers
  <2>3. \A o \in Track, x \in ParticipantID :
          \/ subscriptions'[o][x] = subscriptions[o][x]
          \/ /\ x = id
             /\ subscriptions'[o][x] = NoPeer
          \/ /\ x = id
             /\ subscriptions'[o][x] = participants[id]
             /\ \E t \in m.request.subscribe : publishedTracks[t] = o
    BY <1>1, <1>5 DEF IInv, TypeOK, processTrackSubscriptionMessage
  <2>4. PublishedTracksAreOwned'
    BY <2>1 DEF IInv, Inv, TracksInv, PublishedTracksAreOwned, Published,
                IsParticipant, peers
  <2>5. SubscribersAreCurrent'
    BY <2>1, <2>3 DEF IInv, TypeOK, Inv, TracksInv, SubscribersAreCurrent,
                      Published, peers
  <2>6. NewTracksAreIdle'
    <3> SUFFICES ASSUME NEW o \in Track, NEW x \in ParticipantID,
                        trackState[o] = "new"
                 PROVE  subscriptions'[o][x] = NoPeer
      BY <2>1 DEF NewTracksAreIdle
    <3>1. \A t \in TrackID : publishedTracks[t] # o
      BY ConferenceAssumption
         DEF IInv, Inv, TracksInv, PublishedTracksAreOwned, Published
    <3>2. m.request.subscribe \subseteq TrackID
      BY <1>5, MessageFields, TakenMessage DEF LoopStep
    <3> QED
      BY <2>3, <3>1, <3>2 DEF IInv, Inv, TracksInv, NewTracksAreIdle
  <2>7. TracksHaveIDs'
    BY <2>1 DEF IInv, Inv, TracksInv, TracksHaveIDs
  <2> QED
    BY <2>2, <2>4, <2>5, <2>6, <2>7 DEF TracksInv
<1> QED
  BY <1>1, <1>2, <1>3, <1>4, <1>5 DEF processPeerMessage

\* Every handler of a Matrix message keeps the invariant.
LEMMA MatrixMessageInv ==
  ASSUME IInv, LoopStep(ProcessMatrixMessage)
  PROVE  PeersInv' /\ TracksInv'
<1>1. PICK id \in ParticipantID :
        onNewParticipant(id) \/ onHangup(id) \/ onSelectAnswer(id)
  BY DEF LoopStep, ProcessMatrixMessage
<1>2. peerMessages' = peerMessages
  BY DEF LoopStep, ProcessMatrixMessage
<1>3. \A i \in DOMAIN peerMessages' :
        peerMessages'[i].from \in Peer /\ Created(peerMessages'[i].from)
  BY <1>2, QueuedMessages
<1>4. ASSUME NEW streams \in Declarations, Join(id, streams)
      PROVE  PeersInv' /\ TracksInv'
  <2>1. PICK q \in Peer :
          /\ ~Created(q)
          /\ owner' = [owner EXCEPT ![q] = id]
          /\ participants' = [participants EXCEPT ![id] = q]
    BY <1>4 DEF Join
  <2>2. /\ participants[id] = NoPeer
        /\ UNCHANGED <<sealed, refused, tracks, inFlight>>
    BY <1>4 DEF Join, IsParticipant
  <2>3. /\ TypeOK
        /\ q \notin sealed
        /\ \A x \in ParticipantID : participants[x] # q
    BY <2>1, ConferenceAssumption
       DEF IInv, Inv, PeersInv, SealedPeersWereCreated, CurrentPeersAreOpen,
           IsParticipant, Created
  <2>4. CurrentPeersAreOpen'
    BY <2>1, <2>2, <2>3 DEF IInv, TypeOK, Inv, PeersInv, CurrentPeersAreOpen,
                            IsParticipant
  <2>5. SealedPeersWereCreated'
    BY <2>1, <2>2, <2>3, ConferenceAssumption
       DEF IInv, TypeOK, Inv, PeersInv, SealedPeersWereCreated, Created
  <2>6. SendersAreKnown'
    <3>1. \A i \in DOMAIN peerMessages' :
            owner'[peerMessages'[i].from] # NoID
      BY <1>3, <2>1, <2>3 DEF TypeOK, Created
    <3>2. \A m \in inFlight' : owner'[m.from] # NoID
      BY <2>1, <2>2, <2>3, QueuedMessages DEF TypeOK, Created
    <3> QED
      BY <3>1, <3>2 DEF SendersAreKnown, Created
  <2>11. PeersAreAccountedFor'
    <3> SUFFICES ASSUME NEW x \in Peer, Created(x)'
                 PROVE  x \in sealed' \cup refused' \/ Current(x)'
      BY DEF PeersAreAccountedFor
    <3>1. CASE x = q
      BY <2>1, <2>3, <3>1, ConferenceAssumption DEF TypeOK, Current
    <3>2. CASE x # q
      <4>1. owner'[x] = owner[x] /\ Created(x)
        BY <2>1, <2>3, <3>2 DEF TypeOK, Created
      <4>2. x \in sealed \cup refused \/ Current(x)
        BY <4>1 DEF IInv, Inv, PeersInv, PeersAreAccountedFor
      <4>3. Current(x) => participants'[owner[x]] = x
        BY <2>1, <2>2, <2>3, <4>1, ConferenceAssumption
           DEF TypeOK, Current, Created
      <4> QED
        BY <2>2, <4>1, <4>2, <4>3 DEF Current, Created
    <3> QED
      BY <3>1, <3>2
  <2>7. PublishedTracksAreOwned'
    BY <2>1, <2>2, <2>3, ConferenceAssumption
       DEF IInv, TypeOK, Inv, TracksInv, PublishedTracksAreOwned,
           TracksHaveIDs, Published, IsParticipant, tracks
  <2>8. SubscribersAreCurrent'
    BY <2>1, <2>2, <2>3
       DEF IInv, TypeOK, Inv, TracksInv, SubscribersAreCurrent, Published,
           tracks
  <2>9. NewTracksAreIdle'
    BY <2>2 DEF IInv, Inv, TracksInv, NewTracksAreIdle, tracks
  <2>10. TracksHaveIDs'
    BY <2>2 DEF IInv, Inv, TracksInv, TracksHaveIDs, tracks
  <2> QED
    BY <2>4, <2>5, <2>6, <2>7, <2>8, <2>9, <2>10, <2>11
       DEF PeersInv, TracksInv
<1>5. ASSUME NEW streams \in Declarations, Rejoin(id, streams)
      PROVE  PeersInv' /\ TracksInv'
  <2>1. PICK q \in Peer :
          /\ ~Created(q)
          /\ owner' = [owner EXCEPT ![q] = id]
          /\ participants' = [participants EXCEPT ![id] = q]
    BY <1>5 DEF Rejoin
  <2>2. IsParticipant(id) /\ TearDown(id)
    BY <1>5 DEF Rejoin
  <2>3. /\ owner'[q] = id
        /\ \A p \in Peer : Created(p) => owner'[p] = owner[p]
        /\ \A p \in Peer : Created(p)' => Created(p) \/ p = q
    BY <2>1 DEF IInv, TypeOK, Created
  <2>4. refused' = refused /\ \A p \in refused : Created(p)'
    BY <1>5, <2>1, <2>3
       DEF Rejoin, IInv, TypeOK, Inv, PeersInv, SealedPeersWereCreated, Created
  <2> QED
    BY <1>3, <2>1, <2>2, <2>3, <2>4, Removal
<1>6. ASSUME NEW streams \in Declarations, Reoffer(id, streams)
      PROVE  PeersInv' /\ TracksInv'
  <2>1. UNCHANGED <<peers, tracks, inFlight>>
    BY <1>6 DEF Reoffer
  <2> QED
    BY <1>3, <2>1, SamePeers, SameTracks DEF peers
<1>7. CASE JoinFails(id)
  <2>1. /\ \A p \in Peer : Created(p) => owner'[p] = owner[p]
        /\ \A p \in Peer : Created(p)' => Created(p) \/ p \in refused'
        /\ refused \subseteq refused'
    BY <1>7 DEF IInv, TypeOK, JoinFails, Created
  <2>4. \A p \in refused' : Created(p)'
    BY <1>7, <2>1, ConferenceAssumption
       DEF IInv, TypeOK, Inv, PeersInv, SealedPeersWereCreated, JoinFails,
           Created
  <2>2. CASE IsParticipant(id)
    <3>1. /\ TearDown(id)
          /\ participants' = [participants EXCEPT ![id] = NoPeer]
      BY <1>7, <2>2 DEF JoinFails
    <3> QED
      BY <1>3, <2>1, <2>2, <2>4, <3>1, Removal
  <2>3. CASE ~IsParticipant(id)
    <3>1. UNCHANGED <<participants, sealed, tracks, inFlight>>
      BY <1>7, <2>3 DEF JoinFails
    <3>2. TracksInv'
      BY <3>1, SameTracks
    <3>3. CurrentPeersAreOpen'
      BY <2>1, <3>1, ConferenceAssumption
         DEF IInv, TypeOK, Inv, PeersInv, CurrentPeersAreOpen, IsParticipant,
             Created
    <3>4. SealedPeersWereCreated'
      BY <2>1, <2>4, <3>1 DEF IInv, TypeOK, Inv, PeersInv,
                              SealedPeersWereCreated, Created
    <3>5. \A i \in DOMAIN peerMessages' :
            owner'[peerMessages'[i].from] # NoID
      BY <1>3, <2>1 DEF Created
    <3>6. \A m \in inFlight' : owner'[m.from] # NoID
      BY <2>1, <3>1, QueuedMessages DEF Created
    <3>7. PeersAreAccountedFor'
      BY <2>1, <3>1
         DEF IInv, Inv, PeersInv, PeersAreAccountedFor, Created, Current
    <3> QED
      BY <3>2, <3>3, <3>4, <3>5, <3>6, <3>7
         DEF PeersInv, SendersAreKnown, Created
  <2> QED
    BY <2>2, <2>3
<1>8. CASE onHangup(id) \/ onSelectAnswer(id)
  BY <1>1, <1>3, <1>8, PlainRemoval DEF onHangup, onSelectAnswer
<1> QED
  BY <1>1, <1>4, <1>5, <1>6, <1>7, <1>8 DEF onNewParticipant

\* The report of a stopped track keeps the invariant, also when it removes
\* another object that has the same ID.
LEMMA ReportInv ==
  ASSUME IInv, NEW o \in Track,
         LoopStep(processPublishedTrackFailedMessage(o))
  PROVE  PeersInv' /\ TracksInv'
<1> DEFINE t == trackID[o]
<1>1. /\ TypeOK
      /\ trackState[o] = "done"
      /\ publishedTracks' = [publishedTracks EXCEPT ![t] = NoTrack]
      /\ trackState' =
           [x \in Track |-> IF x = o THEN "reported"
                            ELSE IF x = publishedTracks[t]
                            THEN Stopped(trackState[x]) ELSE trackState[x]]
      /\ UNCHANGED <<peers, trackID, trackOwner, subscriptions, inFlight,
                     peerMessages>>
  BY DEF IInv, LoopStep, processPublishedTrackFailedMessage,
         RemovePublishedTrack
<1>2. PeersInv'
  BY <1>1, QueuedMessages, SamePeers
<1>3. ASSUME NEW x \in TrackID, Published(x)'
      PROVE  /\ Published(x)
             /\ publishedTracks'[x] = publishedTracks[x]
             /\ publishedTracks[x] \in Track
             /\ trackState'[publishedTracks[x]] =
                  trackState[publishedTracks[x]]
  <2>1. /\ Published(x)
        /\ publishedTracks'[x] = publishedTracks[x]
        /\ publishedTracks[x] \in Track
        /\ x # t
    BY <1>1, <1>3 DEF TypeOK, Published
  <2>2. trackID[publishedTracks[x]] = x
    BY <2>1 DEF IInv, Inv, TracksInv, PublishedTracksAreOwned
  <2>3. publishedTracks[x] # o
    BY <2>1, <2>2
  <2>4. t \in TrackID
    BY <1>1 DEF IInv, TypeOK, Inv, TracksInv, TracksHaveIDs
  <2>5. publishedTracks[x] # publishedTracks[t]
    BY <2>1, <2>2, <2>4
       DEF IInv, Inv, TracksInv, PublishedTracksAreOwned, Published
  <2> QED
    BY <1>1, <2>1, <2>3, <2>5
<1>4. PublishedTracksAreOwned'
  BY <1>1, <1>3
     DEF IInv, Inv, TracksInv, PublishedTracksAreOwned, Published,
         IsParticipant, peers
<1>5. SubscribersAreCurrent'
  BY <1>1, <1>3
     DEF IInv, Inv, TracksInv, SubscribersAreCurrent, Published, peers
<1>6. NewTracksAreIdle'
  BY <1>1 DEF IInv, Inv, TracksInv, NewTracksAreIdle, Stopped
<1>7. TracksHaveIDs'
  BY <1>1 DEF IInv, Inv, TracksInv, TracksHaveIDs, Stopped
<1> QED
  BY <1>2, <1>4, <1>5, <1>6, <1>7 DEF TracksInv

\* The goroutines around the loop keep the invariant.
LEMMA GoroutineInv ==
  ASSUME IInv,
         \/ \E q \in Peer :
              BeginSend(q) \/ OpenDataChannel(q) \/ LoseDataChannel(q)
         \/ \E m \in inFlight : CompleteSend(m) \/ RefuseSend(m)
         \/ \E o \in Track : TrackEnds(o) \/ WatcherQuits(o)
         \/ \E o \in Track, id \in ParticipantID : SubscriptionEnds(o, id)
         \/ MatrixWorkerSends
         \/ UNCHANGED vars
  PROVE  PeersInv' /\ TracksInv' /\ LoopEndsEmpty'
<1>1. UNCHANGED <<participants, signalDone>> => LoopEndsEmpty'
  BY DEF IInv, Inv, LoopEndsEmpty, HasParticipants, IsParticipant
<1>2. ASSUME NEW q \in Peer, BeginSend(q) \/ OpenDataChannel(q)
      PROVE  PeersInv' /\ TracksInv' /\ LoopEndsEmpty'
  <2>1. /\ UNCHANGED <<peers, tracks, peerMessages, signalDone>>
        /\ Created(q)
        /\ \A m \in inFlight' : m \in inFlight \/ m.from = q
    <3>1. CASE BeginSend(q)
      BY <3>1 DEF BeginSend, IsOpen, Posts, state
    <3>2. CASE OpenDataChannel(q)
      BY <3>2 DEF OpenDataChannel, IsOpen
    <3> QED
      BY <1>2, <3>1, <3>2
  <2>2. PeersInv'
    BY <2>1 DEF IInv, Inv, PeersInv, CurrentPeersAreOpen, SendersAreKnown,
                PeersAreAccountedFor, SealedPeersWereCreated, IsParticipant,
                Created, Current, peers
  <2> QED
    BY <1>1, <2>1, <2>2, SameTracks DEF peers
<1>3. ASSUME NEW m \in inFlight, CompleteSend(m)
      PROVE  PeersInv' /\ TracksInv' /\ LoopEndsEmpty'
  <2>1. /\ UNCHANGED <<peers, tracks, signalDone>>
        /\ inFlight' \subseteq inFlight
        /\ peerMessages' = Append(peerMessages, m)
    BY <1>3 DEF CompleteSend, state
  <2>2. peerMessages \in Seq(Message) /\ m \in Message
    BY DEF IInv, TypeOK
  <2>3. ASSUME NEW i \in DOMAIN peerMessages'
        PROVE  \/ peerMessages'[i] = m
               \/ /\ i \in DOMAIN peerMessages
                  /\ peerMessages'[i] = peerMessages[i]
    BY <2>1, <2>2
  <2>4. \A i \in DOMAIN peerMessages' : Created(peerMessages'[i].from)
    BY <2>3, QueuedMessages
  <2> QED
    BY <1>1, <2>1, <2>4, SamePeers, SameTracks DEF peers
<1>4. ASSUME \/ \E q \in Peer : LoseDataChannel(q)
             \/ \E m \in inFlight : RefuseSend(m)
             \/ MatrixWorkerSends
             \/ UNCHANGED vars
      PROVE  PeersInv' /\ TracksInv' /\ LoopEndsEmpty'
  <2>1. /\ UNCHANGED <<peers, tracks, signalDone, peerMessages>>
        /\ inFlight' \subseteq inFlight
    BY <1>4 DEF LoseDataChannel, RefuseSend, MatrixWorkerSends, state, loop,
                vars
  <2> QED
    BY <1>1, <2>1, QueuedMessages, SamePeers, SameTracks DEF peers
<1>5. ASSUME NEW o \in Track, TrackEnds(o) \/ WatcherQuits(o)
      PROVE  PeersInv' /\ TracksInv' /\ LoopEndsEmpty'
  <2>1. /\ UNCHANGED <<peers, publishedTracks, trackID, trackOwner,
                       subscriptions, inFlight, peerMessages, signalDone>>
        /\ trackState[o] # "new"
        /\ \A x \in Track : x # o => trackState'[x] = trackState[x]
        /\ TypeOK
    BY <1>5 DEF TrackEnds, WatcherQuits, loop, IInv, TypeOK
  <2>2. ASSUME NEW t \in TrackID, Published(t)
        PROVE  trackState'[publishedTracks[t]] \in {"running", "done"}
    <3>0. /\ publishedTracks[t] \in Track
          /\ trackState[publishedTracks[t]] \in {"running", "done"}
          /\ IsParticipant(trackOwner[publishedTracks[t]])
      BY <2>1, <2>2
         DEF IInv, Inv, TracksInv, PublishedTracksAreOwned, Published, TypeOK
    <3>1. /\ publishedTracks[t] \in Track
          /\ trackState[publishedTracks[t]] \in {"running", "done"}
          /\ IsParticipant(trackOwner[publishedTracks[t]])
          /\ trackOwner[publishedTracks[t]] \in ParticipantID
      BY <2>1, <3>0 DEF IInv, Inv, TracksInv, TracksHaveIDs, TypeOK
    <3>2. ~signalDone
      BY <3>1 DEF IInv, Inv, LoopEndsEmpty, HasParticipants
    <3> QED
      BY <1>5, <2>1, <3>1, <3>2 DEF TrackEnds, WatcherQuits, TypeOK
  <2>3. PublishedTracksAreOwned'
    BY <2>1, <2>2 DEF IInv, Inv, TracksInv, PublishedTracksAreOwned,
                      Published, IsParticipant, peers
  <2>4. SubscribersAreCurrent'
    BY <2>1 DEF IInv, Inv, TracksInv, SubscribersAreCurrent, Published, peers
  <2>5. NewTracksAreIdle'
    BY <1>5, <2>1 DEF IInv, Inv, TracksInv, NewTracksAreIdle, TypeOK,
                      TrackEnds, WatcherQuits
  <2>6. TracksHaveIDs'
    BY <2>1 DEF IInv, Inv, TracksInv, TracksHaveIDs, TypeOK
  <2> QED
    BY <1>1, <2>1, <2>3, <2>4, <2>5, <2>6, QueuedMessages, SamePeers
       DEF peers, TracksInv
<1>6. ASSUME NEW o \in Track, NEW id \in ParticipantID,
             SubscriptionEnds(o, id)
      PROVE  PeersInv' /\ TracksInv' /\ LoopEndsEmpty'
  <2>1. /\ UNCHANGED <<peers, publishedTracks, trackID, trackOwner,
                       trackState, inFlight, peerMessages, signalDone>>
        /\ TypeOK
        /\ subscriptions' = [subscriptions EXCEPT ![o][id] = NoPeer]
    BY <1>6 DEF SubscriptionEnds, loop, IInv
  <2>2. PublishedTracksAreOwned'
    BY <2>1 DEF IInv, Inv, TracksInv, PublishedTracksAreOwned, Published,
                IsParticipant, peers
  <2>3. SubscribersAreCurrent'
    BY <2>1 DEF IInv, Inv, TracksInv, SubscribersAreCurrent, Published,
                peers, TypeOK
  <2>4. NewTracksAreIdle'
    BY <2>1 DEF IInv, Inv, TracksInv, NewTracksAreIdle, TypeOK
  <2>5. TracksHaveIDs'
    BY <2>1 DEF IInv, Inv, TracksInv, TracksHaveIDs
  <2> QED
    BY <1>1, <2>1, <2>2, <2>3, <2>4, <2>5, QueuedMessages, SamePeers
       DEF peers, TracksInv
<1> QED
  BY <1>2, <1>3, <1>4, <1>5, <1>6

\* The first participant alone is a state of the invariant.
LEMMA InitInv == Init => IInv
<1> SUFFICES ASSUME Init PROVE IInv
  OBVIOUS
<1>1. PICK id \in ParticipantID, q \in Peer :
        /\ participants = [x \in ParticipantID |->
                             IF x = id THEN q ELSE NoPeer]
        /\ owner = [x \in Peer |-> IF x = q THEN id ELSE NoID]
  BY DEF Init
<1>2. Nothing /\ TypeOK
  BY InitType DEF Init
<1>3. PeersInv
  BY <1>1, <1>2 DEF Nothing, PeersInv, CurrentPeersAreOpen, SendersAreKnown,
                    PeersAreAccountedFor, SealedPeersWereCreated,
                    IsParticipant, Created, Current
<1>4. TracksInv
  BY <1>2 DEF Nothing, TracksInv, PublishedTracksAreOwned,
              SubscribersAreCurrent, NewTracksAreIdle, TracksHaveIDs,
              Published
<1> QED
  BY <1>2, <1>3, <1>4 DEF Nothing, IInv, Inv, LoopEndsEmpty

\* Every step keeps the inductive invariant.
LEMMA InvStep == IInv /\ [Next]_vars => IInv'
<1> SUFFICES ASSUME IInv, [Next]_vars PROVE IInv'
  OBVIOUS
<1>1. TypeOK'
  BY TypeStep
<1>2. CASE LoopStep(ProcessPeerMessage)
  BY <1>1, <1>2, PeerMessageInv, LoopEnds DEF IInv, Inv
<1>3. CASE LoopStep(ProcessMatrixMessage)
  BY <1>1, <1>3, MatrixMessageInv, LoopEnds DEF IInv, Inv
<1>4. ASSUME NEW o \in Track, LoopStep(processPublishedTrackFailedMessage(o))
      PROVE  IInv'
  BY <1>1, <1>4, ReportInv, LoopEnds DEF IInv, Inv
<1> QED
  BY <1>1, <1>2, <1>3, <1>4, GoroutineInv DEF IInv, Inv, Next

-----------------------------------------------------------------------------
(* The theorems.                                                           *)

\* The inductive invariant holds in every state of a conference.
THEOREM Invariance == Spec => []IInv
BY InitInv, InvStep, PTL DEF Spec

\* The variables keep their types.
THEOREM TypeCorrect == Spec => []TypeOK
<1>1. IInv => TypeOK
  BY DEF IInv
<1> QED
  BY <1>1, Invariance, PTL

\* A participant that is in the conference, after any number of rejoins, has
\* a peer that was created for it and that was not terminated.
THEOREM PeersOpen == Spec => []CurrentPeersAreOpen
<1>1. IInv => CurrentPeersAreOpen
  BY DEF IInv, Inv, PeersInv
<1> QED
  BY <1>1, Invariance, PTL

\* No track outlives its owner in the tracker, and none is stopped twice.
THEOREM TracksOwned == Spec => []PublishedTracksAreOwned
<1>1. IInv => PublishedTracksAreOwned
  BY DEF IInv, Inv, TracksInv
<1> QED
  BY <1>1, Invariance, PTL

\* Published tracks feed only the peers that the participants have now.
THEOREM SubscribersCurrent == Spec => []SubscribersAreCurrent
<1>1. IInv => SubscribersAreCurrent
  BY DEF IInv, Inv, TracksInv
<1> QED
  BY <1>1, Invariance, PTL

\* A conference that ended has no participant, no published track, and no
\* connection that it let in and did not terminate.
THEOREM EndIsClean == Spec => []EndedConferenceIsEmpty
<1>1. IInv => EndedConferenceIsEmpty
  <2> SUFFICES ASSUME IInv, signalDone
               PROVE  /\ ~HasParticipants
                      /\ \A t \in TrackID : ~Published(t)
                      /\ \A q \in Peer : Created(q) => q \in sealed \cup refused
    BY DEF EndedConferenceIsEmpty
  <2>1. ~HasParticipants
    BY DEF IInv, Inv, LoopEndsEmpty
  <2>2. ASSUME NEW t \in TrackID, Published(t)
        PROVE  FALSE
    <3> DEFINE o == publishedTracks[t]
    <3>1. /\ o \in Track
          /\ trackState[o] # "new"
          /\ IsParticipant(trackOwner[o])
      BY <2>2
         DEF IInv, TypeOK, Inv, TracksInv, PublishedTracksAreOwned, Published
    <3>2. trackOwner[o] \in ParticipantID
      BY <3>1 DEF IInv, TypeOK, Inv, TracksInv, TracksHaveIDs
    <3> QED
      BY <2>1, <3>1, <3>2 DEF HasParticipants
  <2>3. ASSUME NEW q \in Peer, Created(q)
        PROVE  q \in sealed \cup refused
    <3>1. q \in sealed \cup refused \/ Current(q)
      BY <2>3 DEF IInv, Inv, PeersInv, PeersAreAccountedFor
    <3>2. owner[q] \in ParticipantID
      BY <2>3 DEF IInv, TypeOK, Created
    <3>3. ~Current(q)
      BY <2>1, <3>2, ConferenceAssumption
         DEF HasParticipants, IsParticipant, Current
    <3> QED
      BY <3>1, <3>3
  <2> QED
    BY <2>1, <2>2, <2>3
<1> QED
  BY <1>1, Invariance, PTL

-----------------------------------------------------------------------------
(* Signaling.                                                              *)

\* The message that was put into the queue of the Matrix worker is the one
\* that was to be sent.
LEMMA NewSignal ==
  ASSUME IInv, NEW q \in Peer, NEW what,
         matrixQueue' = Enqueued(matrixQueue, q, what),
         NEW i \in DOMAIN matrixQueue' \ DOMAIN matrixQueue
  PROVE  matrixQueue'[i].to = q /\ matrixQueue'[i].what = what
<1>1. matrixQueue \in Seq(Signal)
  BY DEF IInv, TypeOK
<1>2. matrixQueue' = Append(matrixQueue, [to |-> q, what |-> what])
  BY DEF Enqueued
<1> QED
  BY <1>1, <1>2

\* A step of the conference sends to a peer that stays or that it removes.
LEMMA SignalingStep ==
  ASSUME IInv, [Next]_vars,
         NEW i \in DOMAIN matrixQueue' \ DOMAIN matrixQueue
  PROVE  LET to == matrixQueue'[i].to IN
         IF matrixQueue'[i].what = "hangup"
         THEN Current(to) /\ to \in sealed'
         ELSE participants'[owner'[to]] = to
<1> DEFINE to == matrixQueue'[i].to
           Goal == IF matrixQueue'[i].what = "hangup"
                   THEN Current(to) /\ to \in sealed'
                   ELSE participants'[owner'[to]] = to
<1>1. /\ TypeOK
      /\ matrixQueue \in Seq(Signal)
      /\ matrixQueue' # matrixQueue
      /\ i \notin DOMAIN matrixQueue
  BY DEF IInv, TypeOK
<1>2. ASSUME NEW id \in ParticipantID, IsParticipant(id),
             matrixQueue' = Enqueued(matrixQueue, participants[id], "hangup"),
             participants[id] \in sealed'
      PROVE  Goal
  <2>1. /\ participants[id] \in Peer
        /\ owner[participants[id]] = id
    BY <1>1, <1>2 DEF TypeOK, IInv, Inv, PeersInv, CurrentPeersAreOpen,
                      IsParticipant
  <2>2. to = participants[id] /\ matrixQueue'[i].what = "hangup"
    BY <1>2, <2>1, NewSignal
  <2>3. Current(to)
    BY <2>1, <2>2, ConferenceAssumption DEF Current, Created
  <2> QED
    BY <1>2, <2>2, <2>3
<1>3. ASSUME NEW id \in ParticipantID, NEW q \in Peer,
             NEW what \in {"answer", "candidates"},
             matrixQueue' = Enqueued(matrixQueue, q, what),
             participants'[id] = q, owner'[q] = id
      PROVE  Goal
  <2>1. to = q /\ matrixQueue'[i].what = what
    BY <1>3, NewSignal
  <2> QED
    BY <1>3, <2>1
<1>4. ASSUME NEW id \in ParticipantID, NEW q \in Peer,
             participants' = [participants EXCEPT ![id] = q],
             owner' = [owner EXCEPT ![q] = id],
             matrixQueue' = Enqueued(matrixQueue, q, "answer")
      PROVE  Goal
  <2>1. participants'[id] = q /\ owner'[q] = id
    BY <1>1, <1>4 DEF TypeOK
  <2> QED
    BY <1>3, <1>4, <2>1
<1>5. ASSUME NEW id \in ParticipantID, IsParticipant(id), UNCHANGED peers,
             NEW what \in {"answer", "candidates"},
             matrixQueue' = Enqueued(matrixQueue, participants[id], what)
      PROVE  Goal
  <2>1. /\ participants[id] \in Peer
        /\ owner[participants[id]] = id
        /\ UNCHANGED <<participants, owner>>
    BY <1>1, <1>5 DEF TypeOK, IInv, Inv, PeersInv, CurrentPeersAreOpen,
                      IsParticipant, peers
  <2> QED
    BY <1>3, <1>5, <2>1
<1>6. CASE LoopStep(ProcessPeerMessage)
  <2> DEFINE m == Head(peerMessages)
             id == owner[m.from]
  <2>1. id \in ParticipantID /\ processPeerMessage(m)
    BY <1>6, TakenMessage DEF LoopStep, ProcessPeerMessage
  <2>2. CASE processLeftTheCallMessage(id)
    BY <1>2, <2>1, <2>2 DEF processLeftTheCallMessage, removeParticipant,
                            TearDown, Terminate
  <2>3. CASE processNewICECandidateMessage(id)
    BY <1>5, <2>1, <2>3 DEF processNewICECandidateMessage
  <2> QED
    BY <1>1, <2>1, <2>2, <2>3
       DEF processPeerMessage, Ignored, processNewTrackPublishedMessage,
           processTrackSubscriptionMessage, processNegotiateMessage,
           processMetadataMessage, processAnnouncement
<1>7. CASE LoopStep(ProcessMatrixMessage)
  <2>1. PICK id \in ParticipantID :
          onNewParticipant(id) \/ onHangup(id) \/ onSelectAnswer(id)
    BY <1>7 DEF LoopStep, ProcessMatrixMessage
  <2>2. ASSUME NEW streams \in Declarations,
               Join(id, streams) \/ Rejoin(id, streams)
        PROVE  Goal
    BY <1>4, <2>2 DEF Join, Rejoin
  <2>3. ASSUME NEW streams \in Declarations, Reoffer(id, streams)
        PROVE  Goal
    BY <1>5, <2>3 DEF Reoffer
  <2>4. CASE JoinFails(id) \/ onHangup(id) \/ onSelectAnswer(id)
    BY <1>1, <2>4 DEF JoinFails, onHangup, onSelectAnswer
  <2> QED
    BY <2>1, <2>2, <2>3, <2>4 DEF onNewParticipant
<1>8. ASSUME NEW o \in Track, LoopStep(processPublishedTrackFailedMessage(o))
      PROVE  Goal
  BY <1>1, <1>8 DEF LoopStep, processPublishedTrackFailedMessage
<1>9. CASE MatrixWorkerSends
  <2>1. matrixQueue # <<>> /\ matrixQueue' = Tail(matrixQueue)
    BY <1>9 DEF MatrixWorkerSends
  <2>2. i \in DOMAIN matrixQueue
    BY <1>1, <2>1
  <2> QED
    BY <1>1, <2>2
<1>10. CASE \/ \E q \in Peer :
                 BeginSend(q) \/ OpenDataChannel(q) \/ LoseDataChannel(q)
            \/ \E m \in inFlight : CompleteSend(m) \/ RefuseSend(m)
            \/ \E o \in Track : TrackEnds(o) \/ WatcherQuits(o)
            \/ \E o \in Track, id \in ParticipantID : SubscriptionEnds(o, id)
            \/ UNCHANGED vars
  BY <1>1, <1>10
     DEF BeginSend, OpenDataChannel, LoseDataChannel, CompleteSend,
         RefuseSend, TrackEnds, WatcherQuits, SubscriptionEnds, state, vars
<1> QED
  BY <1>6, <1>7, <1>8, <1>9, <1>10 DEF Next

\* Whatever is sent to a session is sent while its peer is the current one,
\* up to the hangup that goes with the removal of the peer.
THEOREM HangupComesLast == Spec => SignalingEndsWithHangup
<1>1. IInv /\ [Next]_vars =>
        [\A i \in DOMAIN matrixQueue' \ DOMAIN matrixQueue :
           LET to == matrixQueue'[i].to IN
           IF matrixQueue'[i].what = "hangup"
           THEN Current(to) /\ to \in sealed'
           ELSE participants'[owner'[to]] = to]_vars
  BY SignalingStep
<1> QED
  BY <1>1, Invariance, PTL DEF Spec, SignalingEndsWithHangup

-----------------------------------------------------------------------------
(* Isolation.                                                              *)

\* A message ends a session of its sender's ID or none.
LEMMA TerminatedByItself ==
  ASSUME IInv, [Next]_vars, Len(peerMessages') < Len(peerMessages),
         NEW q \in sealed' \ sealed
  PROVE  owner[q] = owner[Head(peerMessages).from]
<1> DEFINE m == Head(peerMessages)
           id == owner[m.from]
<1>1. peerMessages \in Seq(Message) /\ peerMessages' # peerMessages
  BY DEF IInv, TypeOK
<1>2. ASSUME NEW x \in inFlight, CompleteSend(x)
      PROVE  FALSE
  <2>1. x \in Message /\ peerMessages' = Append(peerMessages, x)
    BY <1>2 DEF IInv, TypeOK, CompleteSend
  <2>2. Len(peerMessages') = Len(peerMessages) + 1 /\ Len(peerMessages) \in Nat
    BY <1>1, <2>1
  <2> QED
    BY <2>2
<1>3. LoopStep(ProcessPeerMessage)
  BY <1>1, <1>2
     DEF Next, LoopStep, ProcessMatrixMessage,
         processPublishedTrackFailedMessage, BeginSend, OpenDataChannel,
         LoseDataChannel, RefuseSend, TrackEnds, WatcherQuits,
         SubscriptionEnds, MatrixWorkerSends, loop, vars
<1>4. id \in ParticipantID /\ processPeerMessage(m)
  BY <1>3, TakenMessage DEF LoopStep, ProcessPeerMessage
<1>5. processLeftTheCallMessage(id)
  BY <1>4
     DEF processPeerMessage, Ignored, processNewTrackPublishedMessage,
         processTrackSubscriptionMessage, processNegotiateMessage,
         processMetadataMessage, processAnnouncement,
         processNewICECandidateMessage, peers
<1>6. IsParticipant(id) /\ sealed' = sealed \cup {participants[id]}
  BY <1>5 DEF processLeftTheCallMessage, removeParticipant, TearDown, Terminate
<1>7. q = participants[id]
  BY <1>6
<1> QED
  BY <1>4, <1>6, <1>7 DEF IInv, Inv, PeersInv, CurrentPeersAreOpen

\* No message, whoever sent it and however late it is handled, terminates a
\* peer of another participant.
THEOREM PeersSpeakForThemselves == Spec => MessagesConcernTheirSender
<1>1. IInv /\ [Next]_vars =>
        [Len(peerMessages') < Len(peerMessages) =>
           \A q \in sealed' \ sealed :
             owner[q] = owner[Head(peerMessages).from]]_vars
  BY TerminatedByItself
<1> QED
  BY <1>1, Invariance, PTL DEF Spec, MessagesConcernTheirSender

-----------------------------------------------------------------------------
(* What the participants are told.                                         *)

NamesOwnTrack(m) ==
  m.kind = "NewTrackPublished" => m.track \in TracksOf[owner[m.from]]

\* A Track object has the ID of a track of its owner, even one that was removed
\* before its watcher reports it.
TracksAreTheirOwners ==
  /\ \A o \in Track :
       trackState[o] # "new" => trackID[o] \in TracksOf[trackOwner[o]]
  /\ \A m \in inFlight : NamesOwnTrack(m)
  /\ \A i \in DOMAIN peerMessages : NamesOwnTrack(peerMessages[i])

\* Nothing has been announced to a peer without a data channel, and a peer that
\* has one was created.
SilentPeersKnowNothing ==
  \A q \in Peer : /\ ~dataChannel[q] => announced[q] = {}
                  /\ dataChannel[q] => Created(q)

AInv == /\ IInv
        /\ TracksAreTheirOwners
        /\ SilentPeersKnowNothing
        /\ AnnouncedTracksAreAvailable

\* What is available to a peer after a step.
AvailableNext(q) ==
  Available(publishedTracks', trackOwner', streamsMetadata', owner'[q])

\* A resend reaches the current peers of those that it is for.
LEMMA ResendReaches ==
  ASSUME NEW who, NEW map, NEW owners, NEW metadata,
         NEW q \in Peer, Current(q), dataChannel[q]
  PROVE  /\ owner[q] \in who =>
              Resend(who, map, owners, metadata)[q] =
                Available(map, owners, metadata, owner[q])
         /\ owner[q] \notin who =>
              Resend(who, map, owners, metadata)[q] = announced[q]
BY DEF Resend, Reachable, Current

\* Nothing is lost by a peer that has no data channel.
LEMMA ResendSparesSilent ==
  ASSUME NEW who, NEW map, NEW owners, NEW metadata,
         NEW q \in Peer, ~dataChannel[q]
  PROVE  Resend(who, map, owners, metadata)[q] = announced[q]
BY DEF Resend, Reachable

\* No published track goes away, and no description of a stream.
NothingIsWithdrawn ==
  /\ \A t \in TrackID :
       Published(t) => /\ publishedTracks'[t] = publishedTracks[t]
                       /\ trackOwner'[publishedTracks[t]] =
                            trackOwner[publishedTracks[t]]
  /\ \A s \in StreamID : streamsMetadata[s] # NoID => streamsMetadata'[s] # NoID

\* As long as that is so, what a peer was told remains true.
LEMMA ToldRemainsTrue ==
  ASSUME AInv, NothingIsWithdrawn, NEW q \in Peer, Current(q), dataChannel[q],
         owner'[q] = owner[q]
  PROVE  announced[q] \subseteq AvailableNext(q)
<1>1. announced[q] \subseteq AvailableNow(owner[q])
  BY DEF AInv, AnnouncedTracksAreAvailable
<1>2. \A t \in TrackID : StreamOf[t] \in StreamID
  BY ConferenceAssumption
<1>3. AvailableNow(owner[q]) \subseteq AvailableNext(q)
  BY <1>2
     DEF AvailableNow, AvailableNext, Available, NothingIsWithdrawn, Published
<1> QED
  BY <1>1, <1>3

\* The peers and their data channels stay, and each peer that has one is told
\* what is available now, or what it was told before remains true.
LEMMA PeersAreTold ==
  ASSUME AInv, UNCHANGED <<participants, owner, dataChannel>>,
         \A q \in Peer : ~dataChannel[q] => announced'[q] = announced[q],
         \A q \in Peer : Current(q) /\ dataChannel[q] =>
           \/ announced'[q] = AvailableNext(q)
           \/ announced'[q] = announced[q]
                /\ announced[q] \subseteq AvailableNext(q)
  PROVE  SilentPeersKnowNothing' /\ AnnouncedTracksAreAvailable'
<1>1. SilentPeersKnowNothing'
  BY DEF AInv, SilentPeersKnowNothing, Created
<1>2. \A q \in Peer : Current(q)' => Current(q)
  BY DEF Current, Created
<1>3. AnnouncedTracksAreAvailable'
  BY <1>2 DEF AnnouncedTracksAreAvailable, AvailableNext, AvailableNow
<1> QED
  BY <1>1, <1>3

\* What a participant describes adds to the metadata.
LEMMA DescriptionsAdd ==
  ASSUME IInv, NEW id \in ParticipantID, NEW streams,
         UNCHANGED <<publishedTracks, trackOwner>>,
         streamsMetadata' = Described(streamsMetadata, id, streams)
  PROVE  NothingIsWithdrawn
BY ConferenceAssumption DEF IInv, TypeOK, NothingIsWithdrawn, Described

\* What the peers were told is sound.
Told == SilentPeersKnowNothing /\ AnnouncedTracksAreAvailable

\* A step that concerns none of it.
LEMMA NothingToTell ==
  ASSUME AInv,
         UNCHANGED <<participants, owner, dataChannel, announced,
                     publishedTracks, trackOwner, streamsMetadata>>
  PROVE  Told'
BY DEF AInv, Told, SilentPeersKnowNothing, AnnouncedTracksAreAvailable,
       AvailableNow, Available, Current, Created

\* Nothing was withdrawn, and some of the participants are told about it.
LEMMA SomeAreTold ==
  ASSUME AInv, UNCHANGED <<participants, owner, dataChannel>>,
         NothingIsWithdrawn, NEW who,
         \/ announced' = announced
         \/ announced' =
              Resend(who, publishedTracks', trackOwner', streamsMetadata')
  PROVE  Told'
<1>1. ASSUME NEW q \in Peer, ~dataChannel[q]
      PROVE  announced'[q] = announced[q]
  BY <1>1, ResendSparesSilent
<1>2. ASSUME NEW q \in Peer, Current(q), dataChannel[q]
      PROVE  \/ announced'[q] = AvailableNext(q)
             \/ announced'[q] = announced[q]
                  /\ announced[q] \subseteq AvailableNext(q)
  <2>1. announced[q] \subseteq AvailableNext(q)
    BY <1>2, ToldRemainsTrue
  <2>2. CASE owner[q] \in who
    BY <1>2, <2>1, <2>2, ResendReaches DEF AvailableNext
  <2>3. CASE owner[q] \notin who
    BY <1>2, <2>1, <2>3, ResendReaches
  <2> QED
    BY <2>2, <2>3
<1> QED
  BY <1>1, <1>2, PeersAreTold DEF Told

\* A participant is removed: its peer has lost the data channel, and everyone
\* else is told what is left.
LEMMA OthersAreTold ==
  ASSUME AInv, NEW id \in ParticipantID, IsParticipant(id), TearDown(id),
         \A j \in ParticipantID \ {id} : participants'[j] = participants[j],
         \A q \in Peer :
           Created(q) => owner'[q] = owner[q] /\ participants'[id] # q,
         \A s \in StreamID :
           MetadataWithout(id)[s] # NoID => streamsMetadata'[s] # NoID
  PROVE  Told'
<1> DEFINE p == participants[id]
           told == Resend(ParticipantID \ {id}, TracksWithout(id), trackOwner,
                          MetadataWithout(id))
<1>1. /\ p \in Peer
      /\ dataChannel \in [Peer -> BOOLEAN]
      /\ owner \in [Peer -> ParticipantID \cup {NoID}]
  BY DEF AInv, IInv, TypeOK, IsParticipant
<1>2. told \in [Peer -> SUBSET TrackID]
  BY ResendType DEF AInv, IInv
<1>3. /\ dataChannel' = [dataChannel EXCEPT ![p] = FALSE]
      /\ announced' = [told EXCEPT ![p] = {}]
      /\ publishedTracks' = TracksWithout(id)
      /\ trackOwner' = trackOwner
  BY DEF TearDown, Terminate
<1> HIDE DEF told
<1>4. ASSUME NEW q \in Peer
      PROVE  /\ ~dataChannel'[q] => announced'[q] = {}
             /\ dataChannel'[q] => Created(q)'
  <2>1. CASE q = p
    BY <1>1, <1>2, <1>3, <2>1
  <2>2. CASE q # p
    <3>1. dataChannel'[q] = dataChannel[q] /\ announced'[q] = told[q]
      BY <1>1, <1>2, <1>3, <2>2
    <3>2. ~dataChannel[q] => told[q] = announced[q]
      BY ResendSparesSilent DEF told
    <3>3. dataChannel[q] => Created(q)'
      BY DEF AInv, SilentPeersKnowNothing, Created
    <3> QED
      BY <3>1, <3>2, <3>3 DEF AInv, SilentPeersKnowNothing
  <2> QED
    BY <2>1, <2>2
<1>5. ASSUME NEW q \in Peer, Current(q)', dataChannel'[q]
      PROVE  announced'[q] \subseteq AvailableNext(q)
  <2>1. q # p /\ dataChannel[q] /\ announced'[q] = told[q]
    BY <1>1, <1>2, <1>3, <1>5
  <2>2. Created(q) /\ owner'[q] = owner[q] /\ participants'[id] # q
    BY <2>1 DEF AInv, SilentPeersKnowNothing
  <2>3. owner[q] \in ParticipantID \ {id}
    BY <1>1, <1>5, <2>2 DEF Current, Created
  <2>4. Current(q)
    BY <1>5, <2>2, <2>3 DEF Current
  <2>5. told[q] = Available(TracksWithout(id), trackOwner,
                            MetadataWithout(id), owner[q])
    BY <2>1, <2>3, <2>4, ResendReaches DEF told
  <2>6. \A t \in TrackID : StreamOf[t] \in StreamID
    BY ConferenceAssumption
  <2> QED
    BY <1>3, <2>1, <2>2, <2>5, <2>6 DEF Available, AvailableNext
<1> QED
  BY <1>4, <1>5 DEF Told, SilentPeersKnowNothing, AnnouncedTracksAreAvailable,
                    AvailableNext, AvailableNow

\* So every removal is told to those who stay.
LEMMA RemovalIsTold ==
  ASSUME AInv, NEW id \in ParticipantID, IsParticipant(id),
         removeParticipant(id)
  PROVE  Told'
<1>1. /\ TearDown(id)
      /\ participants' = [participants EXCEPT ![id] = NoPeer]
      /\ owner' = owner
      /\ streamsMetadata' = MetadataWithout(id)
  BY DEF removeParticipant
<1>2. participants \in [ParticipantID -> Peer \cup {NoPeer}]
  BY DEF AInv, IInv, TypeOK
<1> QED
  BY <1>1, <1>2, OthersAreTold, ConferenceAssumption

\* What the handlers of peer messages withdraw, they tell.
LEMMA PeerMessageIsTold ==
  ASSUME AInv, LoopStep(ProcessPeerMessage)
  PROVE  Told'
<1> DEFINE m == Head(peerMessages)
           id == owner[m.from]
<1>1. /\ IInv
      /\ m \in Message
      /\ id \in ParticipantID
      /\ processPeerMessage(m)
  BY TakenMessage DEF AInv, LoopStep, ProcessPeerMessage
<1>2. CASE \/ Ignored(m)
           \/ processTrackSubscriptionMessage(id, m.request)
           \/ processNewICECandidateMessage(id)
  BY <1>2, NothingToTell
     DEF Ignored, processTrackSubscriptionMessage,
         processNewICECandidateMessage, peers, tracks
<1>3. CASE processLeftTheCallMessage(id)
  BY <1>1, <1>3, RemovalIsTold DEF processLeftTheCallMessage
<1>4. CASE m.kind = "NewTrackPublished"
             /\ processNewTrackPublishedMessage(id, m.track)
  <2>1. /\ UNCHANGED <<participants, owner, dataChannel, streamsMetadata>>
        /\ announced' = Resend(ParticipantID \ {id}, publishedTracks',
                               trackOwner', streamsMetadata')
    BY <1>4 DEF processNewTrackPublishedMessage, peers
  <2>2. CASE UNCHANGED tracks
    BY <2>1, <2>2, SomeAreTold DEF NothingIsWithdrawn, tracks
  <2>3. CASE AddPublishedTrack(id, m.track)
    <3>1. m.track \in TrackID
      BY <1>1, <1>4, MessageFields
    <3>2. PICK o \in Track :
            /\ trackState[o] = "new"
            /\ publishedTracks' = [publishedTracks EXCEPT ![m.track] = o]
            /\ trackOwner' = [trackOwner EXCEPT ![o] = id]
      BY <2>3 DEF AddPublishedTrack
    <3>3. ASSUME NEW t \in TrackID, Published(t)
          PROVE  /\ publishedTracks'[t] = publishedTracks[t]
                 /\ trackOwner'[publishedTracks[t]] =
                      trackOwner[publishedTracks[t]]
      <4>1. t # m.track
        BY <2>3, <3>3 DEF AddPublishedTrack
      <4>2. publishedTracks[t] \in Track /\ publishedTracks[t] # o
        BY <1>1, <3>2, <3>3 DEF IInv, TypeOK, Inv, TracksInv, Published,
                                PublishedTracksAreOwned
      <4> QED
        BY <1>1, <3>1, <3>2, <4>1, <4>2 DEF IInv, TypeOK
    <3> QED
      BY <2>1, <3>3, SomeAreTold DEF NothingIsWithdrawn
  <2> QED
    BY <1>4, <2>2, <2>3 DEF processNewTrackPublishedMessage
<1>5. CASE \/ processNegotiateMessage(id, m.streams)
           \/ processMetadataMessage(id, m.streams)
  <2>1. /\ UNCHANGED <<participants, owner, dataChannel, publishedTracks,
                       trackOwner>>
        /\ streamsMetadata' = Described(streamsMetadata, id, m.streams)
    BY <1>5 DEF processNegotiateMessage, processMetadataMessage, peers, tracks
  <2>2. NothingIsWithdrawn
    BY <1>1, <2>1, DescriptionsAdd
  <2>3. PICK who \in {{id}, ParticipantID \ {id}} :
          \/ announced' = announced
          \/ announced' =
               Resend(who, publishedTracks', trackOwner', streamsMetadata')
    BY <1>5, <2>1
       DEF processNegotiateMessage, processMetadataMessage, SendAvailable
  <2> QED
    BY <2>1, <2>2, <2>3, SomeAreTold
<1>6. CASE processAnnouncement(id)
  <2>1. /\ UNCHANGED <<participants, owner, dataChannel, publishedTracks,
                       trackOwner, streamsMetadata>>
        /\ announced' = Resend({id}, publishedTracks', trackOwner',
                               streamsMetadata')
    BY <1>6 DEF processAnnouncement, SendAvailable, peers, tracks
  <2> QED
    BY <2>1, SomeAreTold DEF NothingIsWithdrawn
<1> QED
  BY <1>1, <1>2, <1>3, <1>4, <1>5, <1>6 DEF processPeerMessage

\* So do the handlers of Matrix events; a peer that is new knows nothing.
LEMMA MatrixMessageIsTold ==
  ASSUME AInv, LoopStep(ProcessMatrixMessage)
  PROVE  Told'
<1>1. PICK id \in ParticipantID :
        onNewParticipant(id) \/ onHangup(id) \/ onSelectAnswer(id)
  BY DEF LoopStep, ProcessMatrixMessage
<1>2. IInv /\ TypeOK
  BY DEF AInv, IInv
<1>3. CASE onHangup(id) \/ onSelectAnswer(id)
  BY <1>3, RemovalIsTold DEF onHangup, onSelectAnswer
<1>4. ASSUME NEW streams \in Declarations, Join(id, streams)
      PROVE  Told'
  <2>1. PICK p \in Peer :
          /\ ~Created(p)
          /\ owner' = [owner EXCEPT ![p] = id]
          /\ participants' = [participants EXCEPT ![id] = p]
    BY <1>4 DEF Join
  <2>2. /\ UNCHANGED <<dataChannel, announced, publishedTracks, trackOwner>>
        /\ streamsMetadata' = Described(streamsMetadata, id, streams)
        /\ ~IsParticipant(id)
    BY <1>4 DEF Join, tracks
  <2>3. NothingIsWithdrawn
    BY <1>2, <2>2, DescriptionsAdd
  <2>4. ~dataChannel[p]
    BY <2>1 DEF AInv, SilentPeersKnowNothing
  <2>5. \A q \in Peer : dataChannel[q] => owner'[q] = owner[q]
    BY <1>2, <2>1, <2>4 DEF TypeOK
  <2>6. SilentPeersKnowNothing'
    BY <2>2, <2>5 DEF AInv, SilentPeersKnowNothing, Created
  <2>7. ASSUME NEW q \in Peer, Current(q)', dataChannel[q]
        PROVE  announced[q] \subseteq AvailableNext(q)
    <3>1. q # p /\ owner'[q] = owner[q] /\ owner[q] \in ParticipantID
      BY <1>2, <2>4, <2>5, <2>7 DEF TypeOK, Current, Created
    <3>2. Current(q)
      BY <1>2, <2>1, <2>7, <3>1 DEF TypeOK, Current, Created
    <3> QED
      BY <2>3, <2>7, <3>1, <3>2, ToldRemainsTrue
  <2>8. AnnouncedTracksAreAvailable'
    BY <2>2, <2>7
       DEF AnnouncedTracksAreAvailable, AvailableNow, AvailableNext
  <2> QED
    BY <2>6, <2>8 DEF Told
<1>5. ASSUME NEW streams \in Declarations, Rejoin(id, streams)
      PROVE  Told'
  <2>1. PICK p \in Peer :
          /\ ~Created(p)
          /\ owner' = [owner EXCEPT ![p] = id]
          /\ participants' = [participants EXCEPT ![id] = p]
    BY <1>5 DEF Rejoin
  <2>2. /\ IsParticipant(id)
        /\ TearDown(id)
        /\ streamsMetadata' = Described(MetadataWithout(id), id, streams)
    BY <1>5 DEF Rejoin
  <2>3. ASSUME NEW q \in Peer, Created(q)
        PROVE  owner'[q] = owner[q] /\ participants'[id] # q
    BY <1>2, <2>1, <2>3 DEF TypeOK
  <2>4. \A j \in ParticipantID \ {id} : participants'[j] = participants[j]
    BY <1>2, <2>1 DEF TypeOK
  <2>5. ASSUME NEW s \in StreamID, MetadataWithout(id)[s] # NoID
        PROVE  streamsMetadata'[s] # NoID
    BY <2>2, <2>5, ConferenceAssumption DEF Described
  <2> QED
    BY <2>2, <2>3, <2>4, <2>5, OthersAreTold
<1>6. ASSUME NEW streams \in Declarations, Reoffer(id, streams)
      PROVE  Told'
  <2>1. /\ UNCHANGED <<participants, owner, dataChannel, publishedTracks,
                       trackOwner, announced>>
        /\ streamsMetadata' = Described(streamsMetadata, id, streams)
    BY <1>6 DEF Reoffer, peers, tracks
  <2> QED
    BY <1>2, <2>1, DescriptionsAdd, SomeAreTold
<1>7. CASE JoinFails(id)
  <2>1. \A q \in Peer : Created(q) => owner'[q] = owner[q]
    BY <1>2, <1>7 DEF TypeOK, JoinFails
  <2>2. CASE IsParticipant(id)
    <3>1. /\ TearDown(id)
          /\ participants' = [participants EXCEPT ![id] = NoPeer]
          /\ streamsMetadata' = MetadataWithout(id)
      BY <1>7, <2>2 DEF JoinFails
    <3> QED
      BY <1>2, <2>1, <2>2, <3>1, OthersAreTold, ConferenceAssumption DEF TypeOK
  <2>3. CASE ~IsParticipant(id)
    <3>1. UNCHANGED <<participants, dataChannel, announced, publishedTracks,
                      trackOwner, streamsMetadata>>
      BY <1>7, <2>3 DEF JoinFails, tracks
    <3>2. \A q \in Peer : dataChannel[q] => owner'[q] = owner[q]
      BY <2>1 DEF AInv, SilentPeersKnowNothing
    <3> QED
      BY <3>1, <3>2 DEF AInv, Told, SilentPeersKnowNothing, Created, Current,
                        AnnouncedTracksAreAvailable, AvailableNow, Available
  <2> QED
    BY <2>2, <2>3
<1> QED
  BY <1>1, <1>3, <1>4, <1>5, <1>6, <1>7 DEF onNewParticipant

\* The owner of the reported object was not told of any track of that ID, since
\* every track of that ID is its own.
LEMMA ReportIsTold ==
  ASSUME AInv, TracksAreDistinct, NEW o \in Track,
         LoopStep(processPublishedTrackFailedMessage(o))
  PROVE  Told'
<1> DEFINE t == trackID[o]
           id == trackOwner[o]
<1>1. IInv /\ TypeOK
  BY DEF AInv, IInv
<1>2. /\ trackState[o] = "done"
      /\ publishedTracks' = [publishedTracks EXCEPT ![t] = NoTrack]
      /\ announced' = Resend(ParticipantID \ {id}, publishedTracks',
                             trackOwner', streamsMetadata')
      /\ UNCHANGED <<participants, owner, dataChannel, trackOwner,
                     streamsMetadata>>
  BY DEF LoopStep, processPublishedTrackFailedMessage, RemovePublishedTrack,
         peers
<1>3. t \in TrackID /\ id \in ParticipantID /\ t \in TracksOf[id]
  BY <1>1, <1>2 DEF TypeOK, IInv, Inv, TracksInv, TracksHaveIDs, AInv,
                    TracksAreTheirOwners
<1>4. t \notin AvailableNow(id)
  <2> SUFFICES ASSUME Published(t)
               PROVE  trackOwner[publishedTracks[t]] = id
    BY DEF AvailableNow, Available, Published
  <2> DEFINE x == publishedTracks[t]
  <2>1. /\ x \in Track
        /\ trackID[x] = t
        /\ trackState[x] # "new"
    <3>1. x \in Track
      BY <1>1, <1>3 DEF TypeOK, Published
    <3>2. trackID[x] = t /\ trackState[x] \in {"running", "done"}
      BY <1>1, <1>3 DEF IInv, Inv, TracksInv, PublishedTracksAreOwned
    <3> QED
      BY <3>1, <3>2
  <2>2. trackOwner[x] \in ParticipantID /\ t \in TracksOf[trackOwner[x]]
    BY <1>1, <2>1 DEF TypeOK, IInv, Inv, TracksInv, TracksHaveIDs, AInv,
                      TracksAreTheirOwners
  <2> QED
    BY <1>3, <2>2 DEF TracksAreDistinct
<1>5. ASSUME NEW q \in Peer, ~dataChannel[q]
      PROVE  announced'[q] = announced[q]
  BY <1>2, <1>5, ResendSparesSilent
<1>6. ASSUME NEW q \in Peer, Current(q), dataChannel[q]
      PROVE  \/ announced'[q] = AvailableNext(q)
             \/ announced'[q] = announced[q]
                  /\ announced[q] \subseteq AvailableNext(q)
  <2>1. owner[q] \in ParticipantID
    BY <1>1, <1>6 DEF TypeOK, Current, Created
  <2>2. CASE owner[q] # id
    BY <1>2, <1>6, <2>1, <2>2, ResendReaches DEF AvailableNext
  <2>3. CASE owner[q] = id
    <3>1. announced'[q] = announced[q]
      BY <1>2, <1>6, <2>3, ResendReaches
    <3>2. announced[q] \subseteq AvailableNow(id) \ {t}
      BY <1>4, <1>6, <2>3 DEF AInv, AnnouncedTracksAreAvailable
    <3>3. AvailableNow(id) \ {t} \subseteq AvailableNext(q)
      BY <1>1, <1>2, <2>3 DEF TypeOK, AvailableNow, AvailableNext, Available
    <3> QED
      BY <3>1, <3>2, <3>3
  <2> QED
    BY <2>2, <2>3
<1> QED
  BY <1>2, <1>5, <1>6, PeersAreTold DEF Told

\* The goroutines around the loop withdraw nothing; what a peer knew goes with
\* its data channel.
LEMMA GoroutinesAreTold ==
  ASSUME AInv,
         \/ \E q \in Peer :
              BeginSend(q) \/ OpenDataChannel(q) \/ LoseDataChannel(q)
         \/ \E m \in inFlight : CompleteSend(m) \/ RefuseSend(m)
         \/ \E o \in Track : TrackEnds(o) \/ WatcherQuits(o)
         \/ \E o \in Track, id \in ParticipantID : SubscriptionEnds(o, id)
         \/ MatrixWorkerSends
         \/ UNCHANGED vars
  PROVE  Told'
<1>1. TypeOK
  BY DEF AInv, IInv
<1>2. CASE \E p \in Peer : OpenDataChannel(p) \/ LoseDataChannel(p)
  <2>1. PICK p \in Peer : OpenDataChannel(p) \/ LoseDataChannel(p)
    BY <1>2
  <2>2. UNCHANGED <<participants, owner, publishedTracks, trackOwner,
                    streamsMetadata>>
    BY <2>1 DEF OpenDataChannel, LoseDataChannel, peers, tracks
  <2>3. \A q \in Peer \ {p} : /\ dataChannel'[q] = dataChannel[q]
                              /\ announced'[q] = announced[q]
    BY <1>1, <2>1 DEF TypeOK, OpenDataChannel, LoseDataChannel
  <2>4. announced'[p] = {} /\ (dataChannel'[p] => Created(p))
    BY <1>1, <2>1 DEF TypeOK, OpenDataChannel, LoseDataChannel, IsOpen, AInv,
                      SilentPeersKnowNothing
  <2> QED
    BY <2>2, <2>3, <2>4
       DEF AInv, Told, SilentPeersKnowNothing, AnnouncedTracksAreAvailable,
           AvailableNow, Available, Current, Created
<1>3. CASE UNCHANGED <<participants, owner, dataChannel, announced,
                       publishedTracks, trackOwner, streamsMetadata>>
  BY <1>3, NothingToTell
<1> QED
  BY <1>2, <1>3
     DEF BeginSend, CompleteSend, RefuseSend, TrackEnds, WatcherQuits,
         SubscriptionEnds, MatrixWorkerSends, state, peers, tracks, vars

\* Peers keep their owners.
LEMMA OwnersRemain ==
  ASSUME IInv, [Next]_vars, NEW q \in Peer, Created(q)
  PROVE  owner'[q] = owner[q]
<1>1. TypeOK
  BY DEF IInv
<1>2. CASE LoopStep(ProcessPeerMessage)
  BY <1>2 DEF LoopStep, ProcessPeerMessage, processPeerMessage, Ignored,
              processLeftTheCallMessage, removeParticipant,
              processNewTrackPublishedMessage, processTrackSubscriptionMessage,
              processNegotiateMessage, processMetadataMessage,
              processAnnouncement, processNewICECandidateMessage, peers
<1>3. CASE LoopStep(ProcessMatrixMessage)
  <2>1. PICK id \in ParticipantID :
          onNewParticipant(id) \/ onHangup(id) \/ onSelectAnswer(id)
    BY <1>3 DEF LoopStep, ProcessMatrixMessage
  <2>2. \/ owner' = owner
        \/ \E p \in Peer : ~Created(p) /\ owner' = [owner EXCEPT ![p] = id]
    BY <2>1 DEF onNewParticipant, Join, Rejoin, Reoffer, JoinFails, onHangup,
                onSelectAnswer, removeParticipant, peers
  <2> QED
    BY <1>1, <2>2 DEF TypeOK
<1>4. CASE ~LoopStep(ProcessPeerMessage) /\ ~LoopStep(ProcessMatrixMessage)
  BY <1>4 DEF Next, LoopStep, processPublishedTrackFailedMessage, BeginSend,
              OpenDataChannel, LoseDataChannel, CompleteSend, RefuseSend,
              TrackEnds, WatcherQuits, SubscriptionEnds, MatrixWorkerSends,
              state, peers, vars
<1> QED
  BY <1>2, <1>3, <1>4

\* A message that named a track of its sender still does.
NamesOwnTrackNext(m) ==
  m.kind = "NewTrackPublished" => m.track \in TracksOf[owner'[m.from]]

LEMMA NamesRemain ==
  ASSUME IInv, [Next]_vars, NEW m, m.from \in Peer, Created(m.from),
         NamesOwnTrack(m)
  PROVE  NamesOwnTrackNext(m)
<1>1. owner'[m.from] = owner[m.from]
  BY OwnersRemain
<1> QED
  BY <1>1 DEF NamesOwnTrack, NamesOwnTrackNext

\* The callbacks that wait in Send are those that waited before, and the one
\* that has just begun.
LEMMA NewCallbacks ==
  ASSUME IInv, [Next]_vars, NEW m \in inFlight' \ inFlight
  PROVE  \/ m.kind \in {"LeftTheCall", "DataChannelAvailable"}
         \/ \E q \in Peer : Created(q) /\ m \in Posts(q)
<1>1. CASE inFlight' \subseteq inFlight
  BY <1>1
<1>2. ASSUME NEW id \in ParticipantID, TearDown(id)
      PROVE  m.kind = "LeftTheCall"
  <2>1. m = LeftTheCall(participants[id])
    BY <1>2 DEF TearDown, Terminate
  <2> QED
    BY <2>1 DEF LeftTheCall
<1>3. CASE LoopStep(ProcessPeerMessage)
  <2> DEFINE id == owner[Head(peerMessages).from]
  <2>1. id \in ParticipantID /\ processPeerMessage(Head(peerMessages))
    BY <1>3, TakenMessage DEF LoopStep, ProcessPeerMessage
  <2>2. inFlight' = inFlight \/ TearDown(id)
    BY <2>1 DEF processPeerMessage, Ignored, processLeftTheCallMessage,
              removeParticipant, processNewTrackPublishedMessage,
              processTrackSubscriptionMessage, processNegotiateMessage,
              processMetadataMessage, processAnnouncement,
              processNewICECandidateMessage
  <2> QED
    BY <1>1, <1>2, <2>1, <2>2
<1>4. CASE LoopStep(ProcessMatrixMessage)
  <2>1. PICK id \in ParticipantID :
          onNewParticipant(id) \/ onHangup(id) \/ onSelectAnswer(id)
    BY <1>4 DEF LoopStep, ProcessMatrixMessage
  <2>2. inFlight' = inFlight \/ TearDown(id)
    BY <2>1 DEF onNewParticipant, Join, Rejoin, Reoffer, JoinFails, onHangup,
                onSelectAnswer, removeParticipant
  <2> QED
    BY <1>1, <1>2, <2>2
<1>5. ASSUME NEW q \in Peer, OpenDataChannel(q)
      PROVE  m.kind = "DataChannelAvailable"
  <2>1. m = [kind |-> "DataChannelAvailable", from |-> q]
    BY <1>5 DEF OpenDataChannel
  <2> QED
    BY <2>1
<1>6. ASSUME NEW q \in Peer, BeginSend(q)
      PROVE  Created(q) /\ m \in Posts(q)
  BY <1>6 DEF BeginSend, IsOpen
<1> QED
  BY <1>1, <1>3, <1>4, <1>5, <1>6
     DEF Next, LoopStep, processPublishedTrackFailedMessage, LoseDataChannel,
         CompleteSend, RefuseSend, TrackEnds, WatcherQuits, SubscriptionEnds,
         MatrixWorkerSends, loop, vars

\* The messages that a step leaves name tracks of their senders.
LEMMA NamesStep ==
  ASSUME AInv, [Next]_vars
  PROVE  /\ \A m \in inFlight' : NamesOwnTrackNext(m)
         /\ \A i \in DOMAIN peerMessages' : NamesOwnTrackNext(peerMessages'[i])
<1>1. IInv /\ peerMessages \in Seq(Message) /\ inFlight \subseteq Message
  BY DEF AInv, IInv, TypeOK
<1>2. ASSUME NEW m \in inFlight
      PROVE  NamesOwnTrackNext(m)
  <2>1. m.from \in Peer /\ Created(m.from) /\ NamesOwnTrack(m)
    BY <1>1, QueuedMessages DEF AInv, TracksAreTheirOwners
  <2> QED
    BY <1>1, <2>1, NamesRemain
<1>3. ASSUME NEW i \in DOMAIN peerMessages
      PROVE  NamesOwnTrackNext(peerMessages[i])
  <2> DEFINE m == peerMessages[i]
  <2>1. m.from \in Peer /\ Created(m.from) /\ NamesOwnTrack(m)
    BY <1>1, QueuedMessages DEF AInv, TracksAreTheirOwners
  <2> QED
    BY <1>1, <2>1, NamesRemain
<1>4. ASSUME NEW m \in inFlight' \ inFlight
      PROVE  NamesOwnTrackNext(m)
  <2>1. CASE m.kind \in {"LeftTheCall", "DataChannelAvailable"}
    BY <2>1 DEF NamesOwnTrackNext
  <2>2. ASSUME NEW q \in Peer, Created(q), m \in Posts(q)
        PROVE  NamesOwnTrackNext(m)
    <3>1. m.from = q /\ NamesOwnTrack(m)
      BY <2>2 DEF Posts, NamesOwnTrack
    <3> QED
      BY <1>1, <2>2, <3>1, NamesRemain
  <2> QED
    BY <1>1, <2>1, <2>2, NewCallbacks
<1>5. ASSUME NEW i \in DOMAIN peerMessages'
      PROVE  NamesOwnTrackNext(peerMessages'[i])
  <2>1. CASE peerMessages' = peerMessages
    BY <1>3, <2>1
  <2>2. CASE LoopStep(ProcessPeerMessage)
    <3>1. peerMessages # <<>> /\ peerMessages' = Tail(peerMessages)
      BY <2>2 DEF LoopStep, ProcessPeerMessage
    <3>2. /\ i + 1 \in DOMAIN peerMessages
          /\ peerMessages'[i] = peerMessages[i + 1]
      BY <1>1, <3>1
    <3> QED
      BY <1>3, <3>2
  <2>3. ASSUME NEW m \in inFlight, CompleteSend(m)
        PROVE  NamesOwnTrackNext(peerMessages'[i])
    <3>1. m \in Message /\ peerMessages' = Append(peerMessages, m)
      BY <1>1, <2>3 DEF CompleteSend
    <3>2. \/ i \in DOMAIN peerMessages /\ peerMessages'[i] = peerMessages[i]
          \/ peerMessages'[i] = m
      BY <1>1, <3>1
    <3> QED
      BY <1>2, <1>3, <3>2
  <2> QED
    BY <2>1, <2>2, <2>3
       DEF Next, LoopStep, ProcessMatrixMessage,
           processPublishedTrackFailedMessage, BeginSend, OpenDataChannel,
           LoseDataChannel, RefuseSend, TrackEnds, WatcherQuits,
           SubscriptionEnds, MatrixWorkerSends, loop, vars
<1> QED
  BY <1>2, <1>4, <1>5

\* A Track object gets its ID and its owner when it is taken, from a message
\* that names a track of its sender.
LEMMA TracksStep ==
  ASSUME AInv, [Next]_vars, NEW o \in Track, trackState'[o] # "new"
  PROVE  trackID'[o] \in TracksOf[trackOwner'[o]]
<1>1. IInv /\ TypeOK
  BY DEF AInv, IInv
<1>2. CASE trackState[o] # "new" /\ UNCHANGED <<trackID, trackOwner>>
  BY <1>2 DEF AInv, TracksAreTheirOwners
<1>3. ASSUME NEW id \in ParticipantID, TearDown(id)
      PROVE  trackState[o] # "new" /\ UNCHANGED <<trackID, trackOwner>>
  BY <1>3 DEF TearDown, Stopped
<1>4. CASE LoopStep(ProcessPeerMessage)
  <2> DEFINE m == Head(peerMessages)
             id == owner[m.from]
  <2>1. id \in ParticipantID /\ m \in Message /\ processPeerMessage(m)
    BY <1>1, <1>4, TakenMessage DEF LoopStep, ProcessPeerMessage
  <2>2. CASE m.kind = "NewTrackPublished" /\ AddPublishedTrack(id, m.track)
    <3>1. 1 \in DOMAIN peerMessages /\ m = peerMessages[1]
      BY <1>1, <1>4 DEF TypeOK, LoopStep, ProcessPeerMessage
    <3>2. m.track \in TracksOf[id]
      BY <2>2, <3>1 DEF AInv, TracksAreTheirOwners, NamesOwnTrack
    <3>3. PICK x \in Track :
            /\ trackID' = [trackID EXCEPT ![x] = m.track]
            /\ trackOwner' = [trackOwner EXCEPT ![x] = id]
            /\ trackState' = [trackState EXCEPT ![x] = "running"]
      BY <2>2 DEF AddPublishedTrack
    <3>4. CASE o = x
      BY <1>1, <3>2, <3>3, <3>4 DEF TypeOK
    <3>5. CASE o # x
      <4>1. /\ trackState[o] # "new"
            /\ trackID'[o] = trackID[o]
            /\ trackOwner'[o] = trackOwner[o]
        BY <1>1, <3>3, <3>5 DEF TypeOK
      <4> QED
        BY <4>1 DEF AInv, TracksAreTheirOwners
    <3> QED
      BY <3>4, <3>5
  <2>3. CASE ~(m.kind = "NewTrackPublished" /\ AddPublishedTrack(id, m.track))
    <3>1. UNCHANGED <<trackID, trackOwner, trackState>> \/ TearDown(id)
      BY <2>1, <2>3
         DEF processPeerMessage, Ignored, processLeftTheCallMessage,
             removeParticipant, processNewTrackPublishedMessage,
             processTrackSubscriptionMessage, processNegotiateMessage,
             processMetadataMessage, processAnnouncement,
             processNewICECandidateMessage, tracks
    <3> QED
      BY <1>2, <1>3, <2>1, <3>1
  <2> QED
    BY <2>2, <2>3
<1>5. CASE LoopStep(ProcessMatrixMessage)
  <2>1. PICK id \in ParticipantID :
          onNewParticipant(id) \/ onHangup(id) \/ onSelectAnswer(id)
    BY <1>5 DEF LoopStep, ProcessMatrixMessage
  <2>2. UNCHANGED <<trackID, trackOwner, trackState>> \/ TearDown(id)
    BY <2>1 DEF onNewParticipant, Join, Rejoin, Reoffer, JoinFails, onHangup,
                onSelectAnswer, removeParticipant, tracks
  <2> QED
    BY <1>2, <1>3, <2>2
<1>6. ASSUME NEW x \in Track, \/ LoopStep(processPublishedTrackFailedMessage(x))
                              \/ TrackEnds(x)
                              \/ WatcherQuits(x)
      PROVE  trackState[o] # "new" /\ UNCHANGED <<trackID, trackOwner>>
  BY <1>1, <1>6 DEF TypeOK, LoopStep, processPublishedTrackFailedMessage,
                    RemovePublishedTrack, Stopped, TrackEnds, WatcherQuits
<1>7. CASE UNCHANGED <<trackID, trackOwner, trackState>>
  BY <1>2, <1>7
<1> QED
  BY <1>2, <1>4, <1>5, <1>6, <1>7
     DEF Next, BeginSend, OpenDataChannel, LoseDataChannel, CompleteSend,
         RefuseSend, SubscriptionEnds, MatrixWorkerSends, state, tracks, vars

LEMMA AnnouncementsInit == Init => AInv
<1> SUFFICES ASSUME Init PROVE AInv
  OBVIOUS
<1>1. IInv /\ Nothing
  BY InitInv DEF Init
<1>2. TracksAreTheirOwners
  BY <1>1 DEF Nothing, TracksAreTheirOwners
<1>3. Told
  BY <1>1 DEF Nothing, Told, SilentPeersKnowNothing,
              AnnouncedTracksAreAvailable
<1> QED
  BY <1>1, <1>2, <1>3 DEF AInv, Told

LEMMA AnnouncementsStep ==
  ASSUME TracksAreDistinct, AInv, [Next]_vars
  PROVE  AInv'
<1>1. IInv'
  BY InvStep DEF AInv
<1>2. TracksAreTheirOwners'
  BY NamesStep, TracksStep
     DEF TracksAreTheirOwners, NamesOwnTrack, NamesOwnTrackNext
<1>3. Told'
  BY PeerMessageIsTold, MatrixMessageIsTold, ReportIsTold, GoroutinesAreTold
     DEF Next
<1> QED
  BY <1>1, <1>2, <1>3 DEF AInv, Told

\* What a participant was told last is still there, through rejoins, late
\* reports of tracks that were replaced and changes of the metadata: whatever
\* takes a track away tells everyone it was offered to.
THEOREM AnnouncementsHold ==
  ASSUME TracksAreDistinct
  PROVE  Spec => []AnnouncedTracksAreAvailable
<1>1. AInv => AnnouncedTracksAreAvailable
  BY DEF AInv
<1>2. AInv /\ [Next]_vars => AInv'
  BY AnnouncementsStep
<1> QED
  BY <1>1, <1>2, AnnouncementsInit, PTL DEF Spec

=============================================================================
