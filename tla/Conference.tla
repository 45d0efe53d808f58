----------------------------- MODULE Conference -----------------------------
(***************************************************************************)
(* One conference: the main loop `processMessages`, the participant        *)
(* tracker it owns, and the goroutines around it -- the callbacks of the   *)
(* peers, which post messages through a `SinkWithSender`, and the watchers *)
(* of the published tracks, which report that a track stopped.             *)
(*                                                                         *)
(* A participant is known to the loop by its ID only.  A participant that  *)
(* leaves and comes back has the same ID and a new Peer, and a track that  *)
(* is published again has the same TrackID and a new Track object: both    *)
(* incarnations are explicit here, since the messages of the old one may   *)
(* still be on their way when the new one exists.                          *)
(***************************************************************************)
EXTENDS Naturals, Sequences, FiniteSets

CONSTANTS
  ParticipantID,    \* user, device and call ID: the keys of the tracker
  TrackID,          \* IDs of the remote tracks
  StreamID,         \* IDs of the media streams
  Peer,             \* peer connections the conference can create
  Track,            \* PublishedTrack objects the tracker can create
  NoID, NoPeer, NoTrack, NoTrackID,
  StreamOf,         \* the stream of each track
  TracksOf,         \* the tracks each participant may publish
  Kind,             \* the kinds of messages peers send (bounds the model)
  Requests,         \* track subscription requests: [unsubscribe, subscribe]
  Declarations,     \* the sets of streams that offers and metadata describe
  PeerQueueCap,     \* capacity of peerMessages (100 in the code)
  MatrixQueueCap,   \* capacity of the Matrix worker's channel (128)
  MaxInFlight       \* bound on callbacks that are inside Send at once

SubscriptionRequest ==
  [unsubscribe : SUBSET TrackID, subscribe : SUBSET TrackID]

ASSUME ConferenceAssumption ==
  /\ NoID \notin ParticipantID
  /\ NoPeer \notin Peer
  /\ NoTrack \notin Track
  /\ NoTrackID \notin TrackID
  /\ StreamOf \in [TrackID -> StreamID]
  /\ TracksOf \in [ParticipantID -> SUBSET TrackID]
  /\ Requests \subseteq SubscriptionRequest
  /\ Declarations \subseteq SUBSET StreamID
  /\ PeerQueueCap \in Nat \ {0}
  /\ MatrixQueueCap \in Nat
  /\ MaxInFlight \in Nat

VARIABLES
  participants,     \* tracker.participants: the peer of each participant
  owner,            \* the ID a peer was created for (NoID: not created)
  sealed,           \* peers that were terminated, their sink is sealed
  refused,          \* peers whose NewPeer failed after it set the callbacks
  dataChannel,      \* is the data channel of the peer open?
  announced,        \* the tracks last announced on that data channel
  publishedTracks,  \* tracker.publishedTracks
  trackID,          \* ID and owner of each Track object
  trackOwner,
  trackState,       \* "new", "running", "stopping", "done" or "reported"
  subscriptions,    \* whose peer is fed by the track, per participant
  streamsMetadata,  \* who described the stream last (NoID: no entry)
  peerMessages,     \* the channel from the peers to the loop
  inFlight,         \* messages of callbacks that passed the sealed check
  matrixQueue,      \* the channel of the Matrix worker
  signalDone        \* the loop has returned

tracks == <<publishedTracks, trackID, trackOwner, trackState, subscriptions>>
peers  == <<participants, owner, sealed, refused>>
vars   == <<peers, dataChannel, announced, tracks, streamsMetadata,
            peerMessages, inFlight, matrixQueue, signalDone>>

PlainKind == {"LeftTheCall", "DataChannelAvailable", "RenegotiationRequired",
              "NewICECandidate"}

DataChannelKind == {"TrackSubscription", "Negotiate", "MetadataChanged"}

Message ==
  [kind : PlainKind, from : Peer]
    \cup [kind : {"NewTrackPublished"}, from : Peer, track : TrackID]
    \cup [kind : {"TrackSubscription"}, from : Peer,
          request : SubscriptionRequest]
    \cup [kind : {"Negotiate", "MetadataChanged"}, from : Peer,
          streams : SUBSET StreamID]

Signal == [to : Peer, what : {"answer", "candidates", "hangup"}]

TypeOK ==
  /\ participants \in [ParticipantID -> Peer \cup {NoPeer}]
  /\ owner \in [Peer -> ParticipantID \cup {NoID}]
  /\ sealed \in SUBSET Peer
  /\ refused \in SUBSET Peer
  /\ dataChannel \in [Peer -> BOOLEAN]
  /\ announced \in [Peer -> SUBSET TrackID]
  /\ publishedTracks \in [TrackID -> Track \cup {NoTrack}]
  /\ trackID \in [Track -> TrackID \cup {NoTrackID}]
  /\ trackOwner \in [Track -> ParticipantID \cup {NoID}]
  /\ trackState \in
       [Track -> {"new", "running", "stopping", "done", "reported"}]
  /\ subscriptions \in [Track -> [ParticipantID -> Peer \cup {NoPeer}]]
  /\ streamsMetadata \in [StreamID -> ParticipantID \cup {NoID}]
  /\ peerMessages \in Seq(Message)
  /\ inFlight \in SUBSET Message
  /\ matrixQueue \in Seq(Signal)
  /\ signalDone \in BOOLEAN

-----------------------------------------------------------------------------
(* The tracker and the metadata, as the handlers read them.                *)

IsParticipant(id) == participants[id] # NoPeer

HasParticipants == \E id \in ParticipantID : IsParticipant(id)

Published(t) == publishedTracks[t] # NoTrack

\* The tracks that RemoveParticipant removes with their owner.
OwnTracks(id) ==
  {t \in TrackID : Published(t) /\ trackOwner[publishedTracks[t]] = id}

\* getAvailableStreamsFor: what the participant can subscribe to, given the
\* map of tracks and the metadata the loop has at that moment.
Available(map, owners, metadata, id) ==
  {t \in TrackID : /\ map[t] # NoTrack
                   /\ owners[map[t]] # id
                   /\ metadata[StreamOf[t]] # NoID}

AvailableNow(id) ==
  Available(publishedTracks, trackOwner, streamsMetadata, id)

\* A peer that a send over the data channel reaches, if `who` holds its ID.
Reachable(q, who) ==
  /\ owner[q] \in who
  /\ participants[owner[q]] = q
  /\ dataChannel[q]

\* resendMetadataToAllExcept, with the available tracks after the change.
Resend(who, map, owners, metadata) ==
  [q \in Peer |-> IF Reachable(q, who)
                  THEN Available(map, owners, metadata, owner[q])
                  ELSE announced[q]]

\* SendOverDataChannel to one participant, carrying the available tracks.
SendAvailable(id, metadata) ==
  Resend({id}, publishedTracks, trackOwner, metadata)

\* Seeded fault: the description of one participant replaces all of them.
OnlyDescribed(metadata, id, streams) ==
  [s \in StreamID |-> IF s \in streams THEN id ELSE NoID]

\* updateMetadata: every stream described replaces what was known of it.
Described(metadata, id, streams) ==
  [s \in StreamID |-> IF s \in streams THEN id ELSE metadata[s]]

\* worker.Send: a full channel drops the message.
Enqueued(queue, to, what) ==
  IF Len(queue) < MatrixQueueCap
  THEN Append(queue, [to |-> to, what |-> what])
  ELSE queue

LeftTheCall(q) == [kind |-> "LeftTheCall", from |-> q]

\* PublishedTrack.Stop: closes stopPublishers unless the track is closed.
Stopped(state) == IF state = "running" THEN "stopping" ELSE state

-----------------------------------------------------------------------------
(* Removing a participant.                                                 *)

TracksWithout(id) ==
  [t \in TrackID |-> IF t \in OwnTracks(id) THEN NoTrack
                     ELSE publishedTracks[t]]

\* Seeded fault: the participant stays subscribed.
SubscriptionsKept(id) == subscriptions

SubscriptionsWithout(id) ==
  [o \in Track |-> IF \E t \in TrackID : TracksWithout(id)[t] = o
                   THEN [subscriptions[o] EXCEPT ![id] = NoPeer]
                   ELSE subscriptions[o]]

MetadataWithout(id) ==
  [s \in StreamID |-> IF \E t \in OwnTracks(id) : StreamOf[t] = s
                      THEN NoID ELSE streamsMetadata[s]]

\* Terminate closes the connection before it seals the sink.  The callback
\* of the closed connection, which posts LeftTheCall, runs in a goroutine of
\* its own and may pass the check of the seal in between.
Terminate(q) ==
  /\ sealed' = sealed \cup {q}
  /\ dataChannel' = [dataChannel EXCEPT ![q] = FALSE]
  /\ \E late \in {{}, {LeftTheCall(q)}} : inFlight' = inFlight \cup late

\* All of removeParticipant except for the two maps that a new participant
\* with the same ID updates as well, participants and streamsMetadata.
TearDown(id) ==
  LET q == participants[id] IN
  /\ Terminate(q)
  /\ publishedTracks' = TracksWithout(id)
  /\ trackState' =
       [o \in Track |-> IF \E t \in OwnTracks(id) : publishedTracks[t] = o
                        THEN Stopped(trackState[o]) ELSE trackState[o]]
  /\ subscriptions' = SubscriptionsWithout(id)
  /\ announced' =
       [Resend(ParticipantID \ {id}, TracksWithout(id), trackOwner,
               MetadataWithout(id)) EXCEPT ![q] = {}]
  /\ UNCHANGED <<trackID, trackOwner>>

\* Seeded fault: the participant stays in the tracker.
RemovalForgotten(id) ==
  /\ TearDown(id)
  /\ streamsMetadata' = MetadataWithout(id)
  /\ UNCHANGED <<participants, owner, refused>>

removeParticipant(id) ==
  /\ TearDown(id)
  /\ participants' = [participants EXCEPT ![id] = NoPeer]
  /\ streamsMetadata' = MetadataWithout(id)
  /\ UNCHANGED <<owner, refused>>

-----------------------------------------------------------------------------
(* Messages from Matrix.                                                   *)

loop == <<peerMessages, inFlight, signalDone>>

Created(q) == owner[q] # NoID

Current(q) == Created(q) /\ participants[owner[q]] = q

\* The sink takes messages, whether or not the conference tracks the peer.
IsOpen(q) == Created(q) /\ q \notin sealed

\* onNewParticipant for an ID that is not in the conference.
Join(id, streams) ==
  /\ ~IsParticipant(id)
  /\ \E q \in Peer :
       /\ ~Created(q)
       /\ owner' = [owner EXCEPT ![q] = id]
       /\ participants' = [participants EXCEPT ![id] = q]
       /\ matrixQueue' = Enqueued(matrixQueue, q, "answer")
  /\ streamsMetadata' = Described(streamsMetadata, id, streams)
  /\ UNCHANGED <<sealed, refused, dataChannel, announced, tracks, inFlight>>

\* The same for an ID that is known with another session: the old peer is
\* removed, and the others are told, before the new one exists.
Rejoin(id, streams) ==
  /\ IsParticipant(id)
  /\ TearDown(id)
  /\ \E q \in Peer :
       /\ ~Created(q)
       /\ owner' = [owner EXCEPT ![q] = id]
       /\ participants' = [participants EXCEPT ![id] = q]
       /\ matrixQueue' = Enqueued(matrixQueue, q, "answer")
  /\ streamsMetadata' = Described(MetadataWithout(id), id, streams)
  /\ UNCHANGED refused

\* NewPeer fails: the old session, if any, is gone.  A connection that was
\* created before its offer was refused is neither tracked nor terminated;
\* its callbacks are set, and its sink is the channel of the conference.
JoinFails(id) ==
  /\ \/ UNCHANGED <<owner, refused>>
     \/ \E q \in Peer : /\ ~Created(q)
                        /\ owner' = [owner EXCEPT ![q] = id]
                        /\ refused' = refused \cup {q}
  /\ IF IsParticipant(id)
     THEN /\ TearDown(id)
          /\ participants' = [participants EXCEPT ![id] = NoPeer]
          /\ streamsMetadata' = MetadataWithout(id)
     ELSE UNCHANGED <<participants, sealed, dataChannel, announced, tracks,
                      streamsMetadata, inFlight>>
  /\ UNCHANGED matrixQueue

\* A second invite of the same session is a new offer to the same peer.  If
\* the peer refuses the offer, nothing changes.
Reoffer(id, streams) ==
  /\ IsParticipant(id)
  /\ streamsMetadata' = Described(streamsMetadata, id, streams)
  /\ matrixQueue' = Enqueued(matrixQueue, participants[id], "answer")
  /\ UNCHANGED <<peers, dataChannel, announced, tracks, inFlight>>

onNewParticipant(id) ==
  \/ \E streams \in Declarations :
       Join(id, streams) \/ Rejoin(id, streams) \/ Reoffer(id, streams)
  \/ JoinFails(id)

\* The remote peer hangs up.
onHangup(id) ==
  /\ IsParticipant(id)
  /\ removeParticipant(id)
  /\ UNCHANGED matrixQueue

\* The remote peer selected the answer of another device.
onSelectAnswer(id) ==
  /\ IsParticipant(id)
  /\ removeParticipant(id)
  /\ UNCHANGED matrixQueue

ProcessMatrixMessage ==
  /\ \E id \in ParticipantID :
       onNewParticipant(id) \/ onHangup(id) \/ onSelectAnswer(id)
  /\ UNCHANGED peerMessages

-----------------------------------------------------------------------------
(* Messages from the peers.  A handler knows the sender by its ID.         *)

\* Seeded fault: the hangup is sent, but the participant is not removed.
HangupOnly(id) ==
  /\ IsParticipant(id)
  /\ matrixQueue' = Enqueued(matrixQueue, participants[id], "hangup")
  /\ UNCHANGED <<peers, dataChannel, announced, tracks, streamsMetadata,
                 inFlight>>

\* Seeded fault: the hangup looks up a participant that is gone by then.
HangupAfterRemoval(id) ==
  /\ IsParticipant(id)
  /\ removeParticipant(id)
  /\ matrixQueue' = Enqueued(matrixQueue, participants'[id], "hangup")

\* Seeded fault: the message says who has left.
AnyoneLeaves(id) ==
  \E other \in ParticipantID :
    /\ IsParticipant(other)
    /\ removeParticipant(other)
    /\ matrixQueue' = Enqueued(matrixQueue, participants[other], "hangup")

processLeftTheCallMessage(id) ==
  /\ IsParticipant(id)
  /\ removeParticipant(id)
  /\ matrixQueue' = Enqueued(matrixQueue, participants[id], "hangup")

\* Seeded fault: a track of a participant that has left is added.
AddAnyTrack(id, t) ==
  /\ ~Published(t)
  /\ \E o \in Track :
       /\ trackState[o] = "new"
       /\ publishedTracks' = [publishedTracks EXCEPT ![t] = o]
       /\ trackID' = [trackID EXCEPT ![o] = t]
       /\ trackOwner' = [trackOwner EXCEPT ![o] = id]
       /\ trackState' = [trackState EXCEPT ![o] = "running"]
  /\ UNCHANGED subscriptions

\* AddPublishedTrack makes an object for a track it does not have; a track
\* it has gets another publisher, which this module does not tell apart.
AddPublishedTrack(id, t) ==
  /\ IsParticipant(id)
  /\ ~Published(t)
  /\ \E o \in Track :
       /\ trackState[o] = "new"
       /\ publishedTracks' = [publishedTracks EXCEPT ![t] = o]
       /\ trackID' = [trackID EXCEPT ![o] = t]
       /\ trackOwner' = [trackOwner EXCEPT ![o] = id]
       /\ trackState' = [trackState EXCEPT ![o] = "running"]
  /\ UNCHANGED subscriptions

\* The others are informed even if no track was added: the participant is
\* gone, the track has been published before, or NewPublishedTrack failed.
processNewTrackPublishedMessage(id, t) ==
  /\ AddPublishedTrack(id, t) \/ UNCHANGED tracks
  /\ announced' = Resend(ParticipantID \ {id}, publishedTracks', trackOwner',
                         streamsMetadata)
  /\ UNCHANGED <<peers, dataChannel, streamsMetadata, inFlight, matrixQueue>>

\* All of Unsubscribe comes first.  Subscribe leaves a subscription that
\* exists with its peer, and fails for a track that is closed.
processTrackSubscriptionMessage(id, request) ==
  LET feeds(o, ids) == \E t \in ids : publishedTracks[t] = o
      kept(o) == ~feeds(o, request.unsubscribe)
                   /\ subscriptions[o][id] # NoPeer
      subscribed(o) ==
        IF kept(o) THEN subscriptions[o][id]
        ELSE IF feeds(o, request.subscribe) /\ trackState[o] # "done"
             THEN participants[id]
        ELSE IF feeds(o, request.unsubscribe) THEN NoPeer
        ELSE subscriptions[o][id]
  IN
  /\ IsParticipant(id)
  /\ subscriptions' = [o \in Track |->
                         [subscriptions[o] EXCEPT ![id] = subscribed(o)]]
  /\ UNCHANGED <<peers, dataChannel, announced, publishedTracks, trackID,
                 trackOwner, trackState, streamsMetadata, inFlight,
                 matrixQueue>>

\* An offer that the peer accepts is answered over the data channel; an
\* answer, a refused offer and an unknown description are not.
processNegotiateMessage(id, streams) ==
  /\ IsParticipant(id)
  /\ streamsMetadata' = Described(streamsMetadata, id, streams)
  /\ announced' \in {announced, SendAvailable(id, streamsMetadata')}
  /\ UNCHANGED <<peers, dataChannel, tracks, inFlight, matrixQueue>>

processMetadataMessage(id, streams) ==
  /\ IsParticipant(id)
  /\ streamsMetadata' = Described(streamsMetadata, id, streams)
  /\ announced' = Resend(ParticipantID \ {id}, publishedTracks, trackOwner,
                         streamsMetadata')
  /\ UNCHANGED <<peers, dataChannel, tracks, inFlight, matrixQueue>>

\* DataChannelAvailable and RenegotiationRequired both make the conference
\* send what is available to the sender's ID.
processAnnouncement(id) ==
  /\ IsParticipant(id)
  /\ announced' = SendAvailable(id, streamsMetadata)
  /\ UNCHANGED <<peers, dataChannel, tracks, streamsMetadata, inFlight,
                 matrixQueue>>

processNewICECandidateMessage(id) ==
  /\ IsParticipant(id)
  /\ matrixQueue' = Enqueued(matrixQueue, participants[id], "candidates")
  /\ UNCHANGED <<peers, dataChannel, announced, tracks, streamsMetadata,
                 inFlight>>

\* Every handler but that of new tracks starts by looking the sender up.
Ignored(m) ==
  /\ m.kind # "NewTrackPublished"
  /\ ~IsParticipant(owner[m.from])
  /\ UNCHANGED <<peers, dataChannel, announced, tracks, streamsMetadata,
                 inFlight, matrixQueue>>

processPeerMessage(m) ==
  LET id == owner[m.from] IN
  \/ Ignored(m)
  \/ m.kind = "LeftTheCall" /\ processLeftTheCallMessage(id)
  \/ m.kind = "NewTrackPublished"
       /\ processNewTrackPublishedMessage(id, m.track)
  \/ m.kind = "TrackSubscription"
       /\ processTrackSubscriptionMessage(id, m.request)
  \/ m.kind = "Negotiate" /\ processNegotiateMessage(id, m.streams)
  \/ m.kind = "MetadataChanged" /\ processMetadataMessage(id, m.streams)
  \/ m.kind \in {"DataChannelAvailable", "RenegotiationRequired"}
       /\ processAnnouncement(id)
  \/ m.kind = "NewICECandidate" /\ processNewICECandidateMessage(id)

ProcessPeerMessage ==
  /\ peerMessages # <<>>
  /\ peerMessages' = Tail(peerMessages)
  /\ processPeerMessage(Head(peerMessages))

-----------------------------------------------------------------------------
(* Published tracks that stop.                                             *)

\* RemovePublishedTrack finds the track by its ID.
RemovePublishedTrack(t) ==
  /\ publishedTracks' = [publishedTracks EXCEPT ![t] = NoTrack]
  /\ UNCHANGED <<trackID, trackOwner, subscriptions>>

\* The loop takes the message of the watcher of o, which then ends.  The
\* message has the ID of the track and of its owner, not the object.
processPublishedTrackFailedMessage(o) ==
  LET t == trackID[o] IN
  /\ trackState[o] = "done"
  /\ RemovePublishedTrack(t)
  /\ trackState' =
       [x \in Track |-> IF x = o THEN "reported"
                        ELSE IF x = publishedTracks[t]
                        THEN Stopped(trackState[x]) ELSE trackState[x]]
  /\ announced' = Resend(ParticipantID \ {trackOwner[o]}, publishedTracks',
                         trackOwner, streamsMetadata)
  /\ UNCHANGED <<peers, dataChannel, streamsMetadata, inFlight, matrixQueue,
                 peerMessages>>

\* Seeded fault: the loop returns when anyone is missing.
EndEarly(step) ==
  /\ ~signalDone
  /\ step
  /\ signalDone' = \E id \in ParticipantID : participants'[id] = NoPeer

\* The select statement of processMessages, with the test that follows it.
LoopStep(step) ==
  /\ ~signalDone
  /\ step
  /\ signalDone' = \A id \in ParticipantID : participants'[id] = NoPeer

-----------------------------------------------------------------------------
(* The goroutines around the loop.                                         *)

state == <<peers, dataChannel, announced, tracks, streamsMetadata,
           matrixQueue, signalDone>>

Pending == inFlight \cup {peerMessages[i] : i \in DOMAIN peerMessages}

\* The messages of this instance.
Post ==
  {m \in Message :
     /\ m.kind \in Kind \cup {"LeftTheCall"}
     /\ m.kind = "TrackSubscription" => m.request \in Requests
     /\ m.kind \in {"Negotiate", "MetadataChanged"} =>
          m.streams \in Declarations}

\* What the callbacks of the peer may post.  The objects that are left
\* bound the number of tracks that are about to be published.
Posts(q) ==
  {m \in Post :
     /\ m.from = q
     /\ m.kind \in Kind
     /\ m.kind \in DataChannelKind =>
          /\ dataChannel[q]
          /\ \A x \in inFlight : x.from = q => x.kind \notin DataChannelKind
     /\ m.kind = "NewTrackPublished" =>
          /\ m.track \in TracksOf[owner[q]]
          /\ Cardinality({x \in Pending : x.kind = "NewTrackPublished"})
               < Cardinality({o \in Track : trackState[o] = "new"})}

\* A callback calls Send and passes the check of the seal.  The connection of
\* a NewPeer that failed passes it as long as it lives.
BeginSend(q) ==
  /\ IsOpen(q)
  /\ Cardinality(inFlight) < MaxInFlight
  /\ \E m \in Posts(q) \ Pending : inFlight' = inFlight \cup {m}
  /\ UNCHANGED <<state, peerMessages>>

\* The select of Send, which may take either branch once the sink is sealed.
CompleteSend(m) ==
  /\ m \in inFlight
  /\ Len(peerMessages) < PeerQueueCap
  /\ peerMessages' = Append(peerMessages, m)
  /\ inFlight' = inFlight \ {m}
  /\ UNCHANGED state

\* Seeded fault: Send waits for the loop only.
NeverRefused(m) == FALSE

RefuseSend(m) ==
  /\ m \in inFlight
  /\ m.from \in sealed
  /\ inFlight' = inFlight \ {m}
  /\ UNCHANGED <<state, peerMessages>>

\* The data channel opens; its callback posts DataChannelAvailable.
OpenDataChannel(q) ==
  /\ IsOpen(q)
  /\ "DataChannelAvailable" \in Kind
  /\ ~dataChannel[q]
  /\ Cardinality(inFlight) < MaxInFlight
  /\ dataChannel' = [dataChannel EXCEPT ![q] = TRUE]
  /\ inFlight' =
       inFlight \cup {[kind |-> "DataChannelAvailable", from |-> q]}
  /\ UNCHANGED <<peers, announced, tracks, streamsMetadata, peerMessages,
                 matrixQueue, signalDone>>

LoseDataChannel(q) ==
  /\ dataChannel[q]
  /\ dataChannel' = [dataChannel EXCEPT ![q] = FALSE]
  /\ announced' = [announced EXCEPT ![q] = {}]
  /\ UNCHANGED <<peers, tracks, streamsMetadata, loop, matrixQueue>>

\* All publishers of a track have ended, told to or by themselves.
TrackEnds(o) ==
  /\ trackState[o] \in {"running", "stopping"}
  /\ trackState' = [trackState EXCEPT ![o] = "done"]
  /\ UNCHANGED <<peers, dataChannel, announced, publishedTracks, trackID,
                 trackOwner, subscriptions, streamsMetadata, loop,
                 matrixQueue>>

\* The RTCP reader of a subscription fails, and the track forgets it.
SubscriptionEnds(o, id) ==
  /\ subscriptions[o][id] # NoPeer
  /\ subscriptions' = [subscriptions EXCEPT ![o][id] = NoPeer]
  /\ UNCHANGED <<peers, dataChannel, announced, publishedTracks, trackID,
                 trackOwner, trackState, streamsMetadata, loop, matrixQueue>>

\* Seeded fault: the watcher waits for the loop only.
WatcherStays(o) == FALSE

\* The watcher of a track gives up when the conference has ended.
WatcherQuits(o) ==
  /\ trackState[o] = "done"
  /\ signalDone
  /\ trackState' = [trackState EXCEPT ![o] = "reported"]
  /\ UNCHANGED <<peers, dataChannel, announced, publishedTracks, trackID,
                 trackOwner, subscriptions, streamsMetadata, loop,
                 matrixQueue>>

\* The Matrix worker takes a message and sends it to the homeserver.
MatrixWorkerSends ==
  /\ matrixQueue # <<>>
  /\ matrixQueue' = Tail(matrixQueue)
  /\ UNCHANGED <<peers, dataChannel, announced, tracks, streamsMetadata, loop>>

-----------------------------------------------------------------------------
(* The conference starts when the participant that creates it has joined.  *)

Nothing ==
  /\ sealed = {}
  /\ refused = {}
  /\ dataChannel = [q \in Peer |-> FALSE]
  /\ announced = [q \in Peer |-> {}]
  /\ publishedTracks = [t \in TrackID |-> NoTrack]
  /\ trackID = [o \in Track |-> NoTrackID]
  /\ trackOwner = [o \in Track |-> NoID]
  /\ trackState = [o \in Track |-> "new"]
  /\ subscriptions = [o \in Track |-> [id \in ParticipantID |-> NoPeer]]
  /\ peerMessages = <<>>
  /\ inFlight = {}
  /\ signalDone = FALSE

Init ==
  /\ Nothing
  /\ \E id \in ParticipantID, q \in Peer, streams \in Declarations :
       /\ participants = [x \in ParticipantID |->
                            IF x = id THEN q ELSE NoPeer]
       /\ owner = [x \in Peer |-> IF x = q THEN id ELSE NoID]
       /\ streamsMetadata =
            Described([s \in StreamID |-> NoID], id, streams)
       /\ matrixQueue = Enqueued(<<>>, q, "answer")

Next ==
  \/ LoopStep(ProcessPeerMessage)
  \/ LoopStep(ProcessMatrixMessage)
  \/ \E o \in Track : LoopStep(processPublishedTrackFailedMessage(o))
  \/ \E q \in Peer : BeginSend(q) \/ OpenDataChannel(q) \/ LoseDataChannel(q)
  \/ \E m \in inFlight : CompleteSend(m) \/ RefuseSend(m)
  \/ \E o \in Track : TrackEnds(o) \/ WatcherQuits(o)
  \/ \E o \in Track, id \in ParticipantID : SubscriptionEnds(o, id)
  \/ MatrixWorkerSends

Spec == Init /\ [][Next]_vars

\* The branches of a select statement are chosen at random, so one that
\* stays ready is taken; senders wait on a channel in order of arrival.
\* Nothing is assumed of the peers and of Matrix, nor that the goroutine of
\* a publisher that was told to stop ends: it reads without a deadline.
Fairness ==
  /\ WF_vars(LoopStep(ProcessPeerMessage))
  /\ \A o \in Track :
       /\ WF_vars(LoopStep(processPublishedTrackFailedMessage(o)))
       /\ WF_vars(WatcherQuits(o))
  /\ \A m \in Post : SF_vars(CompleteSend(m)) /\ WF_vars(RefuseSend(m))

FairSpec == Spec /\ Fairness

-----------------------------------------------------------------------------
(* Properties.                                                             *)

\* The peer that the tracker has for an ID was created for that ID, and its
\* sink is open: a participant that joined again has a peer that works.
CurrentPeersAreOpen ==
  \A id \in ParticipantID :
    IsParticipant(id) => /\ owner[participants[id]] = id
                         /\ participants[id] \notin sealed

\* A track in the tracker belongs to a participant of the conference and has
\* not been stopped: RemoveParticipant removes all the tracks of its
\* participant, and no track is stopped a second time, which would close
\* stopPublishers twice.
PublishedTracksAreOwned ==
  \A t \in TrackID :
    Published(t) =>
      LET o == publishedTracks[t] IN
      /\ trackID[o] = t
      /\ IsParticipant(trackOwner[o])
      /\ trackState[o] \in {"running", "done"}

\* A published track feeds the peers the participants have now, never the
\* peer of an earlier session: RemoveParticipant ends all subscriptions of
\* the participant before the same ID can join and subscribe again.
SubscribersAreCurrent ==
  \A t \in TrackID, id \in ParticipantID :
    LET o == publishedTracks[t] IN
    Published(t) /\ subscriptions[o][id] # NoPeer =>
      subscriptions[o][id] = participants[id]

\* An assumption about the clients: no two participants publish tracks of the
\* same ID, which clients choose at random.
TracksAreDistinct ==
  \A i, j \in ParticipantID : i # j => TracksOf[i] \cap TracksOf[j] = {}

\* What a participant was told last is still there: whatever takes a track or
\* the metadata of its stream away also informs everyone it was offered to.
AnnouncedTracksAreAvailable ==
  \A q \in Peer :
    Current(q) /\ dataChannel[q] => announced[q] \subseteq AvailableNow(owner[q])

\* When the main loop has returned, it has cleaned up after everyone it let
\* in: no participant and no published track is left, and every connection
\* is terminated, so that its callbacks that wait in Send can be refused.
\* The connections of a NewPeer that failed are the exception.
EndedConferenceIsEmpty ==
  signalDone => /\ ~HasParticipants
                /\ \A t \in TrackID : ~Published(t)
                /\ \A q \in Peer : Created(q) => q \in sealed \cup refused

\* The signaling messages for a session go out while its peer is the current
\* one, and the hangup is the last of them: it is sent when the peer has
\* just been removed.
SignalingEndsWithHangup ==
  [][\A i \in DOMAIN matrixQueue' \ DOMAIN matrixQueue :
       LET to == matrixQueue'[i].to IN
       IF matrixQueue'[i].what = "hangup"
       THEN Current(to) /\ to \in sealed'
       ELSE participants'[owner'[to]] = to]_vars

\* sink.go says that a sink keeps its peer from impersonating others: what
\* a peer sends ends the session of its own participant at most, the one
\* that sends or the one that replaced it.
MessagesConcernTheirSender ==
  [][Len(peerMessages') < Len(peerMessages) =>
       \A q \in sealed' \ sealed :
         owner[q] = owner[Head(peerMessages).from]]_vars

\* A callback that waits in Send returns, because its message is taken or
\* because its peer was terminated.  This holds after the conference ended,
\* save for the connections of a NewPeer that failed: nobody seals them.
EverySendReturns ==
  \A m \in Post :
    m \in inFlight ~> \/ m \notin inFlight
                      \/ signalDone /\ m.from \in refused

\* A peer that says it has left is eventually terminated, unless it is one
\* that the conference never let in.
LeaversAreRemoved ==
  \A q \in Peer :
    LeftTheCall(q) \in Pending ~> q \in sealed \cup refused

\* The watcher of a track whose publishers have ended ends, whether the
\* conference learns about the track or ends before.
WatchersEnd ==
  \A o \in Track : trackState[o] = "done" ~> trackState[o] = "reported"

-----------------------------------------------------------------------------
(* What comments of the code say and the code does not do: TLC refutes     *)
(* each of these.  The README tells how, and which of them a run keeps.    *)

\* channel/sink.go says that a peer is isolated from others and can't
\* influence their state: a message terminates its sender at most.
PeersAreIsolated ==
  [][Len(peerMessages') < Len(peerMessages) =>
       sealed' \ sealed \subseteq {Head(peerMessages).from}]_vars

\* sink.go says that senders that wait when a sink is sealed unblock either
\* way; the sink of a connection whose NewPeer failed is never sealed, and a
\* callback of it that waits when the conference ends waits for ever.
CallbacksNeverHang ==
  \A m \in Post : m \in inFlight ~> m \notin inFlight

\* track.go says that Stop stops the track and all related publishers.  A
\* publisher looks whether it was told to stop between two packets only.
StoppedTracksEnd ==
  \A o \in Track : trackState[o] = "stopping" ~> trackState[o] # "stopping"

\* tracker.go says that the watcher informs the conference that its track is
\* gone: the report of one track stops no other.
ReportsConcernOneTrack ==
  [][\A o, x \in Track :
       /\ trackState[o] = "done" /\ trackState'[o] = "reported"
       /\ x # o
       => trackState'[x] = trackState[x]]_vars

\* state.go says that removeParticipant removes the streams of the
\* participant: as long as the conference goes on, the metadata is that of
\* participants it has.
StreamsLeaveWithTheirParticipant ==
  \A s \in StreamID :
    ~signalDone /\ streamsMetadata[s] # NoID =>
      IsParticipant(streamsMetadata[s])

\* peer_message_processing.go says that everyone is informed about a track
\* that has been published.
PublishedTracksAreAnnounced ==
  [][\A t \in TrackID, q \in Peer :
       /\ ~Published(t) /\ Published(t)'
       /\ Current(q) /\ dataChannel[q]
       /\ trackOwner'[publishedTracks'[t]] # owner[q]
       => t \in announced'[q]]_vars

=============================================================================
