# Verification of the SFU

TLA+ specifications of the SFU in this repository (Go, `cmd/sfu`, `pkg/`), their
TLC configurations, and TLAPS proofs. The specifications cover what is hard to
see in the code and harder to test: goroutines that meet at channels and
mutexes, participants that leave and come back while their old messages are
still on their way, publishers that stall, and the ends of all of these.

Paths below are relative to `pkg/`.

## The system

| Component | State | Operations | Interacts with |
| --- | --- | --- | --- |
| Router (`routing/router.go`) | `conferenceSinks` | one loop over To-Device events; creates conferences, forwards events, forgets conferences that have ended | sync callback (unbuffered channel), conferences (unbuffered channel and `done`) |
| Conference loop (`conference/*.go`) | tracker, `streamsMetadata`, `peerMessages` | one `select` over peer messages, Matrix events and stopped tracks | all below |
| Tracker (`conference/participant/tracker.go`) | participants, published tracks | add, remove, publish, subscribe; one watcher goroutine per track | called by the loop only |
| Message sink (`channel/sink.go`) | `sealed` | `Send` (blocks), `Seal` | callbacks of a peer send to the loop |
| Peer (`peer/`) | Pion connection, data channel | `NewPeer`, `Terminate`, SDP, data channel; callbacks, among them the one that makes offers | Pion, client, loop |
| Matrix worker (`conference/matrix_worker.go`) | queue of 128 | send without blocking, drop when full | homeserver |
| Published track (`conference/track/`) | publishers by layer, subscriptions by subscriber, `stopPublishers`, `done` | publish a layer, subscribe, unsubscribe, stop; a goroutine per publisher, per subscription, and one that waits for all publishers | loop, publishers, subscriptions |
| Publisher (`conference/publisher/publisher.go`) | remote track, subscriptions | reader goroutine | status observer, subscriptions |
| Status observer (`conference/publisher/status.go`, `worker/worker.go`) | `stalled`, two channels | packet, timeout, stop | reader, event loop of the track |
| Heartbeat (`conference/participant/heartbeat.go`) | pong channel | ping, retry, timeout | data channel, sink |
| Subscription, rewriter (`conference/subscription/`) | RTP sender, counters | RTCP reader, worker that rewrites packets | publisher, Pion |
| Signaling, WebRTC set-up, configuration, telemetry, logging, profiling | | | |

What is hard, and what makes each part correct:

- **Router.** One goroutine serves all conferences, and a conference ends by
  itself. A conference that runs must be reachable under its ID, an invite
  must not be lost when it meets a conference that ends, and no conference may
  hold up the events of the others.
- **Conference.** Everything is keyed by the participant's ID (user, device,
  call) and by track and stream IDs, all of which come back with another
  meaning: a rejoined participant has a new peer, a republished track a new
  object. Messages and reports of the old ones may still arrive. The tracker
  must keep the new ones whole; no goroutine may wait for ever on a loop that
  has returned; what participants are told must be there.
- **Published track.** Stalls, recoveries, ends, layer changes, subscriptions
  and unsubscriptions run in different goroutines under one mutex, but some
  tests are made before it is taken. Each subscription must be fed by the
  publisher of its layer and by no other, and what has ended must be gone.
- **Status observer.** The timer races packets, and channels of one element
  drop notices. No silence and no recovery may be missed or told twice.
- **Heartbeat.** Timeouts race late pongs, and both race the end of the
  session, which closes the pong channel. That must be closed once and not used
  afterwards, every goroutine must end, and who is silent must leave.
- **Negotiation.** Offers are made by a callback, sent by the loop, and cross
  with those of the client. Unless an answer is under way both sides must agree,
  and a track that was added must reach the client.
- **Subscription, rewriter.** Counters wrap, packets come late or are dropped
  across a change of layer, and three goroutines may unsubscribe at once. What
  is written must be one stream, and the subscription must end once, as a whole.

The hazards, each at its line, are listed in `PROJECT.json`.

## Modules

| Module | Models | State | Actions |
| --- | --- | --- | --- |
| `Router` | `routing/router.go` | `conferenceSinks` as in the code; `status` of each stage abstracts the conference's loop; `event` is the argument of `handleMatrixEvent` | one per branch of `handleMatrixEvent`; `ForgetConference` leaves the event in place, which is the recursive call |
| `Conference` | loop, tracker, sink, Matrix worker, peers' callbacks | the maps of the tracker and the loop, with explicit incarnations `Peer` and `Track` behind the IDs; `inFlight` holds messages between the two steps of `Send` | one operator per handler, named as in the code; `LoopStep` is the `select` with the test for participants after it |
| `PublishedTrack` | a video or audio track, its publishers and subscriptions | fields of `PublishedTrack`, `Publisher` and `trackSubscription`; `call` is a method between its `isClosed` test and the mutex; `forwarder` is the goroutine of an audio track | one per critical section, and one per step without the mutex |
| `SimulcastLayers` | `track/simulcast.go`: which layer a subscriber gets | | `calculateDesiredLayer`, `getOptimalLayer`, which `PublishedTrack` uses |
| `VideoSubscription` | `subscription/video.go` with its worker | the worker's queue, the positions of the goroutines that may unsubscribe (`at`), the mutex of the track | one per step of `Unsubscribe`, of the RTCP reader and of the receiver of its requests; `WriteRTP` and `handlePacket` at the two ends of the queue |
| `Rewriter` | `subscription/rewriter/`; part of `VideoSubscription` | `forwardingState` and `latestOutgoing`, each counter with its width; `origin` and `newest` are the true identifiers, which the code does not know | `ProcessIncoming`, with `process`, `reset` and `ExpandCounter` as functions |
| `Renumbering` | what a rewriter promises, with numbers that never wrap | as in `Rewriter`, without its counters of incoming packets | `Continue`, `Switch`; `Rewriter` implements it (`Renumbers`) |
| `Heartbeat` | `participant/heartbeat.go`, with what it needs of peer, sink and loop | the goroutine, pong channel, data channel and sink of each session of one participant; the loop's queue | one per step of the goroutine, of the callbacks and of the loop |
| `Negotiation` | offers and answers: `peer/peer.go`, `peer/webrtc_callbacks.go`, `conference/peer_message_processing.go` | signaling states of the connection and the client, the offer under way in the callback, both directions of the data channel, the loop's queue | one per step of `onNegotiationNeeded` and of the loop; the steps of Pion and of the client are external |
| `StatusObserver` | observer and worker | the two channels, the flag, the goroutines' positions | one per case of the `select`, per send, and per half of `stop` |
| `ConferenceProofs`, `RouterProofs`, `PublishedTrackProofs`, `StatusObserverProofs`, `VideoSubscriptionProofs`, `RewriterProofs`, `HeartbeatProofs`, `NegotiationProofs` | | | theorems; those about `SimulcastLayers` are in `PublishedTrackProofs` |
| `MCConference`, `MCPublishedTrack`, `MCRouter`, `MCVideoSubscription`, `MCHeartbeat`, `MCNegotiation` | | | constants and symmetry of the TLC instances; `StatusObserver` has numbers only and needs none |

How data is abstracted:

- A participant is an ID; a peer, a track object, a publisher or a subscription
  is a model value. A message has its kind, the peer that sent it, and the
  track or streams it names. SDP, candidates and payloads are not represented;
  where they decide something (an offer is refused, `AddTrack` fails), the model
  chooses. A packet is its SSRC and identifiers. The size of a picture is the
  sum of width and height, which is all that `calculateDesiredLayer` uses; its
  ratio, a `float32` in the code, is compared as integers.
- The metadata of a stream is the participant that described it last, which is
  what tells whether it is there and whose it is. Muting is in
  `PublishedTrack`.
- What a participant is told over its data channel is `announced`, the set of
  tracks last sent. The content of Matrix messages is not kept, their order is.
- `onCandidates`, `JoinedTheCall`, `Pong` and answers to offers change nothing
  in `Conference` and would be stuttering steps; `Pong` is in `Heartbeat`, and
  offers and answers are in `Negotiation`. `ICEGatheringComplete` is
  `processNewICECandidateMessage`: both queue candidates.
- In `Conference` the inner life of a track is `trackState`; adding a layer to
  a track that exists leaves it unchanged. `PublishedTrack` has the inner life.
- `PublishedTrack` uses the object of a publisher or of a video subscription
  again once nothing can refer to it, so that runs are of unlimited length: the
  objects bound the number alive at a time, not in total. The entry of an audio
  subscription stays until its subscriber unsubscribes (`audio.go:44-54`), even if
  its connection has ended, so these objects are used once.
- `VideoSubscription` composes with `PublishedTrack` at `RTCPEnds` and
  `ForgetSubscription`: what the latter takes in one step each, it takes apart
  into the steps of `Unsubscribe` and of the RTCP reader. It has the part of the
  published track that matters: its mutex and its entry for the subscription.
- `Heartbeat` and `Negotiation` have the part of `Conference` that they need, for
  one participant: `Heartbeat` several sessions, `Negotiation` one. In `Heartbeat`
  others come and go, so that the conference may end or go on whenever the
  participant leaves; in `Negotiation` they appear as tracks.
  A description in `Negotiation` is the set of tracks that it offers; what the
  client itself sends makes no difference there.
- The connection of a `NewPeer` that failed after its callbacks were set
  (`peer.go:57-67`) is `refused` in `Conference` and `Heartbeat`: it is not in
  the tracker, nobody closes it or seals its sink, and its callbacks may post
  whatever those of a participant may, on behalf of the participant's ID.
- In `Conference` peers and tracks are used once, and their number bounds the
  run. Each instance has one peer more than participants, so that someone can
  rejoin, or two track objects, so that a track can be republished.

`Seeded fault:` operators stand before the definition they replace. Each is a
plausible bug, for example a forgotten removal or a test before a decrement
instead of after it. Used in place of the definition, TLC must find the
property that the fault is meant for violated: `PROJECT.json` lists the pairs.

## Runs

Each `.cfg` is checked with `tlc -config <name>.cfg <module>`.

| Run | Module | Shows |
| --- | --- | --- |
| `ConferenceTracks` | `MCConference` | Joining, leaving, rejoining, publishing and subscribing: `CurrentPeersAreOpen`, `PublishedTracksAreOwned`, `SubscribersAreCurrent`, `EndedConferenceIsEmpty`, `MessagesConcernTheirSender` |
| `ConferenceMetadata` | `MCConference` | Offers and metadata: `TypeOK`, `AnnouncedTracksAreAvailable`, `SignalingEndsWithHangup` |
| `ConferenceLiveness` | `MCConference` | `EverySendReturns`, `LeaversAreRemoved`, `WatchersEnd` |
| `RouterEvents` | `MCRouter` | `TypeOK`, `RunningConferencesAreRegistered`, `InvitesAreNotLost`, `EventsAreHandled` |
| `TrackSimulcast` | `MCPublishedTrack` | Two layers: `FedByItsLayer`, `PublishersAreRegistered`, `TrackEndsWithItsReaders` |
| `TrackSingle` | `MCPublishedTrack` | Video without layers and audio, two subscribers: `TypeOK`, `EndedSubscriptionsAreGone` |
| `ObserverReports` | `StatusObserver` | `TypeOK`, `ReportsAlternate`, `SilenceIsReported`, `RecoveryIsReported`, `StoppedWorkerReturns` |
| `Subscription` | `MCVideoSubscription` | `TypeOK`, `RemovedOnce`, `Renumbers` (the refinement), `RewriterIsUsedWell`, `SubscriptionEnds` |
| `Heartbeat` | `MCHeartbeat` | `TypeOK`, `PongsFindTheirChannelOpen`, `HeartbeatsEnd`, `SilentParticipantsLeave` |
| `Negotiation` | `MCNegotiation` | `TypeOK`, `StableSidesAgree`, `SubscriptionsAreNegotiated` |
| `RouterStart`, `TrackUnsubscribe` | `MCRouter`, `MCPublishedTrack` | Expected violations, see "Where the code and its comments disagree" |

### Bounds

- `ConferenceTracks`: two participants, three peers, one track ID with two
  objects. The hazards are about an old and a new incarnation of one
  participant or one track, and a second participant who watches; a third
  participant would be another watcher. One callback in `Send` and one queued
  message (`MaxInFlight`, `PeerQueueCap`) suffice for a message to be overtaken
  by any number of Matrix events and reports; the late `LeftTheCall` of a
  connection that is closed comes on top.
- `ConferenceMetadata`: one track object, all declarations of one stream or
  none; a Matrix queue of one element is both empty and full. Candidates, which
  use that queue the way answers do, are left to `ConferenceLiveness`; the
  theorem `HangupComesLast` covers both.
- `ConferenceLiveness`: two peers, two callbacks in `Send`, so that they
  compete for the one place in the queue. No symmetry, as TLC requires.
- `RouterEvents`: two IDs and the empty one, three stages, so that an ID is
  used again after its conference has ended while another one runs.
- `TrackSimulcast`: two layers, two publishers, one subscriber who prefers the
  high layer: the low one is used until the high one is there, and after it
  stalls. `StatusCap` of one event under way is the capacity in the code.
- `TrackSingle`: the track is audio or video; one publisher runs and one takes its place; two subscribers
  with two subscriptions, of which those to a video are used again; two events
  under way.
- `ObserverReports`: channels of two elements, where the code has one: this has
  all interleavings of one element and those of a second event behind it.

- `Subscription`: sequence numbers of 3 bits instead of 16 and timestamps of 6
  instead of 32, expanded to 6 and 12 as 16 is to 32 and 32 to 64; true numbers
  6, 7 and 8 of two layers, so that both counters wrap within a layer, with a
  packet from before the wrap that arrives after it. Two of a frame's packets
  share a timestamp. Four packets allow a switch, one that comes late, and a
  switch back. A queue of two is empty, full or has a packet of each layer.
  `RewriterRenumbers` is the proof for the real widths and any packets.
- `Heartbeat`: two sessions, each of which joins or is refused, a queue of one
  message, and a conference that may end when the participant leaves. Pongs, failures and the number of beats are not
  bounded.
- `Negotiation`: two tracks, so that one is added while another is negotiated;
  three requests add both and remove one, and two offers of the client may cross
  two of the peer. A queue of one message makes every sender wait.

Deadlock checking is off throughout: peers and clients may stop doing anything,
a conference ends, and a process that panics has no further steps.

### Fairness

Liveness is checked under weak fairness of the goroutines that can run: Go's
scheduler runs them. Strong fairness stands for two guarantees of channels:
`select` chooses at random among what is ready, so a branch that is ready again
and again is taken, and senders queue at a channel in order of arrival. Timers
fire. Nothing is assumed of clients, peers and the homeserver; no joining,
leaving, publishing or sending is fair, nor is the Matrix worker, whose send may
hang.

Nor is any fairness assumed of the goroutines that read media: a publisher's
reader and the forwarder of an audio track look at `stop` between two packets only
(`publisher.go:62-68,135`, `track_handler.go:42-59`), and the read has no deadline. `Stop`
does not imply that the packets end: `RemovePublishedTrack` goes by the track's ID
and may stop a track that was published again and is live
(`peer_message_processing.go:44-47`, `tracker.go:156`), and `AddPublisher` may have added
the live track of another participant (`tracker.go:104`). So the models promise
nothing about a track just because it was stopped. `TrackEndsWithItsReaders` and
`WatchersEnd` start where the readers have ended; that they do end after `Stop` is
refuted below (`StopEndsTheTrack`, `StoppedTracksEnd`).

`EverySendReturns`, `LeaversAreRemoved` and
`EndedConferenceIsEmpty` name the connections that a failed `NewPeer` leaves as an
exception: nobody seals their sinks, so that a callback of theirs that waits when
the loop returns waits for ever (`CallbacksNeverHang` below). For every other
connection they hold without an exception.

`Heartbeat` has strong fairness for the message of a timeout only, which waits
at the queue. Nothing is assumed of the client: `SilentParticipantsLeave` says what
follows *if* from some time on no further pong begins to be delivered. Then the
session does not stay the participant's: the main loop removes it, unless three
of its pings could not be sent, which ends the heartbeat without a timeout. That
the goroutine has ended is not enough. `Negotiation` assumes that the client handles what
it is sent: without a client that answers nothing can be negotiated. Its
`Polite` client gives up its own offer when it gets one of the peer.

## Proofs

`tlapm` checks all steps of the eight `...Proofs` modules, for any participants,
peers, sessions, tracks, layers, IDs, events, packets, widths and capacities that
satisfy the module's assumption on its constants (`ConferenceAssumption`,
`RouterAssumption`, `RewriterAssumption`, `TrackAssumption`, `ObserverAssumption`,
`SubscriptionAssumption`, `HeartbeatAssumption`, `NegotiationAssumption`: distinct
null values, types, the order of the widths; TLC evaluates them in every run).
Every invariant and every action property of a run is proved.

Each module follows the same pattern: `IInv == TypeOK /\ Inv` with an `Inv` that
adds to the run's invariants what makes them inductive, one lemma per action or
group of actions, `...Invariance` (`Spec => []IInv`), and one theorem for each
property. What follows says what `Inv` adds and why.

**Conference.** `Invariance`. `Inv` adds:

- `PeersAreAccountedFor`: every peer that was created is current, or terminated
  with its sink sealed, or left behind by a failed `NewPeer`. No handler may drop a
  peer from the tracker and leave it open. Needed for `EndedConferenceIsEmpty`:
  when no participant is left, every callback that waits in `Send` can be refused,
  save those of the connections left behind. It is the lemma `PlainRemoval` that
  shows it of a removal.
- `SendersAreKnown`: who waits in `Send` was created, so that a peer that is
  about to join has sent nothing yet. It does not say that senders are current:
  `Send` tests the sink only (`sink.go:41`).
- `SealedPeersWereCreated`: a peer that joins cannot be sealed already.
- `NewTracksAreIdle`, `TracksHaveIDs`: a track object that is taken has no
  subscriptions left over; one that has been taken keeps its ID and owner.
- `LoopEndsEmpty`: the loop returns only without participants.

The proof goes by handler: types first (`TypeStep`), then the invariant
(`InvStep`), with `Removal` as the common lemma of everything that removes a
participant. From `IInv` follow `TypeCorrect`, `PeersOpen`, `TracksOwned`,
`SubscribersCurrent` and `EndIsClean`. Two action properties follow step by step:
`HangupComesLast` (`SignalingEndsWithHangup`) and `PeersSpeakForThemselves`
(`MessagesConcernTheirSender`): the only message that terminates a peer is
`LeftTheCall`, and it terminates the peer that the tracker has for its sender's
ID, which by `CurrentPeersAreOpen` was created for that ID.

`AnnouncementsHold` proves `AnnouncedTracksAreAvailable`. Everything that takes a
track or a description away has to tell those who know of it:

- Removals tell everyone but the one who goes, whose data channel goes with it
  (`OthersAreTold`); a rejoin tells them before the new peer exists, whose
  metadata can only add to what is left.
- Everything else in the handlers withdraws nothing (`SomeAreTold`), so whether
  it is told or not makes no difference to what others knew.
- The report of a track that stopped leaves out the *owner of the reported
  object*, while it removes whatever is published under that ID *now*
  (`ReportIsTold`). The owner must not have been told of a track by that ID. This
  needs `TracksAreTheirOwners`, an invariant of track objects and of the messages
  that announce them, and the hypothesis `TracksAreDistinct`: no two participants
  use the same track ID. Without it the property is false, see below.
- `SilentPeersKnowNothing`: a data channel that opens has nothing announced.

**Router.** `RouterInvariance` adds `StagesAreRegisteredOnce` (what is registered
was created for that ID), without which forgetting one ID could orphan a
conference of another. From it follow `RouterTypeCorrect`, `RunningRegistered`
and `InvitesArrive`.

**PublishedTrack.** `TrackInvariance`. The map of publishers and the event loops
agree in both directions (`ListedPublishersRun`, `RunningPublishersAreListed`),
which is `PublishersAreRegistered` and more. On top of that, `FedByItsLayer`
needs that a publisher that is done feeds nobody (it will be used again), that no
listed publisher feeds a subscription that has ended, and that a listed
subscription is listed for its own subscriber (`ListedSubscriptionsAreOwned`):
otherwise taking an ended subscription off the publisher of its layer might miss
the one that feeds it. From this follow `TrackTypeCorrect`,
`RunningPublishersRegistered`, `SubscribersGetOneLayer`, `NothingIsLeftBehind`
(of video subscriptions: an audio one stays listed, see below), and `NobodyIsFedTwice`: no subscriber gets the packets of two running publishers.
`CleanUpRescuesNobody` is a result about the code rather than a promise of it: the
loop at `track_handler.go:120-126`, which is to move the subscriptions of a
publisher that is gone, never moves any.

**Layers.** `OptimalLayerIsClosest`: whatever layers there are, the one chosen is
there and none is closer to the desired one. `BiggerPicturesGetNoLowerLayer`:
who asks for more is not meant for a lower layer. "Closest to the requested
resolution" (`track/simulcast.go:50`) means the nearest one below: the code takes the
highest layer whose picture (width plus height) is not bigger than the one
requested, and the low layer if all are, so a request just below the full size
gets the medium layer.

**StatusObserver.** `ObserverInvariance`: what has been sent alternates, starting
from what the receiver was told (`SentAlternate`), and a report is due if and
only if the receiver would otherwise not know the present state
(`ReportWhenNeeded`). `ReportsAreSound` follows for channels of any capacity; the
run has two elements.

**Rewriter.** `RewriterRenumbers` is `RewriterSpec => Renumbers`: the detailed
rewriter implements `Renumbering`. A step of the rewriter maps to `Continue` or
`Switch` if what it expands is what the sender meant, modulo the first packet
after the switch. The invariant says so: `CountersAreTrue` relates
`latestIncoming` to `newest` and `firstIncoming` to `origin`, which differ by one
multiple of the range. Its core is the lemma `ExpandsTruly` on `ExpandCounter`:
for a value less than half a cycle from the latest one the right one of three
cycles is chosen, which needs that no packet is older than the first one, as the
code does not count below zero. `Division`, `SmallRemainder` and `Multiples` are
the arithmetic of `\div` and `%` that the provers lack. `RewriterTypeCorrect`
says that no counter leaves its width. The theorems rest on `InOrder` and
`InRange`, the guards of `RewriterNext`. `InRange` says that a stream has less than 2^32 packets.
`InOrder` bounds how far packets may be out of order: they come in any order
within `Short` of the newest one, but none from before the first of its layer.
That is an assumption, and not one that networks keep or the code enforces: there
is no jitter buffer, and `rewriter.go:50-54` expects packets out of order. The theorem
says what the rewriter does as long as it holds; what happens to a packet that
is overtaken by the first one of its layer is below (`Renumbers`).

**VideoSubscription.** `SubscriptionInvariance`: one goroutine at most is past the
flag `stopped` (`OneStops`), and it closes the worker's channel before it removes
the track (`WorkerStopsFirst`). From it follow `SubscriptionTypeCorrect`,
`TrackRemovedOnce` and `WorkerIsStoppedFirst`.

`PacketsReachTheRewriterInOrder` is the refinement from the subscription to the
rewriter: `InOrder`, on which the proofs of `Rewriter` rest, is a guard of
`WriteRTP` at one end of the queue, and has to hold at the other end, when the
worker takes the packet. `QueueIsInOrder` says that the stream grows step by step
from what the rewriter has seen to what was accepted, packet by packet of the
queue, so that each packet is in order when its turn comes, also across a change
of the layer within the queue. `OneStreamUnlessTheFirstIsOvertaken` puts the two
together: from `WriteRTP` through the queue, the worker and the wrapping counters,
what is written is one stream. The hypotheses are part of both statements, and
the run satisfies each of them:

- `FirstIsNotOvertaken`, of the behaviour: the worker is given no packet that is
  older than the first one of its layer. Nothing guarantees that, and without it
  `Renumbers` is false, see below; how late other packets come (`Late`) does not
  matter. In the run `Late = 0`.
- `FramesInOrder`, of the packets: within a stream timestamps do not fall as
  sequence numbers rise, which encoders guarantee.
- `CountersLast`, of the behaviour: the counters do not exceed the range of
  `InRange`, that is, fewer than 2^32 packets and 2^64 ticks; in the run
  `MaxPackets` sees to it.

**Heartbeat.** `HeartbeatInvariance` adds `SessionsEndAsAWhole`: the sink of a
session and its channel of pongs are closed in the same step, and not as long as
the session is current. Nothing weaker keeps the loop from sending on a closed
channel: pongs of old sessions may be queued, and what the loop looks up is the
session of the ID. From it follow `HeartbeatTypeCorrect`, `PongsArriveSafely` and
`SessionsEndCompletely`, for any number of sessions.

**Negotiation.** `NegotiationInvariance` follows the offer of the connection
around: callback, loop's queue, data channel, client, data channel, loop's queue.
It is at one place at most (`OneInEachQueue`, `OneOffer`), it arrives as it was made
(`OfferIsKept`), and while it is anywhere the connection waits for its answer
(`OfferIsAwaited`). That makes `StableSidesAgree` inductive, which says that the
two sides agree *unless* the connection waits for an answer; an answer that the
loop applies was given to the very offer it completes. From it follow
`NegotiationTypeCorrect`, `SidesAgree`, `AnswersAreAwaited` (no answer is taken for
one to another offer) and `OffersComeOneByOne` (the callback sets no offer while
another one waits), with a polite client or another.

**Only model-checked:** liveness (`EverySendReturns`, `LeaversAreRemoved`,
`WatchersEnd`, `EventsAreHandled`, `TrackEndsWithItsReaders`, `SilenceIsReported`,
`RecoveryIsReported`, `StoppedWorkerReturns`, `SubscriptionEnds`, `HeartbeatsEnd`,
`SilentParticipantsLeave`, `SubscriptionsAreNegotiated`), as fairness and `ENABLED`
are out of the prover's reach. The two expected violations are counterexamples, for
which TLC is the tool.

## Where the code and its comments disagree

Two runs keep a counterexample:

| Run | Statement | What happens |
| --- | --- | --- |
| `RouterStart` | `conference/start.go:34`, "Starts a new conference or fails and returns an error." | The first offer is refused; `start.go:70` returns `nil, nil`; the router registers the stage and waits for ever with the next event for it, and with all that come after. |
| `TrackUnsubscribe` | `track/track.go:204-206`, a subscription to `LayerNone` has no publisher | `Subscribe` tests for it, `Unsubscribe` (line 270) does not. |

The following are stated in the last section of the modules and are refuted as
well. To see a counterexample, put the name in place of the properties of the
given configuration (as `PROPERTIES` and without symmetry if it is temporal):

| Statement | Configuration | What happens |
| --- | --- | --- |
| `PeersAreIsolated` | `ConferenceTracks` | `channel/sink.go:79`: a peer "can't influence the state of other peers directly". A participant rejoins; the callback of its old connection has passed the test in `Send` before the sink was sealed; its `LeftTheCall` removes the new peer. `MessagesConcernTheirSender` holds: it is always the same ID's. |
| `SessionsEndThemselves` | `Heartbeat` | The same from the view of one participant. |
| `PongsAreOfTheSession` | `Heartbeat` | `conference/config.go:4-6`: a participant that does not answer is considered to have left. A pong of the old session counts for the new one. |
| `HeartbeatsLast` | `Heartbeat` | `heartbeat.go:24-27`: the goroutine stops when the channel is closed or upon a timeout. It stops as well when three pings could not be sent (line 34), as the data channel opens late or was lost, and the participant is not watched any more. |
| `LostOffersAreRepeated` | `Negotiation` | `webrtc_callbacks.go:27`: the callback is called when a change requires renegotiation. An offer that found no open data channel is lost (`peer_message_processing.go:109`); the connection waits for the answer and calls no more. |
| `SubscriptionsAreNegotiated` | `Negotiation` with `Polite = FALSE` | Offers cross; neither side gives up its own, and both wait. Nothing in the code rolls an offer back. |
| `Renumbers` | `Subscription` with `Late = 1` | `rewriter.go:12-15`: `latestOutgoing` is the highest identifier. The packet before the very first one arrives after it and gets number -1, that is 2^32 - 1, which stays the highest: the next switch starts over from 1. After a later switch a packet that is late by two or more gets a number that the old layer has used. |
| `AnnouncedTracksAreAvailable` | `ConferenceMetadata` with `TracksOf` giving `t1` to both, two track objects, and without `TracksAssumption` | `peer_message_processing.go:46` takes the track by its ID. `a` leaves, its track is removed from the tracker, `b` publishes one with the same ID, and `a`, which has rejoined, is told. Then the report of the old object removes the track of `b` and tells everyone but `a`. |
| `CallbacksNeverHang` | `ConferenceLiveness` | `channel/sink.go:58-64`: when the sink is sealed, senders that wait unblock. `NewPeer` fails at the answer, after it has set the callbacks; nobody has the new connection, so nobody seals its sink. The conference ends with a callback of it waiting on the queue. |
| `StoppedTracksEnd` | `ConferenceLiveness` | `track/track.go:164-165`: "Stops the published track and all related publishers". The reader of a publisher waits for a packet and looks at `stop` after it only; the model lets it wait. |
| `StopEndsTheTrack` | `TrackSimulcast` | The same in the track: after `Stop` its publishers need not end, nor `done` be closed. |
| `EndedSubscriptionsAreForgotten` | `TrackSingle` with `FairSpec`, `Kinds = {"audio"}` and no symmetry | `track/subscription.go:41`: "If we got there than the subscription has stoppped. Remove it from the list." The code does so for video only. The goroutine of an audio subscription ends (`subscription/audio.go:44-54`) and the subscription stays in the map. |
| `ReportsConcernOneTrack` | `ConferenceTracks` | A track is republished under its ID before the watcher of the first is heard: the report removes the second. |
| `StreamsLeaveWithTheirParticipant` | `ConferenceMetadata` | Streams without a published track keep their metadata when their participant leaves. |
| `PublishedTracksAreAnnounced` | `ConferenceMetadata` | A track without metadata is left out of the announcement. |
| `NoConferenceWithoutID` | `RouterStart` | Events that lack an ID are not ignored (`router.go:82`) and use the empty one. |
| `StopEndsTheWorker` | `ObserverReports` | `worker/worker.go:69-70`: "The worker will stop once the channel is closed". `status.go:56` closes `statusCh` at once, while the worker still has a notice or a timeout to handle: it sends on a closed channel. |
| `IsStalledTellsTheStatus` | `ObserverReports` | `IsStalled` reads a copy of the flag (`status.go:47`). |
| `DoneMeansStopped` | `TrackUnsubscribe` | `AddPublisher` has passed `isClosed` when the last publisher ends. |
| `LiveTracksAreRead` | `TrackUnsubscribe` | `ReplaceTrack` for a publisher whose reader has ended, or ends with the old track. |
| `SubscribersAreFed` | `TrackUnsubscribe` | The layer's publisher was replaced by a new one; `currentLayer` is still that layer, so `Subscribe` (line 203) finds nothing to do, and nobody feeds the subscription. |
| `SubscriptionsOutliveTheirPublisher` | `TrackUnsubscribe` | The cleanup moves the subscriptions of a publisher that remains (`track_handler.go:120-126`). |
| `OrphansHaveNoChoice` | `TrackUnsubscribe` with the layers medium and high | A stalled publisher's subscriptions get no layer although the other one is live. |
| `OpenSubscriptionsAreListed` | `TrackUnsubscribe` with `Layer = {"None"}` and two subscriptions | The goroutine of the old subscription deletes the entry of the new one. |
| `SubscriptionsEndWithTheTrack` | the same with `FairSpec` and no symmetry | The subscription that is not listed is not ended. |
| `SubscribeFindsPublisher` | `TrackUnsubscribe` with `Layer = {"None"}` | The last publisher is gone before `done` is closed. |
| `AudioTracksHaveNoPublishers` | `TrackSingle` | `track/track.go:38-41`: what is not a video has no video data. An audio track that is published again, under the same ID, gets a video publisher (line 160), which feeds nobody. |

The model has the code's behaviour in each case, so the properties that hold do
so in spite of it.

## Not modelled

- Signaling client (`signaling/`): requests to the homeserver. The sync callback
  is `Receive` of `Router`; sending is `MatrixWorkerSends` of `Conference`.
- WebRTC configuration, `config`, telemetry, logging, profiling, `main`: input and
  output at the start, no state that the conference depends on. `config.go:107-113`
  is worth a note: it joins the tests of both bounds of an interval with `&&`, so
  no value is ever out of range.
- SDP, ICE, DTLS and RTP are Pion's. `Negotiation` has the signaling states of a
  connection and when it calls `onNegotiationNeeded`, as external definitions.
- `Negotiation` has one session of one participant. The offer of an invite that
  comes again (`Reoffer` of `Conference`) and offers of an old session that reach
  the new one's data channel are left out.
- `rewriter/vp8.go` is called by nothing; neither are the operations of
  `TruncatedPacketIdentifiers`.
- Time. A timer may fire whenever it runs, which includes every real timing.

## Plan

Done: all components that have state are modelled, and all safety properties of
the runs are proved.

Left, where the models allow more to be proved than the runs ask:

1. `Conference`: that no queue exceeds its capacity, and that a peer is terminated
   only once and never current again.
2. `Router`: what a conference that failed to start holds up, as an action
   property.
3. Safety lemmas behind the liveness properties of `PublishedTrack` and
   `Heartbeat`, as `EndIsClean` is one behind `EverySendReturns`.

An abstract life cycle of a track (new, running, stopping, done), for
`PublishedTrack` to implement, was considered and left out: a call that has passed
`isClosed` may still add a publisher after the end, so what it would promise is
what `TrackEndsWithItsReaders` says.
