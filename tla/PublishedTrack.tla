--------------------------- MODULE PublishedTrack ---------------------------
(***************************************************************************)
(* A published track.  A video track has publishers, one for each          *)
(* simulcast layer, and each of its subscriptions is fed by one of them.   *)
(* An audio track has a goroutine that forwards its packets to all.        *)
(*                                                                         *)
(* Four kinds of goroutines meet at the mutex of the track: the main loop  *)
(* of the conference, which calls the methods of the track one after the   *)
(* other; one event loop per publisher; one goroutine per subscription;    *)
(* and the one that waits for the publishers and then closes `done`.  A    *)
(* publisher has a reader besides, which takes packets off the remote      *)
(* track.  A step of this module is what one goroutine does while it has   *)
(* the mutex, or one step that it does without.                            *)
(***************************************************************************)
EXTENDS SimulcastLayers, FiniteSets

CONSTANTS
  Kinds,          \* "video", "audio" or both
  Layer,          \* the layers of the remote track
  Subscriber,     \* participants that may subscribe
  Publisher,      \* trackPublisher objects: one that is done is used again
  Subscription,   \* trackSubscription objects, in the same way
  NoPublisher, NoSubscription, NoSubscriber,
  FullSize,       \* the size of the picture, or zero if it is not known
  Sizes,          \* sizes that subscribers desire (bounds the model)
  StatusCap       \* events between the observer and the event loop

\* A remote track has simulcast layers or is a single track without RID.
ASSUME TrackAssumption ==
  /\ Kinds \subseteq {"video", "audio"}
  /\ Layer = {"None"} \/ (Layer \subseteq Simulcast /\ "audio" \notin Kinds)
  /\ NoPublisher \notin Publisher
  /\ NoSubscription \notin Subscription
  /\ NoSubscriber \notin Subscriber
  /\ FullSize \in Nat /\ Sizes \subseteq Nat
  /\ StatusCap \in Nat

VARIABLES
  kind,           \* info.Kind
  forwarder,      \* audio: "none", or the goroutine is "reading" or "ended"
  publishers,     \* video.publishers
  layerOf,        \* the layer of each publisher ("None" before it exists)
  handler,        \* event loop: "unused", "running" or "cleaned"
  reader,         \* "unused", "reading", "outdated", "ended" or "lost"
  stalled,        \* the status observer's idea of the publisher
  status,         \* events for the event loop
  feeds,          \* publisher.subscriptions
  subscriptions,  \* the subscription of each subscriber
  subscriberID,   \* the subscriber of each subscription
  currentLayer,   \* trackSubscription.currentLayer
  subState,       \* "unused", "open", "closing" or "closed"
  muted,          \* metadata.Muted
  call,           \* the method that has passed the isClosed check
  stopPublishers, \* is the channel closed?
  waiter,         \* "waiting", "woken", "ended", or "done": done is closed
  panicked        \* the method that dereferenced a nil publisher

pubVars == <<publishers, layerOf, handler, reader, stalled, status>>
subVars == <<subscriptions, subscriberID, subState>>
feedVars == <<feeds, currentLayer>>
ctlVars == <<muted, call, stopPublishers, waiter, panicked>>
audioVars == <<kind, forwarder>>
videoVars == <<pubVars, subVars, feedVars, ctlVars>>
vars == <<audioVars, videoVars>>

Idle == [method |-> "none"]

Call == [method : {"Subscribe"}, id : Subscriber, size : Sizes]
          \cup [method : {"AddPublisher"}, layer : Layer]

TypeOK ==
  /\ kind \in Kinds
  /\ forwarder \in {"none", "reading", "ended"}
  /\ publishers \in [Layer -> Publisher \cup {NoPublisher}]
  /\ layerOf \in [Publisher -> Layer \cup {"None"}]
  /\ handler \in [Publisher -> {"unused", "running", "cleaned"}]
  /\ reader \in
       [Publisher -> {"unused", "reading", "outdated", "ended", "lost"}]
  /\ stalled \in [Publisher -> BOOLEAN]
  /\ status \in [Publisher -> Seq({"stalled", "recovered"})]
  /\ feeds \in [Publisher -> SUBSET Subscription]
  /\ subscriptions \in [Subscriber -> Subscription \cup {NoSubscription}]
  /\ subscriberID \in [Subscription -> Subscriber \cup {NoSubscriber}]
  /\ currentLayer \in [Subscription -> Layer \cup {"None"}]
  /\ subState \in [Subscription -> {"unused", "open", "closing", "closed"}]
  /\ muted \in BOOLEAN
  /\ call \in Call \cup {Idle}
  /\ stopPublishers \in BOOLEAN
  /\ waiter \in {"waiting", "woken", "ended", "done"}
  /\ panicked \in {"no", "Subscribe", "Unsubscribe"}

-----------------------------------------------------------------------------
(* What the methods read.                                                  *)

isClosed == waiter = "done"

PublisherOf(layer) ==
  IF layer \in Layer THEN publishers[layer] ELSE NoPublisher

Reads(p) == reader[p] \in {"reading", "outdated"}

InMap(p) == PublisherOf(layerOf[p]) = p

\* IsStalled reads a copy of the observer's flag that nobody writes.
isStalled(p) == FALSE

activeLayers ==
  {l \in Layer : publishers[l] # NoPublisher /\ ~isStalled(publishers[l])}

isSimulcast ==
  /\ kind = "video"
  /\ \E l \in Layer : publishers[l] # NoPublisher
  /\ PublisherOf("None") = NoPublisher

OptimalLayer(size) == getOptimalLayer(activeLayers, FullSize, size)

\* Seeded fault: the subscription stays with its old publisher.
AddedTo(s, p) == [feeds EXCEPT ![p] = @ \cup {s}]

\* The publishers' subscriptions when s leaves the publisher of its layer, if
\* there is one, and joins p.
Moved(s, p) ==
  LET old == PublisherOf(currentLayer[s]) IN
  [q \in Publisher |-> IF q = p THEN feeds[q] \cup {s}
                       ELSE IF q = old THEN feeds[q] \ {s} ELSE feeds[q]]

-----------------------------------------------------------------------------
(* The methods, called by the main loop until it calls Stop.               *)

\* The methods that test isClosed before they lock the mutex.
Enter(c) ==
  /\ call = Idle
  /\ ~stopPublishers
  /\ ~isClosed
  /\ call' = c
  /\ UNCHANGED <<pubVars, subVars, feedVars, muted, stopPublishers, waiter,
                 panicked>>

Returns ==
  /\ call' = Idle
  /\ UNCHANGED <<muted, stopPublishers, waiter>>

\* A subscriber that has a subscription may change its layer.
ChangeSubscription ==
  LET s == subscriptions[call.id]
      layer == OptimalLayer(call.size)
      change == isSimulcast /\ currentLayer[s] # layer
  IN
  /\ call.method = "Subscribe"
  /\ s # NoSubscription
  /\ IF change
     THEN /\ feeds' = Moved(s, publishers[layer])
          /\ currentLayer' = [currentLayer EXCEPT ![s] = layer]
     ELSE UNCHANGED feedVars
  /\ Returns
  /\ UNCHANGED <<pubVars, subVars, panicked>>

\* A new subscription is put into the map before its publisher is looked up,
\* which that of an audio track does not have.
NewSubscription ==
  LET layer == IF kind = "video" THEN OptimalLayer(call.size) ELSE "None"
      p == PublisherOf(layer)
  IN
  /\ call.method = "Subscribe"
  /\ subscriptions[call.id] = NoSubscription
  /\ \E s \in Subscription :
       /\ subState[s] = "unused"
       /\ subscriptions' = [subscriptions EXCEPT ![call.id] = s]
       /\ subscriberID' = [subscriberID EXCEPT ![s] = call.id]
       /\ subState' = [subState EXCEPT ![s] = "open"]
       /\ currentLayer' = [currentLayer EXCEPT ![s] = layer]
       /\ feeds' = IF kind = "video" /\ p # NoPublisher
                   THEN [feeds EXCEPT ![p] = @ \cup {s}] ELSE feeds
       /\ panicked' = IF kind = "video" /\ p = NoPublisher
                      THEN "Subscribe" ELSE panicked
  /\ Returns
  /\ UNCHANGED pubVars

\* AddTrack of the subscriber's connection fails.
SubscribeFails ==
  /\ call.method = "Subscribe"
  /\ subscriptions[call.id] = NoSubscription
  /\ Returns
  /\ UNCHANGED <<pubVars, subVars, feedVars, panicked>>

\* Another remote track of the layer: its publisher is to read that one.  A
\* reader is outdated as long as it waits for a packet of the old track.  One
\* that has ended does not start again: the new track is lost.
ReplaceTrack ==
  /\ call.method = "AddPublisher"
  /\ LET p == publishers[call.layer] IN
       /\ p # NoPublisher
       /\ reader' = [reader EXCEPT ![p] =
                       IF Reads(p) THEN "outdated" ELSE "lost"]
  /\ Returns
  /\ UNCHANGED <<publishers, layerOf, handler, stalled, status, subVars,
                 feedVars, panicked>>

\* Seeded fault: the layer may have a publisher already.
AddPublisherAnyway ==
  /\ call.method = "AddPublisher"
  /\ \E p \in Publisher :
       /\ handler[p] = "unused"
       /\ publishers' = [publishers EXCEPT ![call.layer] = p]
       /\ layerOf' = [layerOf EXCEPT ![p] = call.layer]
       /\ handler' = [handler EXCEPT ![p] = "running"]
       /\ reader' = [reader EXCEPT ![p] = "reading"]
  /\ Returns
  /\ UNCHANGED <<stalled, status, subVars, feedVars, panicked>>

\* It is also what happens to an audio track that comes again.
addVideoPublisher ==
  /\ call.method = "AddPublisher"
  /\ publishers[call.layer] = NoPublisher
  /\ \E p \in Publisher :
       /\ handler[p] = "unused"
       /\ publishers' = [publishers EXCEPT ![call.layer] = p]
       /\ layerOf' = [layerOf EXCEPT ![p] = call.layer]
       /\ handler' = [handler EXCEPT ![p] = "running"]
       /\ reader' = [reader EXCEPT ![p] = "reading"]
  /\ Returns
  /\ UNCHANGED <<stalled, status, subVars, feedVars, panicked>>

\* The map forgets the subscription, and the publisher of its layer must.
Unsubscribe(id) ==
  LET s == subscriptions[id]
      p == PublisherOf(currentLayer[s])
  IN
  /\ call = Idle
  /\ ~stopPublishers
  /\ s # NoSubscription
  /\ subState' = [subState EXCEPT ![s] = IF @ = "open" THEN "closing" ELSE @]
  /\ subscriptions' = [subscriptions EXCEPT ![id] = NoSubscription]
  /\ feeds' = IF kind = "video" /\ p # NoPublisher
              THEN [feeds EXCEPT ![p] = @ \ {s}] ELSE feeds
  /\ panicked' = IF kind = "video" /\ p = NoPublisher
                 THEN "Unsubscribe" ELSE panicked
  /\ UNCHANGED <<pubVars, subscriberID, currentLayer, muted, call,
                 stopPublishers, waiter>>

SetMetadata ==
  /\ call = Idle
  /\ ~stopPublishers
  /\ muted' = ~muted
  /\ UNCHANGED <<pubVars, subVars, feedVars, call, stopPublishers, waiter,
                 panicked>>

Stop ==
  /\ call = Idle
  /\ ~stopPublishers
  /\ ~isClosed
  /\ stopPublishers' = TRUE
  /\ UNCHANGED <<pubVars, subVars, feedVars, muted, call, waiter, panicked>>

-----------------------------------------------------------------------------
(* A publisher: its reader with the status observer, and its event loop.   *)

\* A packet is forwarded; the reader gets the track anew for the next one.
ReadNext(p) ==
  /\ reader[p] = "outdated"
  /\ reader' = [reader EXCEPT ![p] = "reading"]
  /\ UNCHANGED <<publishers, layerOf, handler, stalled, status, subVars,
                 feedVars, ctlVars>>

\* The reader is told to stop, or the track that it reads from ends, as any
\* may at any time.
ReaderEnds(p) ==
  /\ Reads(p)
  /\ reader' = [reader EXCEPT ![p] =
                  IF @ = "outdated" THEN "lost" ELSE "ended"]
  /\ UNCHANGED <<publishers, layerOf, handler, stalled, status, subVars,
                 feedVars, ctlVars>>

\* The observer reports a silence, and the packet that ends it.
Observe(p) ==
  /\ Reads(p)
  /\ Len(status[p]) < StatusCap
  /\ stalled' = [stalled EXCEPT ![p] = ~@]
  /\ status' = [status EXCEPT ![p] =
                  Append(@, IF stalled[p] THEN "recovered" ELSE "stalled")]
  /\ UNCHANGED <<publishers, layerOf, handler, reader, subVars, feedVars,
                 ctlVars>>

TakeStatus(p, event) ==
  /\ handler[p] = "running"
  /\ status[p] # <<>>
  /\ Head(status[p]) = event
  /\ status' = [status EXCEPT ![p] = Tail(@)]
  /\ UNCHANGED <<publishers, layerOf, handler, reader, stalled, subVars,
                 ctlVars>>

\* Unless muted, the subscriptions go to the low layer, if there is another
\* publisher that has it, or else to none.
handleStalledPublisher(p) ==
  LET low == PublisherOf("Low")
      switch == low # NoPublisher /\ low # p
      layer == IF switch THEN "Low" ELSE "None"
  IN
  /\ TakeStatus(p, "stalled")
  /\ IF muted
     THEN UNCHANGED feedVars
     ELSE /\ feeds' = [q \in Publisher |->
                         IF q = p THEN {}
                         ELSE IF switch /\ q = low THEN feeds[q] \cup feeds[p]
                         ELSE feeds[q]]
          /\ currentLayer' = [s \in Subscription |->
                                IF s \in feeds[p] THEN layer
                                ELSE currentLayer[s]]

recoverOrphanedSubscriptions(p) ==
  LET orphans == {s \in Subscription :
                    /\ \E id \in Subscriber : subscriptions[id] = s
                    /\ currentLayer[s] = "None"}
  IN
  /\ TakeStatus(p, "recovered")
  /\ feeds' = [feeds EXCEPT ![p] = @ \cup orphans]
  /\ currentLayer' = [s \in Subscription |->
                        IF s \in orphans THEN layerOf[p] ELSE currentLayer[s]]

\* The reader has ended.  The publisher leaves the map.  The subscriptions
\* that are moved then are those of a publisher that remains, to itself.
CleanUp(p) ==
  /\ handler[p] = "running"
  /\ ~Reads(p)
  /\ status[p] = <<>>
  /\ handler' = [handler EXCEPT ![p] = "cleaned"]
  /\ publishers' = [publishers EXCEPT ![layerOf[p]] = NoPublisher]
  /\ LET others == {l \in Layer \ {layerOf[p]} : publishers[l] # NoPublisher}
     IN  IF others = {}
         THEN UNCHANGED currentLayer
         ELSE \E l \in others :
                currentLayer' = [s \in Subscription |->
                                   IF s \in feeds[publishers[l]] THEN l
                                   ELSE currentLayer[s]]
  /\ UNCHANGED <<layerOf, reader, stalled, status, feeds, subVars, ctlVars>>

\* activePublishers has come down to zero.
Awaken(handlers, audio) ==
  waiter' = IF /\ waiter = "waiting"
               /\ audio # "reading"
               /\ \A p \in Publisher : handlers[p] = "unused"
            THEN "woken" ELSE waiter

\* Seeded fault: the counter is tested before it is decremented.
DoneTooLate(p) ==
  /\ handler[p] = "cleaned"
  /\ handler' = [handler EXCEPT ![p] = "unused"]
  /\ reader' = [reader EXCEPT ![p] = "unused"]
  /\ layerOf' = [layerOf EXCEPT ![p] = "None"]
  /\ stalled' = [stalled EXCEPT ![p] = FALSE]
  /\ feeds' = [feeds EXCEPT ![p] = {}]
  /\ waiter' = IF waiter = "waiting" /\ \A q \in Publisher :
                    handler[q] = "unused"
               THEN "woken" ELSE waiter
  /\ UNCHANGED <<publishers, status, subVars, currentLayer, muted, call,
                 stopPublishers, panicked>>

\* The remote track of an audio track ends, a write to one of the subscribers
\* fails, or the goroutine finds after a packet that it is to stop.
ForwardEnds ==
  /\ forwarder = "reading"
  /\ forwarder' = "ended"
  /\ Awaken(handler, forwarder')
  /\ UNCHANGED <<kind, pubVars, subVars, feedVars, muted, call,
                 stopPublishers, panicked>>

\* activePublishers.Done(), which wakes the goroutine that waits when the
\* last publisher is done.  Nothing refers to the publisher any more.
Done(p) ==
  /\ handler[p] = "cleaned"
  /\ handler' = [handler EXCEPT ![p] = "unused"]
  /\ reader' = [reader EXCEPT ![p] = "unused"]
  /\ layerOf' = [layerOf EXCEPT ![p] = "None"]
  /\ stalled' = [stalled EXCEPT ![p] = FALSE]
  /\ feeds' = [feeds EXCEPT ![p] = {}]
  /\ Awaken(handler', forwarder)
  /\ UNCHANGED <<publishers, status, subVars, currentLayer, muted, call,
                 stopPublishers, panicked>>

-----------------------------------------------------------------------------
(* The end of subscriptions and of the track.                              *)

\* All subscriptions are told to end, but stay in the map.
EndSubscriptions ==
  /\ waiter = "woken"
  /\ waiter' = "ended"
  /\ subState' = [s \in Subscription |->
                    IF /\ \E id \in Subscriber : subscriptions[id] = s
                       /\ subState[s] = "open"
                    THEN "closing" ELSE subState[s]]
  /\ UNCHANGED <<pubVars, feedVars, subscriptions, subscriberID, muted, call,
                 stopPublishers, panicked>>

CloseDone ==
  /\ waiter = "ended"
  /\ waiter' = "done"
  /\ UNCHANGED <<pubVars, subVars, feedVars, muted, call, stopPublishers,
                 panicked>>

\* Reading RTCP fails: after Unsubscribe, or as the subscriber is gone.
RTCPEnds(s) ==
  /\ subState[s] \in {"open", "closing"}
  /\ subState' = [subState EXCEPT ![s] = "closed"]
  /\ UNCHANGED <<pubVars, feedVars, subscriptions, subscriberID, ctlVars>>

\* Seeded fault: the publisher keeps the subscription.
ForgetInMapOnly(s) ==
  /\ kind = "video"
  /\ subState[s] = "closed"
  /\ subState' = [subState EXCEPT ![s] = "unused"]
  /\ subscriptions' =
       [subscriptions EXCEPT ![subscriberID[s]] = NoSubscription]
  /\ subscriberID' = [subscriberID EXCEPT ![s] = NoSubscriber]
  /\ currentLayer' = [currentLayer EXCEPT ![s] = "None"]
  /\ UNCHANGED <<pubVars, feeds, ctlVars>>

\* The end of processSubscriptionEvents, which knows the subscriber's ID.  The
\* goroutine of an audio subscription ends without a trace: the subscription
\* stays in the map until Unsubscribe.
ForgetSubscription(s) ==
  LET p == PublisherOf(currentLayer[s]) IN
  /\ kind = "video"
  /\ subState[s] = "closed"
  /\ subState' = [subState EXCEPT ![s] = "unused"]
  /\ feeds' = [q \in Publisher |-> IF q = p THEN feeds[q] \ {s} ELSE feeds[q]]
  /\ subscriptions' =
       [subscriptions EXCEPT ![subscriberID[s]] = NoSubscription]
  /\ subscriberID' = [subscriberID EXCEPT ![s] = NoSubscriber]
  /\ currentLayer' = [currentLayer EXCEPT ![s] = "None"]
  /\ UNCHANGED <<pubVars, ctlVars>>

-----------------------------------------------------------------------------
(* NewPublishedTrack starts the first publisher or the audio goroutine.    *)

Init ==
  /\ kind \in Kinds
  /\ forwarder = IF kind = "audio" THEN "reading" ELSE "none"
  /\ \E l \in Layer, p \in Publisher :
       LET First(q) == kind = "video" /\ q = p IN
       /\ publishers = [x \in Layer |->
                          IF x = l /\ First(p) THEN p ELSE NoPublisher]
       /\ layerOf = [q \in Publisher |-> IF First(q) THEN l ELSE "None"]
       /\ handler = [q \in Publisher |->
                       IF First(q) THEN "running" ELSE "unused"]
       /\ reader = [q \in Publisher |->
                      IF First(q) THEN "reading" ELSE "unused"]
  /\ stalled = [p \in Publisher |-> FALSE]
  /\ status = [p \in Publisher |-> <<>>]
  /\ feeds = [p \in Publisher |-> {}]
  /\ subscriptions = [id \in Subscriber |-> NoSubscription]
  /\ subscriberID = [s \in Subscription |-> NoSubscriber]
  /\ currentLayer = [s \in Subscription |-> "None"]
  /\ subState = [s \in Subscription |-> "unused"]
  /\ muted \in BOOLEAN
  /\ call = Idle
  /\ stopPublishers = FALSE
  /\ waiter = "waiting"
  /\ panicked = "no"

Body == \/ ChangeSubscription
        \/ NewSubscription
        \/ SubscribeFails
        \/ ReplaceTrack
        \/ addVideoPublisher

MainLoop == \/ \E c \in Call : Enter(c)
            \/ Body
            \/ \E id \in Subscriber : Unsubscribe(id)
            \/ SetMetadata
            \/ Stop

EventLoop(p) == \/ handleStalledPublisher(p)
                \/ recoverOrphanedSubscriptions(p)
                \/ CleanUp(p)
                \/ Done(p)

Reader(p) == \/ ReadNext(p)
             \/ ReaderEnds(p)
             \/ Observe(p)

\* A nil dereference ends the process.
Step(action) == panicked = "no" /\ action /\ UNCHANGED audioVars

Next ==
  \/ Step(MainLoop)
  \/ \E p \in Publisher : Step(EventLoop(p)) \/ Step(Reader(p))
  \/ Step(EndSubscriptions)
  \/ Step(CloseDone)
  \/ \E s \in Subscription : Step(RTCPEnds(s)) \/ Step(ForgetSubscription(s))
  \/ panicked = "no" /\ ForwardEnds

Spec == Init /\ [][Next]_vars

\* Goroutines that can run do.  Readers wait for packets, which nobody owes
\* them: not after Stop either, for they look at stopPublishers between two
\* packets only, and the main loop may stop a track whose publishing peer is
\* still connected and silent.
Fairness ==
  /\ \A p \in Publisher : WF_vars(Step(EventLoop(p)))
  /\ WF_vars(Step(EndSubscriptions))
  /\ WF_vars(Step(CloseDone))
  /\ WF_vars(Step(Body))
  /\ \A s \in Subscription :
       /\ WF_vars(Step(subState[s] = "closing" /\ RTCPEnds(s)))
       /\ WF_vars(Step(ForgetSubscription(s)))

FairSpec == Spec /\ Fairness

-----------------------------------------------------------------------------
(* Properties.                                                             *)

\* A publisher that is still in the map feeds only subscriptions of its own
\* layer.  So no subscriber gets the packets of two layers mixed, and
\* whoever takes a subscription off the publisher of its current layer has
\* really stopped the packets, whichever events moved it before.
FedByItsLayer ==
  \A l \in Layer :
    publishers[l] # NoPublisher =>
      \A s \in feeds[publishers[l]] : currentLayer[s] = l

\* No packets are written to a video subscription whose goroutine has ended,
\* also when a publisher that stalls or recovers moves it at that time, and
\* the map has no such subscription.
EndedSubscriptionsAreGone ==
  \A s \in Subscription :
    kind = "video" /\ subState[s] = "unused" =>
      /\ \A p \in Publisher : s \in feeds[p] => ~InMap(p)
      /\ \A id \in Subscriber : subscriptions[id] # s

\* A layer has the publisher whose event loop runs for it, and no other:
\* the cleanup, which deletes by layer, deletes no other publisher.
PublishersAreRegistered ==
  \A p \in Publisher : handler[p] = "running" <=> InMap(p)

\* The readers of the publishers, or the goroutine of an audio track, have ended.
NobodyReads ==
  /\ panicked = "no"
  /\ forwarder # "reading"
  /\ \A p \in Publisher : ~Reads(p)

\* A track that nobody reads any more, whether it was stopped or its remote
\* tracks have ended, is done, and the conference is told, unless one of its
\* layers is published again: no event loop and no counter keeps it alive.
TrackEndsWithItsReaders == NobodyReads ~> isClosed \/ ~NobodyReads

-----------------------------------------------------------------------------
(* What comments of the code say and the code does not do: TLC refutes     *)
(* each of these.  The README tells how, and which of them a run keeps.    *)

\* track.go says that `done` informs that all publishers of this track have
\* been stopped.
DoneMeansStopped == isClosed => \A p \in Publisher : ~Reads(p)

\* track.go says that Stop stops the track and all its publishers.
StopEndsTheTrack == stopPublishers ~> isClosed \/ panicked # "no"

\* subscription.go says that a subscription which has stopped is removed from
\* the list: the end of its goroutine is found at last.
EndedSubscriptionsAreForgotten ==
  \A s \in Subscription :
    subState[s] = "closed" ~> subState[s] # "closed" \/ panicked # "no"

\* track.go says that the publisher of an existing layer goes on with the
\* track that Pion fires for it after a renegotiation.
LiveTracksAreRead ==
  \A p \in Publisher :
    InMap(p) /\ reader[p] = "lost" => stopPublishers

\* track_handler.go says that subscriptions which are lost as their publisher
\* stopped go to any other available publisher.
SubscriptionsOutliveTheirPublisher ==
  \A id \in Subscriber :
    LET s == subscriptions[id] IN
    s # NoSubscription /\ currentLayer[s] # "None" /\ activeLayers # {} =>
      PublisherOf(currentLayer[s]) # NoPublisher

\* track_handler.go says that a subscription has no layer if there is no
\* other layer to switch to: all the publishers there are have stalled.
OrphansHaveNoChoice ==
  \A id \in Subscriber :
    LET s == subscriptions[id] IN
    s # NoSubscription /\ currentLayer[s] = "None" =>
      \A l \in activeLayers : stalled[publishers[l]] \/ status[publishers[l]] # <<>>

\* track.go says that active subscriptions are ended when the publishers have
\* stopped.
SubscriptionsEndWithTheTrack ==
  \A s \in Subscription :
    (\E id \in Subscriber : waiter = "woken" /\ subscriptions[id] = s)
      ~> subState[s] = "unused" \/ panicked # "no"

\* subscription.go says that the subscription that has stopped is removed
\* from the list: one that goes on stays there.
OpenSubscriptionsAreListed ==
  \A s \in Subscription :
    subState[s] = "open" => subscriptions[subscriberID[s]] = s

\* track.go says that a track which is not a video has no video data.
AudioTracksHaveNoPublishers ==
  kind = "audio" => \A p \in Publisher : handler[p] = "unused"

\* track.go says that Subscribe creates a subscription or updates the one that
\* there is if necessary: when it has returned, one of the publishers feeds it.
SubscribersAreFed ==
  [][/\ kind = "video"
     /\ call.method = "Subscribe" /\ call' = Idle /\ activeLayers # {}
     /\ subscriptions'[call.id] # NoSubscription
     => LET s == subscriptions'[call.id] IN
        \E p \in Publisher : handler[p] = "running" /\ s \in feeds'[p]]_vars

\* track.go says that a subscription to LayerNone has no publisher to be
\* removed from.
UnsubscribeFindsPublisher == panicked # "Unsubscribe"

\* simulcast.go says that without layers there is no simulcast: the only
\* publisher is the one without a layer.
SubscribeFindsPublisher == panicked # "Subscribe"

=============================================================================
