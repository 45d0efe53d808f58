------------------------- MODULE PublishedTrackProofs -------------------------
(***************************************************************************)
(* Proofs about PublishedTrack and the choice of a layer, for any layers,  *)
(* publishers, subscribers and subscriptions.                              *)
(***************************************************************************)
EXTENDS PublishedTrack, SequenceTheorems, TLAPS

-----------------------------------------------------------------------------
(* What the choice of a layer guarantees, for all sizes and layers.        *)

\* A desired layer is one of the three.
LEMMA DesiredLayerType ==
  ASSUME NEW full \in Nat, NEW desired \in Nat
  PROVE  calculateDesiredLayer(full, desired) \in Simulcast
BY DEF calculateDesiredLayer, Simulcast

\* The bigger the picture that a subscriber asks for, the higher the layer:
\* calculateDesiredLayer has no gap between its cases.
THEOREM BiggerPicturesGetNoLowerLayer ==
  ASSUME NEW full \in Nat, NEW small \in Nat, NEW big \in Nat, small <= big
  PROVE  Rank(calculateDesiredLayer(full, small))
           <= Rank(calculateDesiredLayer(full, big))
<1> DEFINE low == calculateDesiredLayer(full, small)
           high == calculateDesiredLayer(full, big)
<1>1. Rank("Low") = 0 /\ Rank("Medium") = 1 /\ Rank("High") = 2
  BY DEF Rank
<1>2. low \in Simulcast /\ high \in Simulcast
  BY DesiredLayerType
<1>3. CASE low = "Low"
  BY <1>1, <1>2, <1>3 DEF Simulcast
<1>4. CASE low = "Medium"
  <2>1. high \in {"Medium", "High"}
    BY <1>4 DEF calculateDesiredLayer
  <2> QED
    BY <1>1, <1>4, <2>1
<1>5. CASE low = "High"
  <2>1. high = "High"
    BY <1>5 DEF calculateDesiredLayer
  <2> QED
    BY <1>1, <1>5, <2>1
<1> QED
  BY <1>2, <1>3, <1>4, <1>5 DEF Simulcast

\* A subscriber of a simulcast track gets a layer that some publisher sends,
\* and none of them is closer to the desired one: the last line of
\* getOptimalLayer is never reached, and its list of priorities serves all
\* three layers well.
THEOREM OptimalLayerIsClosest ==
  ASSUME NEW layers \in SUBSET Simulcast, layers # {},
         NEW full \in Nat, NEW size \in Nat
  PROVE  LET layer == getOptimalLayer(layers, full, size)
             desired == calculateDesiredLayer(full, size)
         IN  /\ layer \in layers
             /\ \A other \in layers :
                  Distance(layer, desired) <= Distance(other, desired)
<1> DEFINE desired == calculateDesiredLayer(full, size)
           priority == <<desired, "Medium", "Low", "High">>
           First(i) == /\ priority[i] \in layers
                       /\ \A j \in 1..(i - 1) : priority[j] \notin layers
           first == CHOOSE i \in DOMAIN priority : First(i)
           layer == priority[first]
<1>1. desired \in Simulcast
  BY DesiredLayerType
<1>2. DOMAIN priority = {1, 2, 3, 4}
  OBVIOUS
<1>3. /\ priority[1] = desired /\ priority[2] = "Medium"
      /\ priority[3] = "Low" /\ priority[4] = "High"
  OBVIOUS
<1>4. \E i \in DOMAIN priority : First(i)
  <2>1. CASE desired \in layers
    BY <1>2, <1>3, <2>1
  <2>2. CASE desired \notin layers /\ "Medium" \in layers
    <3>1. First(2)
      BY <1>3, <2>2
    <3> QED
      BY <1>2, <3>1
  <2>3. CASE desired \notin layers /\ "Medium" \notin layers /\ "Low" \in layers
    <3>1. First(3)
      BY <1>3, <2>3
    <3> QED
      BY <1>2, <3>1
  <2>4. CASE /\ desired \notin layers /\ "Medium" \notin layers
             /\ "Low" \notin layers
    <3>1. "High" \in layers
      BY <2>4 DEF Simulcast
    <3>2. First(4)
      BY <1>3, <2>4, <3>1
    <3> QED
      BY <1>2, <3>2
  <2> QED
    BY <2>1, <2>2, <2>3, <2>4
<1>5. first \in DOMAIN priority /\ First(first)
  <2> HIDE DEF First, priority
  <2> QED
    BY <1>4
<1>6. getOptimalLayer(layers, full, size) = layer
  BY DEF getOptimalLayer, Simulcast
<1>7. layer \in layers
  BY <1>5
<1>8. ASSUME NEW other \in layers
      PROVE  Distance(layer, desired) <= Distance(other, desired)
  <2> HIDE DEF desired
  <2>1. Rank("Low") = 0 /\ Rank("Medium") = 1 /\ Rank("High") = 2
    BY DEF Rank
  <2>2. \/ layer = desired
        \/ layer = "Medium" /\ desired \notin layers
        \/ layer = "Low" /\ desired \notin layers /\ "Medium" \notin layers
        \/ /\ layer = "High" /\ desired \notin layers
           /\ "Medium" \notin layers /\ "Low" \notin layers
    <3>1. first \in {1, 2, 3, 4}
      BY <1>2, <1>5
    <3>2. CASE first = 1
      BY <1>3, <3>2
    <3>3. CASE first = 2
      BY <1>3, <1>5, <3>3
    <3>4. CASE first = 3
      BY <1>3, <1>5, <3>4
    <3>5. CASE first = 4
      BY <1>3, <1>5, <3>5
    <3> QED
      BY <3>1, <3>2, <3>3, <3>4, <3>5
  <2> HIDE DEF layer
  <2> QED
    BY <1>1, <1>7, <2>1, <2>2 DEF Simulcast, Distance
<1> QED
  BY <1>6, <1>7, <1>8

\* Without layers there is no choice, and otherwise it is one of them.
LEMMA OptimalLayerType ==
  ASSUME NEW layers \in SUBSET (Simulcast \cup {"None"}),
         NEW full \in Nat, NEW size \in Nat
  PROVE  LET layer == getOptimalLayer(layers, full, size)
         IN  /\ layer = "None" \/ layer \in layers
             /\ layers # {} => layer \in layers
<1>1. CASE "None" \in layers \/ layers = {}
  BY <1>1 DEF getOptimalLayer
<1>2. CASE "None" \notin layers /\ layers # {}
  <2>1. layers \in SUBSET Simulcast
    BY <1>2
  <2> QED
    BY <1>2, <2>1, OptimalLayerIsClosest
<1> QED
  BY <1>1, <1>2

-----------------------------------------------------------------------------
(* The invariant.                                                          *)

\* A publisher in the map is there under its own layer, and its event loop
\* runs.
ListedPublishersRun ==
  \A l \in Layer :
    publishers[l] # NoPublisher =>
      /\ layerOf[publishers[l]] = l
      /\ handler[publishers[l]] = "running"

\* A publisher whose event loop runs is in the map.
RunningPublishersAreListed ==
  \A p \in Publisher :
    handler[p] = "running" =>
      layerOf[p] \in Layer /\ publishers[layerOf[p]] = p

\* A publisher that is done, or has not begun, feeds nobody.
UnusedPublishersFeedNobody ==
  \A p \in Publisher : handler[p] = "unused" => feeds[p] = {}

\* A subscription that has ended has been taken off the publisher that fed it.
UnusedSubscriptionsAreNotFed ==
  \A l \in Layer :
    publishers[l] # NoPublisher =>
      \A s \in feeds[publishers[l]] : subState[s] # "unused"

\* A subscription in the map belongs to the subscriber it is listed for, and
\* its goroutine has not ended.
ListedSubscriptionsAreOwned ==
  \A id \in Subscriber :
    LET s == subscriptions[id] IN
    s # NoSubscription => subscriberID[s] = id /\ subState[s] # "unused"

PublisherInv == /\ ListedPublishersRun
                /\ RunningPublishersAreListed

FeedInv == /\ UnusedPublishersFeedNobody
           /\ FedByItsLayer
           /\ UnusedSubscriptionsAreNotFed
           /\ ListedSubscriptionsAreOwned

IInv == TypeOK /\ PublisherInv /\ FeedInv

-----------------------------------------------------------------------------
(* What the methods are called with and what they find.                    *)

\* A method has the arguments it was called with.
LEMMA CallType ==
  ASSUME TypeOK
  PROVE  /\ call.method = "Subscribe" =>
              call.id \in Subscriber /\ call.size \in Sizes
         /\ call.method = "AddPublisher" => call.layer \in Layer
BY DEF TypeOK, Call, Idle

\* A subscriber gets a layer of the track, and on a track with simulcast one
\* that has a publisher.
LEMMA OptimalLayerFound ==
  ASSUME TypeOK, NEW size \in Sizes
  PROVE  /\ OptimalLayer(size) \in Layer \cup {"None"}
         /\ isSimulcast => /\ OptimalLayer(size) \in Layer
                           /\ publishers[OptimalLayer(size)] \in Publisher
<1>1. /\ activeLayers = {l \in Layer : publishers[l] # NoPublisher}
      /\ activeLayers \in SUBSET (Simulcast \cup {"None"})
  BY TrackAssumption DEF activeLayers, isStalled
<1>2. FullSize \in Nat /\ size \in Nat
  BY TrackAssumption
<1>3. /\ OptimalLayer(size) = "None" \/ OptimalLayer(size) \in activeLayers
      /\ activeLayers # {} => OptimalLayer(size) \in activeLayers
  BY <1>1, <1>2, OptimalLayerType DEF OptimalLayer
<1>4. isSimulcast => activeLayers # {}
  BY <1>1 DEF isSimulcast
<1> QED
  BY <1>1, <1>3, <1>4 DEF TypeOK

\* PublisherOf gives nil or the publisher that is in the map.
LEMMA PublisherOfType ==
  ASSUME TypeOK, NEW layer
  PROVE  /\ PublisherOf(layer) \in Publisher \cup {NoPublisher}
         /\ PublisherOf(layer) # NoPublisher =>
              layer \in Layer /\ publishers[layer] = PublisherOf(layer)
BY DEF TypeOK, PublisherOf

-----------------------------------------------------------------------------
(* Types.                                                                  *)

\* The methods keep them.
LEMMA MethodTypes ==
  ASSUME IInv, MainLoop, UNCHANGED audioVars
  PROVE  TypeOK'
<1> USE TrackAssumption
<1> USE DEF IInv, pubVars, subVars, feedVars, ctlVars, audioVars, Returns
<1>1. ASSUME NEW c \in Call, Enter(c)
      PROVE  TypeOK'
  BY <1>1 DEF Enter, TypeOK
<1>2. CASE ChangeSubscription
  <2>1. call.id \in Subscriber /\ subscriptions[call.id] \in Subscription
    BY <1>2, CallType DEF ChangeSubscription, TypeOK
  <2>2. /\ feeds' \in [Publisher -> SUBSET Subscription]
        /\ currentLayer' \in [Subscription -> Layer \cup {"None"}]
    <3> DEFINE s == subscriptions[call.id]
               layer == OptimalLayer(call.size)
    <3>1. layer \in Layer \cup {"None"}
      BY <1>2, CallType, OptimalLayerFound DEF ChangeSubscription
    <3>2. Moved(s, publishers[layer]) \in [Publisher -> SUBSET Subscription]
      BY <2>1 DEF Moved, TypeOK
    <3> HIDE DEF s, layer
    <3>3. \/ UNCHANGED feedVars
          \/ /\ feeds' = Moved(s, publishers[layer])
             /\ currentLayer' = [currentLayer EXCEPT ![s] = layer]
      BY <1>2 DEF ChangeSubscription, s, layer
    <3>4. [currentLayer EXCEPT ![s] = layer]
            \in [Subscription -> Layer \cup {"None"}]
      BY <3>1 DEF TypeOK
    <3> QED
      BY <3>2, <3>3, <3>4 DEF TypeOK
  <2> QED
    BY <1>2, <2>2 DEF ChangeSubscription, TypeOK
<1>3. CASE NewSubscription
  <2> DEFINE layer == IF kind = "video" THEN OptimalLayer(call.size) ELSE "None"
             p == PublisherOf(layer)
  <2>1. /\ call.id \in Subscriber
        /\ layer \in Layer \cup {"None"}
        /\ p \in Publisher \cup {NoPublisher}
    BY <1>3, CallType, OptimalLayerFound, PublisherOfType DEF NewSubscription
  <2> HIDE DEF layer, p
  <2>2. PICK s \in Subscription :
          /\ subscriptions' = [subscriptions EXCEPT ![call.id] = s]
          /\ subscriberID' = [subscriberID EXCEPT ![s] = call.id]
          /\ subState' = [subState EXCEPT ![s] = "open"]
          /\ currentLayer' = [currentLayer EXCEPT ![s] = layer]
          /\ feeds' = IF kind = "video" /\ p # NoPublisher
                      THEN [feeds EXCEPT ![p] = @ \cup {s}] ELSE feeds
          /\ panicked' = IF kind = "video" /\ p = NoPublisher
                         THEN "Subscribe" ELSE panicked
    BY <1>3 DEF NewSubscription, layer, p
  <2>3. feeds' \in [Publisher -> SUBSET Subscription]
    BY <2>1, <2>2 DEF TypeOK
  <2>4. panicked' \in {"no", "Subscribe", "Unsubscribe"}
    BY <2>2 DEF TypeOK
  <2> QED
    BY <1>3, <2>1, <2>2, <2>3, <2>4 DEF NewSubscription, TypeOK
<1>4. CASE SubscribeFails
  BY <1>4 DEF SubscribeFails, TypeOK
<1>5. CASE ReplaceTrack
  BY <1>5, CallType DEF ReplaceTrack, TypeOK
<1>6. CASE addVideoPublisher
  BY <1>6, CallType DEF addVideoPublisher, TypeOK
<1>7. ASSUME NEW id \in Subscriber, Unsubscribe(id)
      PROVE  TypeOK'
  <2> DEFINE p == PublisherOf(currentLayer[subscriptions[id]])
  <2>1. /\ subscriptions[id] \in Subscription
        /\ p \in Publisher \cup {NoPublisher}
    BY <1>7, PublisherOfType DEF Unsubscribe, TypeOK
  <2> HIDE DEF p
  <2>2. feeds' \in [Publisher -> SUBSET Subscription]
    BY <1>7, <2>1 DEF Unsubscribe, TypeOK, p
  <2>3. subState' \in [Subscription -> {"unused", "open", "closing", "closed"}]
    BY <1>7, <2>1 DEF Unsubscribe, TypeOK
  <2>4. panicked' \in {"no", "Subscribe", "Unsubscribe"}
    BY <1>7 DEF Unsubscribe, TypeOK
  <2> QED
    BY <1>7, <2>2, <2>3, <2>4 DEF Unsubscribe, TypeOK
<1>8. CASE SetMetadata \/ Stop
  BY <1>8 DEF SetMetadata, Stop, TypeOK
<1> QED
  BY <1>1, <1>2, <1>3, <1>4, <1>5, <1>6, <1>7, <1>8 DEF MainLoop, Body

\* So do the goroutines of a publisher.
LEMMA PublisherTypes ==
  ASSUME IInv, NEW p \in Publisher, EventLoop(p) \/ Reader(p),
         UNCHANGED audioVars
  PROVE  TypeOK'
<1> USE TrackAssumption
<1> USE DEF IInv, pubVars, subVars, feedVars, ctlVars, audioVars
<1>1. CASE ReadNext(p) \/ ReaderEnds(p)
  BY <1>1 DEF ReadNext, ReaderEnds, TypeOK
<1>2. CASE Observe(p)
  <2>1. status' \in [Publisher -> Seq({"stalled", "recovered"})]
    BY <1>2 DEF Observe, TypeOK
  <2>2. stalled' \in [Publisher -> BOOLEAN]
    BY <1>2, Zenon DEF Observe, TypeOK
  <2> QED
    BY <1>2, <2>1, <2>2 DEF Observe, TypeOK
<1>3. ASSUME NEW event, TakeStatus(p, event)
      PROVE  status' \in [Publisher -> Seq({"stalled", "recovered"})]
  BY <1>3 DEF TakeStatus, TypeOK
<1>4. CASE handleStalledPublisher(p)
  <2>1. /\ feeds' \in [Publisher -> SUBSET Subscription]
        /\ currentLayer' \in [Subscription -> Layer \cup {"None"}]
    <3> DEFINE low == PublisherOf("Low")
               switch == low # NoPublisher /\ low # p
    <3>1. switch => "Low" \in Layer
      BY PublisherOfType
    <3> HIDE DEF low, switch
    <3>2. \/ UNCHANGED feedVars
          \/ /\ feeds' = [q \in Publisher |->
                            IF q = p THEN {}
                            ELSE IF switch /\ q = low
                                 THEN feeds[q] \cup feeds[p] ELSE feeds[q]]
             /\ currentLayer' = [s \in Subscription |->
                                   IF s \in feeds[p]
                                   THEN IF switch THEN "Low" ELSE "None"
                                   ELSE currentLayer[s]]
      BY <1>4 DEF handleStalledPublisher, low, switch
    <3> QED
      BY <3>1, <3>2 DEF TypeOK
  <2> QED
    BY <1>3, <1>4, <2>1 DEF handleStalledPublisher, TakeStatus, TypeOK
<1>5. CASE recoverOrphanedSubscriptions(p)
  <2>1. /\ feeds' \in [Publisher -> SUBSET Subscription]
        /\ currentLayer' \in [Subscription -> Layer \cup {"None"}]
    BY <1>5 DEF recoverOrphanedSubscriptions, TypeOK
  <2> QED
    BY <1>3, <1>5, <2>1 DEF recoverOrphanedSubscriptions, TakeStatus, TypeOK
<1>6. CASE CleanUp(p)
  <2>1. currentLayer' \in [Subscription -> Layer \cup {"None"}]
    BY <1>6 DEF CleanUp, TypeOK
  <2> QED
    BY <1>6, <2>1 DEF CleanUp, TypeOK
<1>7. CASE Done(p)
  <2>1. waiter' \in {"waiting", "woken", "ended", "done"}
    BY <1>7 DEF Done, Awaken, TypeOK
  <2> QED
    BY <1>7, <2>1 DEF Done, TypeOK
<1> QED
  BY <1>1, <1>2, <1>4, <1>5, <1>6, <1>7 DEF EventLoop, Reader

\* And all others.
LEMMA TypeStep ==
  ASSUME IInv, Next
  PROVE  TypeOK'
<1> USE TrackAssumption
<1> USE DEF IInv, pubVars, subVars, feedVars, ctlVars, audioVars
<1>1. CASE Step(MainLoop)
  BY <1>1, MethodTypes DEF Step
<1>2. ASSUME NEW p \in Publisher, Step(EventLoop(p)) \/ Step(Reader(p))
      PROVE  TypeOK'
  BY <1>2, PublisherTypes DEF Step
<1>3. CASE Step(EndSubscriptions)
  BY <1>3 DEF Step, EndSubscriptions, TypeOK
<1>4. CASE Step(CloseDone)
  BY <1>4 DEF Step, CloseDone, TypeOK
<1>5. ASSUME NEW s \in Subscription,
             Step(RTCPEnds(s)) \/ Step(ForgetSubscription(s))
      PROVE  TypeOK'
  <2>1. CASE RTCPEnds(s)
    BY <1>5, <2>1 DEF Step, RTCPEnds, TypeOK
  <2>2. CASE ForgetSubscription(s)
    BY <1>5, <2>2 DEF Step, ForgetSubscription, TypeOK
  <2> QED
    BY <1>5, <2>1, <2>2 DEF Step
<1>6. CASE ForwardEnds
  BY <1>6 DEF ForwardEnds, Awaken, TypeOK
<1> QED
  BY <1>1, <1>2, <1>3, <1>4, <1>5, <1>6 DEF Next

-----------------------------------------------------------------------------
(* The map of publishers.                                                  *)

\* Each layer has a publisher of its own.
LEMMA PublishersDiffer ==
  ASSUME IInv, NEW l \in Layer, NEW m \in Layer,
         publishers[l] # NoPublisher, publishers[l] = publishers[m]
  PROVE  l = m
BY DEF IInv, PublisherInv, ListedPublishersRun

\* Publishers enter the map with their event loop, and leave it with its
\* cleanup; one that is used again is not in it.
LEMMA PublisherStep ==
  ASSUME IInv, Next
  PROVE  PublisherInv'
<1> USE TrackAssumption
<1> USE DEF IInv, PublisherInv, ListedPublishersRun,
            RunningPublishersAreListed, TypeOK
<1>1. CASE addVideoPublisher
  <2>1. call.layer \in Layer /\ publishers[call.layer] = NoPublisher
    BY <1>1, CallType DEF addVideoPublisher
  <2>2. PICK p \in Publisher :
          /\ handler[p] = "unused"
          /\ publishers' = [publishers EXCEPT ![call.layer] = p]
          /\ layerOf' = [layerOf EXCEPT ![p] = call.layer]
          /\ handler' = [handler EXCEPT ![p] = "running"]
    BY <1>1 DEF addVideoPublisher
  <2>3. ASSUME NEW l \in Layer
        PROVE  publishers[l] # p
    <3>1. publishers[l] # NoPublisher => handler[publishers[l]] = "running"
      OBVIOUS
    <3> QED
      BY <2>2, <3>1
  <2>4. ListedPublishersRun'
    BY <2>1, <2>2, <2>3
  <2>5. RunningPublishersAreListed'
    BY <2>1, <2>2, <2>3
  <2> QED
    BY <2>4, <2>5
<1>2. ASSUME NEW p \in Publisher, CleanUp(p)
      PROVE  PublisherInv'
  <2>1. /\ handler[p] = "running" /\ layerOf[p] \in Layer
        /\ publishers[layerOf[p]] = p
        /\ handler' = [handler EXCEPT ![p] = "cleaned"]
        /\ publishers' = [publishers EXCEPT ![layerOf[p]] = NoPublisher]
        /\ UNCHANGED layerOf
    BY <1>2 DEF CleanUp
  <2>2. ListedPublishersRun'
    BY <2>1
  <2>3. RunningPublishersAreListed'
    BY <2>1
  <2> QED
    BY <2>2, <2>3
<1>3. ASSUME NEW p \in Publisher, Done(p)
      PROVE  PublisherInv'
  <2>1. /\ handler[p] = "cleaned"
        /\ handler' = [handler EXCEPT ![p] = "unused"]
        /\ layerOf' = [layerOf EXCEPT ![p] = "None"]
        /\ UNCHANGED publishers
    BY <1>3 DEF Done
  <2> QED
    BY <2>1
<1>4. CASE UNCHANGED <<publishers, layerOf, handler>>
  BY <1>4
<1>5. CASE Step(MainLoop)
  BY <1>1, <1>4, <1>5
     DEF Step, MainLoop, Body, Enter, ChangeSubscription, NewSubscription,
         SubscribeFails, ReplaceTrack, Unsubscribe, SetMetadata, Stop, pubVars
<1>6. ASSUME NEW p \in Publisher, Step(EventLoop(p)) \/ Step(Reader(p))
      PROVE  PublisherInv'
  BY <1>2, <1>3, <1>4, <1>6
     DEF Step, EventLoop, Reader, handleStalledPublisher,
         recoverOrphanedSubscriptions, TakeStatus, ReadNext, ReaderEnds,
         Observe
<1>7. CASE \/ Step(EndSubscriptions) \/ Step(CloseDone) \/ ForwardEnds
           \/ \E s \in Subscription :
                Step(RTCPEnds(s)) \/ Step(ForgetSubscription(s))
  BY <1>4, <1>7
     DEF Step, EndSubscriptions, CloseDone, ForwardEnds, RTCPEnds,
         ForgetSubscription, pubVars
<1> QED
  BY <1>5, <1>6, <1>7 DEF Next

-----------------------------------------------------------------------------
(* Who feeds whom.                                                         *)

\* What a publisher in the map feeds has the publisher's layer, so that only
\* this publisher is found when the subscription is to be moved.
LEMMA FeederIsFound ==
  ASSUME IInv, NEW l \in Layer, publishers[l] # NoPublisher,
         NEW s \in feeds[publishers[l]]
  PROVE  /\ s \in Subscription /\ publishers[l] \in Publisher
         /\ currentLayer[s] = l
         /\ PublisherOf(currentLayer[s]) = publishers[l]
         /\ subState[s] # "unused"
BY DEF IInv, TypeOK, FeedInv, FedByItsLayer, UnusedSubscriptionsAreNotFed,
       PublisherOf

\* Only what the parts of the invariant speak of can disturb them.
LEMMA FeedFrame ==
  ASSUME IInv,
         UNCHANGED <<publishers, handler, feeds, currentLayer, subscriptions,
                     subscriberID, subState>>
  PROVE  FeedInv'
BY DEF IInv, FeedInv, UnusedPublishersFeedNobody, FedByItsLayer,
       UnusedSubscriptionsAreNotFed, ListedSubscriptionsAreOwned

\* A subscription that changes its layer leaves one publisher for another.
LEMMA ChangeStep ==
  ASSUME IInv, ChangeSubscription
  PROVE  FeedInv'
<1> DEFINE s == subscriptions[call.id]
           layer == OptimalLayer(call.size)
<1>1. /\ call.id \in Subscriber /\ s \in Subscription
      /\ subState[s] # "unused"
      /\ UNCHANGED <<publishers, handler, subscriptions, subscriberID, subState>>
  BY CallType DEF ChangeSubscription, IInv, TypeOK, FeedInv,
     ListedSubscriptionsAreOwned, pubVars, subVars
<1>2. CASE UNCHANGED feedVars
  BY <1>1, <1>2, FeedFrame DEF feedVars
<1>3. CASE ~UNCHANGED feedVars
  <2>1. /\ layer \in Layer /\ publishers[layer] \in Publisher
        /\ feeds' = Moved(s, publishers[layer])
        /\ currentLayer' = [currentLayer EXCEPT ![s] = layer]
    BY <1>3, CallType, OptimalLayerFound DEF ChangeSubscription, IInv
  <2> HIDE DEF s, layer
  <2>2. ASSUME NEW l \in Layer, publishers[l] # NoPublisher,
               NEW t \in feeds'[publishers[l]]
        PROVE  /\ t \in Subscription
               /\ currentLayer'[t] = l
               /\ subState[t] # "unused"
    <3>1. publishers[l] \in Publisher
      BY <2>2 DEF IInv, TypeOK
    <3>2. CASE l = layer
      BY <1>1, <2>1, <2>2, <3>1, <3>2, FeederIsFound DEF Moved, IInv, TypeOK
    <3>3. CASE l # layer
      <4>1. publishers[l] # publishers[layer]
        BY <2>1, <2>2, <3>3, PublishersDiffer
      <4>2. /\ t \in feeds[publishers[l]]
            /\ t = s => publishers[l] # PublisherOf(currentLayer[s])
        BY <2>1, <2>2, <3>1, <4>1 DEF Moved
      <4>3. t # s
        BY <2>2, <4>2, FeederIsFound
      <4> QED
        BY <2>1, <2>2, <4>2, <4>3, FeederIsFound DEF IInv, TypeOK
    <3> QED
      BY <3>2, <3>3
  <2>3. UnusedPublishersFeedNobody'
    <3>1. \A p \in Publisher :
            handler[p] = "unused" => p # publishers[layer]
      BY <2>1, TrackAssumption DEF IInv, PublisherInv, ListedPublishersRun
    <3> QED
      BY <1>1, <2>1, <3>1
         DEF Moved, IInv, FeedInv, UnusedPublishersFeedNobody, TypeOK
  <2> QED
    BY <1>1, <2>2, <2>3
       DEF IInv, FeedInv, FedByItsLayer, UnusedSubscriptionsAreNotFed,
           ListedSubscriptionsAreOwned
<1> QED
  BY <1>2, <1>3

\* A new subscription was fed by nobody and listed for nobody.
LEMMA NewStep ==
  ASSUME IInv, NewSubscription
  PROVE  FeedInv'
<1> DEFINE layer == IF kind = "video" THEN OptimalLayer(call.size) ELSE "None"
           p == PublisherOf(layer)
<1>1. /\ call.id \in Subscriber
      /\ UNCHANGED <<publishers, handler>>
      /\ p \in Publisher \cup {NoPublisher}
      /\ p # NoPublisher => layer \in Layer /\ publishers[layer] = p
      /\ layer \in Layer \cup {"None"}
  BY CallType, PublisherOfType, OptimalLayerFound
     DEF NewSubscription, IInv, pubVars
<1>2. PICK s \in Subscription :
        /\ subState[s] = "unused"
        /\ subscriptions' = [subscriptions EXCEPT ![call.id] = s]
        /\ subscriberID' = [subscriberID EXCEPT ![s] = call.id]
        /\ subState' = [subState EXCEPT ![s] = "open"]
        /\ currentLayer' = [currentLayer EXCEPT ![s] = layer]
        /\ feeds' = IF kind = "video" /\ p # NoPublisher
                    THEN [feeds EXCEPT ![p] = @ \cup {s}] ELSE feeds
  BY DEF NewSubscription
<1> HIDE DEF layer, p
<1>3. ASSUME NEW l \in Layer, publishers[l] # NoPublisher,
             NEW t \in feeds'[publishers[l]]
      PROVE  /\ t \in Subscription
             /\ currentLayer'[t] = l
             /\ subState'[t] # "unused"
  <2>1. publishers[l] \in Publisher
    BY <1>3 DEF IInv, TypeOK
  <2>2. CASE t \in feeds[publishers[l]]
    BY <1>2, <1>3, <2>2, FeederIsFound DEF IInv, TypeOK
  <2>3. CASE t \notin feeds[publishers[l]]
    <3>1. t = s /\ publishers[l] = p /\ p # NoPublisher
      BY <1>1, <1>2, <1>3, <2>1, <2>3 DEF IInv, TypeOK
    <3>2. l = layer
      BY <1>1, <1>3, <3>1, PublishersDiffer
    <3> QED
      BY <1>2, <3>1, <3>2 DEF IInv, TypeOK
  <2> QED
    BY <2>2, <2>3
<1>4. UnusedPublishersFeedNobody'
  <2>1. p # NoPublisher => handler[p] = "running"
    BY <1>1 DEF IInv, PublisherInv, ListedPublishersRun
  <2> QED
    BY <1>1, <1>2, <2>1 DEF IInv, FeedInv, UnusedPublishersFeedNobody, TypeOK
<1>5. ListedSubscriptionsAreOwned'
  BY <1>1, <1>2, TrackAssumption
     DEF IInv, FeedInv, ListedSubscriptionsAreOwned, TypeOK
<1> QED
  BY <1>1, <1>3, <1>4, <1>5
     DEF FeedInv, FedByItsLayer, UnusedSubscriptionsAreNotFed

\* A new publisher feeds nobody, so none that has another layer.
LEMMA AddPublisherStep ==
  ASSUME IInv, addVideoPublisher
  PROVE  FeedInv'
<1>1. call.layer \in Layer
  BY CallType DEF addVideoPublisher, IInv
<1>2. PICK p \in Publisher :
        /\ handler[p] = "unused"
        /\ publishers' = [publishers EXCEPT ![call.layer] = p]
        /\ handler' = [handler EXCEPT ![p] = "running"]
  BY DEF addVideoPublisher
<1>3. /\ feeds[p] = {}
      /\ UNCHANGED <<feeds, currentLayer, subscriptions, subscriberID, subState>>
  BY <1>2 DEF addVideoPublisher, subVars, feedVars, IInv, FeedInv,
     UnusedPublishersFeedNobody
<1>4. UnusedPublishersFeedNobody'
  BY <1>2, <1>3 DEF IInv, TypeOK, FeedInv, UnusedPublishersFeedNobody
<1>5. FedByItsLayer' /\ UnusedSubscriptionsAreNotFed'
  BY <1>1, <1>2, <1>3 DEF IInv, TypeOK, FeedInv, FedByItsLayer,
     UnusedSubscriptionsAreNotFed
<1> QED
  BY <1>3, <1>4, <1>5 DEF IInv, FeedInv, ListedSubscriptionsAreOwned

\* Unsubscribe only takes away.
LEMMA UnsubscribeStep ==
  ASSUME IInv, NEW id \in Subscriber, Unsubscribe(id)
  PROVE  FeedInv'
<1>1. /\ UNCHANGED <<publishers, handler, subscriberID, currentLayer>>
      /\ subscriptions' = [subscriptions EXCEPT ![id] = NoSubscription]
      /\ \A s \in Subscription : subState'[s] = "unused" => subState[s] = "unused"
  BY DEF Unsubscribe, pubVars, IInv, TypeOK
<1>2. \A p \in Publisher : feeds'[p] \subseteq feeds[p]
  BY DEF Unsubscribe, IInv, TypeOK
<1>3. UnusedPublishersFeedNobody' /\ FedByItsLayer'
  BY <1>1, <1>2
     DEF IInv, TypeOK, FeedInv, UnusedPublishersFeedNobody, FedByItsLayer
<1>4. UnusedSubscriptionsAreNotFed'
  BY <1>1, <1>2 DEF IInv, TypeOK, FeedInv, UnusedSubscriptionsAreNotFed
<1>5. ListedSubscriptionsAreOwned'
  BY <1>1 DEF IInv, TypeOK, FeedInv, ListedSubscriptionsAreOwned
<1> QED
  BY <1>3, <1>4, <1>5 DEF FeedInv

\* Those that a stalled publisher fed go to the low layer or to none.
LEMMA StalledStep ==
  ASSUME IInv, NEW p \in Publisher, handleStalledPublisher(p)
  PROVE  FeedInv'
<1> DEFINE low == PublisherOf("Low")
           switch == low # NoPublisher /\ low # p
           layer == IF switch THEN "Low" ELSE "None"
<1>1. /\ handler[p] = "running"
      /\ UNCHANGED <<publishers, handler, subscriptions, subscriberID, subState>>
  BY DEF handleStalledPublisher, TakeStatus, subVars
<1>2. CASE UNCHANGED feedVars
  BY <1>1, <1>2, FeedFrame DEF feedVars
<1>3. CASE ~UNCHANGED feedVars
  <2>1. /\ feeds' = [q \in Publisher |->
                       IF q = p THEN {}
                       ELSE IF switch /\ q = low THEN feeds[q] \cup feeds[p]
                       ELSE feeds[q]]
        /\ currentLayer' = [s \in Subscription |->
                              IF s \in feeds[p] THEN layer
                              ELSE currentLayer[s]]
    BY <1>3 DEF handleStalledPublisher
  <2>2. switch => /\ "Low" \in Layer /\ publishers["Low"] = low
                  /\ low \in Publisher /\ low # p /\ low # NoPublisher
    BY PublisherOfType DEF IInv
  <2>3. /\ layerOf[p] \in Layer /\ publishers[layerOf[p]] = p
        /\ p # NoPublisher
    BY <1>1, TrackAssumption
       DEF IInv, PublisherInv, RunningPublishersAreListed
  <2> HIDE DEF low, switch
  <2>4. ASSUME NEW l \in Layer, publishers[l] # NoPublisher,
               NEW t \in feeds'[publishers[l]]
        PROVE  /\ t \in Subscription
               /\ currentLayer'[t] = l
               /\ subState[t] # "unused"
    <3>1. publishers[l] \in Publisher /\ publishers[l] # p
      BY <2>1, <2>4 DEF IInv, TypeOK
    <3>2. CASE t \in feeds[p]
      <4>1. t \in Subscription /\ currentLayer[t] = layerOf[p]
        BY <2>3, <3>2, FeederIsFound
      <4>2. t \notin feeds[publishers[l]]
        BY <2>3, <2>4, <3>1, <4>1, FeederIsFound
      <4>3. switch /\ publishers[l] = low
        BY <2>1, <2>4, <3>1, <4>2
      <4>4. l = "Low"
        BY <2>2, <2>4, <4>3, PublishersDiffer
      <4>5. subState[t] # "unused"
        BY <2>3, <3>2, FeederIsFound
      <4> QED
        BY <2>1, <3>2, <4>1, <4>3, <4>4, <4>5
    <3>3. CASE t \notin feeds[p]
      <4>1. t \in feeds[publishers[l]]
        BY <2>1, <2>4, <3>1, <3>3
      <4> QED
        BY <2>1, <2>4, <3>3, <4>1, FeederIsFound
    <3> QED
      BY <3>2, <3>3
  <2>5. UnusedPublishersFeedNobody'
    <3>1. switch => handler[low] = "running"
      BY <2>2 DEF IInv, PublisherInv, ListedPublishersRun
    <3> QED
      BY <1>1, <2>1, <3>1 DEF IInv, FeedInv, UnusedPublishersFeedNobody
  <2> QED
    BY <1>1, <2>4, <2>5
       DEF IInv, FeedInv, FedByItsLayer, UnusedSubscriptionsAreNotFed,
           ListedSubscriptionsAreOwned
<1> QED
  BY <1>2, <1>3

\* A publisher that recovers takes those that have no layer: on a track with
\* simulcast nobody feeds them, and on another one nobody but itself can.
LEMMA RecoverStep ==
  ASSUME IInv, NEW p \in Publisher, recoverOrphanedSubscriptions(p)
  PROVE  FeedInv'
<1> DEFINE orphans == {s \in Subscription :
                         /\ \E id \in Subscriber : subscriptions[id] = s
                         /\ currentLayer[s] = "None"}
<1>1. /\ handler[p] = "running"
      /\ UNCHANGED <<publishers, handler, subscriptions, subscriberID, subState>>
      /\ feeds' = [feeds EXCEPT ![p] = @ \cup orphans]
      /\ currentLayer' = [s \in Subscription |->
                            IF s \in orphans THEN layerOf[p]
                            ELSE currentLayer[s]]
  BY DEF recoverOrphanedSubscriptions, TakeStatus, subVars
<1>2. /\ layerOf[p] \in Layer /\ publishers[layerOf[p]] = p
      /\ p # NoPublisher
  BY <1>1, TrackAssumption DEF IInv, PublisherInv, RunningPublishersAreListed
<1>3. ASSUME NEW s \in orphans
      PROVE  /\ s \in Subscription /\ currentLayer[s] = "None"
             /\ subState[s] # "unused"
  BY TrackAssumption DEF IInv, FeedInv, ListedSubscriptionsAreOwned
<1> HIDE DEF orphans
<1>4. ASSUME NEW l \in Layer, publishers[l] # NoPublisher,
             NEW t \in feeds'[publishers[l]]
      PROVE  /\ t \in Subscription
             /\ currentLayer'[t] = l
             /\ subState[t] # "unused"
  <2>1. publishers[l] \in Publisher
    BY <1>4 DEF IInv, TypeOK
  <2>2. CASE t \in orphans
    <3>1. CASE publishers[l] = p
      <4>1. l = layerOf[p]
        BY <1>2, <1>4, <3>1, PublishersDiffer
      <4> QED
        BY <1>1, <1>3, <2>2, <4>1
    <3>2. CASE publishers[l] # p
      <4>1. t \in feeds[publishers[l]]
        BY <1>1, <1>4, <2>1, <3>2 DEF IInv, TypeOK
      <4>2. l = "None"
        BY <1>3, <1>4, <2>2, <4>1, FeederIsFound
      <4>3. layerOf[p] = "None"
        BY <1>2, <4>2, TrackAssumption DEF Simulcast
      <4> QED
        BY <1>2, <3>2, <4>2, <4>3
    <3> QED
      BY <3>1, <3>2
  <2>3. CASE t \notin orphans
    <3>1. t \in feeds[publishers[l]]
      BY <1>1, <1>4, <2>1, <2>3 DEF IInv, TypeOK
    <3> QED
      BY <1>1, <1>4, <2>3, <3>1, FeederIsFound
  <2> QED
    BY <2>2, <2>3
<1>5. UnusedPublishersFeedNobody'
  BY <1>1 DEF IInv, TypeOK, FeedInv, UnusedPublishersFeedNobody
<1> QED
  BY <1>1, <1>4, <1>5
     DEF IInv, FeedInv, FedByItsLayer, UnusedSubscriptionsAreNotFed,
         ListedSubscriptionsAreOwned

\* The cleanup moves the subscriptions of another publisher to where they are.
LEMMA CleanUpMovesNobody ==
  ASSUME IInv, NEW p \in Publisher, CleanUp(p)
  PROVE  UNCHANGED currentLayer
<1>1. CASE UNCHANGED currentLayer
  BY <1>1
<1>2. CASE ~UNCHANGED currentLayer
  <2>1. PICK l \in {l \in Layer \ {layerOf[p]} : publishers[l] # NoPublisher} :
          currentLayer' = [s \in Subscription |->
                             IF s \in feeds[publishers[l]] THEN l
                             ELSE currentLayer[s]]
    BY <1>2 DEF CleanUp
  <2>2. \A s \in Subscription : currentLayer'[s] = currentLayer[s]
    BY <2>1, FeederIsFound
  <2>3. /\ currentLayer = [s \in Subscription |-> currentLayer[s]]
        /\ currentLayer' = [s \in Subscription |-> currentLayer'[s]]
    BY <2>1 DEF IInv, TypeOK
  <2> QED
    BY <2>2, <2>3
<1> QED
  BY <1>1, <1>2

\* A publisher that leaves the map takes its subscriptions along.
LEMMA CleanUpStep ==
  ASSUME IInv, NEW p \in Publisher, CleanUp(p)
  PROVE  FeedInv'
<1>1. /\ handler' = [handler EXCEPT ![p] = "cleaned"]
      /\ publishers' = [publishers EXCEPT ![layerOf[p]] = NoPublisher]
      /\ UNCHANGED <<feeds, currentLayer, subscriptions, subscriberID, subState>>
  BY CleanUpMovesNobody DEF CleanUp, subVars
<1>2. \A l \in Layer :
        publishers'[l] # NoPublisher => publishers'[l] = publishers[l]
  BY <1>1 DEF IInv, TypeOK
<1>3. UnusedPublishersFeedNobody'
  BY <1>1 DEF IInv, TypeOK, FeedInv, UnusedPublishersFeedNobody
<1> QED
  BY <1>1, <1>2, <1>3
     DEF IInv, FeedInv, FedByItsLayer, UnusedSubscriptionsAreNotFed,
         ListedSubscriptionsAreOwned

\* A publisher that is done was not in the map any more.
LEMMA DoneStep ==
  ASSUME IInv, NEW p \in Publisher, Done(p)
  PROVE  FeedInv'
<1>1. /\ handler[p] = "cleaned"
      /\ handler' = [handler EXCEPT ![p] = "unused"]
      /\ feeds' = [feeds EXCEPT ![p] = {}]
      /\ UNCHANGED <<publishers, currentLayer, subscriptions, subscriberID,
                     subState>>
  BY DEF Done, subVars
<1>2. \A q \in Publisher : feeds'[q] \subseteq feeds[q]
  BY <1>1 DEF IInv, TypeOK
<1>3. UnusedPublishersFeedNobody'
  BY <1>1 DEF IInv, TypeOK, FeedInv, UnusedPublishersFeedNobody
<1>4. FedByItsLayer' /\ UnusedSubscriptionsAreNotFed'
  BY <1>1, <1>2
     DEF IInv, TypeOK, FeedInv, FedByItsLayer, UnusedSubscriptionsAreNotFed
<1> QED
  BY <1>1, <1>3, <1>4 DEF IInv, FeedInv, ListedSubscriptionsAreOwned

\* The goroutines of subscriptions end one after the other, and the last thing
\* that one does is to remove all that refers to it.
LEMMA EndStep ==
  ASSUME IInv, NEW s \in Subscription, RTCPEnds(s) \/ ForgetSubscription(s)
  PROVE  FeedInv'
<1>1. CASE RTCPEnds(s)
  <2>1. /\ UNCHANGED <<publishers, handler, feeds, currentLayer, subscriptions,
                       subscriberID>>
        /\ \A t \in Subscription :
             subState'[t] = "unused" => subState[t] = "unused"
    BY <1>1 DEF RTCPEnds, pubVars, feedVars, IInv, TypeOK
  <2> QED
    BY <2>1 DEF IInv, TypeOK, FeedInv, UnusedPublishersFeedNobody,
       FedByItsLayer, UnusedSubscriptionsAreNotFed, ListedSubscriptionsAreOwned
<1>2. CASE ForgetSubscription(s)
  <2> DEFINE p == PublisherOf(currentLayer[s])
  <2>1. /\ subState' = [subState EXCEPT ![s] = "unused"]
        /\ feeds' = [q \in Publisher |->
                       IF q = p THEN feeds[q] \ {s} ELSE feeds[q]]
        /\ subscriptions' =
             [subscriptions EXCEPT ![subscriberID[s]] = NoSubscription]
        /\ subscriberID' = [subscriberID EXCEPT ![s] = NoSubscriber]
        /\ currentLayer' = [currentLayer EXCEPT ![s] = "None"]
        /\ UNCHANGED <<publishers, handler>>
    BY <1>2 DEF ForgetSubscription, pubVars
  <2> HIDE DEF p
  <2>2. \A q \in Publisher : feeds'[q] \subseteq feeds[q]
    BY <2>1
  <2>3. ASSUME NEW l \in Layer, publishers[l] # NoPublisher,
               NEW t \in feeds'[publishers[l]]
        PROVE  t \in feeds[publishers[l]] /\ t # s
    <3>1. publishers[l] \in Publisher
      BY <2>3 DEF IInv, TypeOK
    <3>2. t \in feeds[publishers[l]]
      BY <2>2, <2>3, <3>1
    <3>3. t = s => publishers[l] = p
      BY <2>3, <3>2, FeederIsFound DEF p
    <3> QED
      BY <2>1, <2>3, <3>1, <3>2, <3>3
  <2>4. FedByItsLayer' /\ UnusedSubscriptionsAreNotFed'
    <3> SUFFICES ASSUME NEW l \in Layer, publishers[l] # NoPublisher,
                        NEW t \in feeds'[publishers[l]]
                 PROVE  currentLayer'[t] = l /\ subState'[t] # "unused"
      BY <2>1 DEF FedByItsLayer, UnusedSubscriptionsAreNotFed
    <3>1. t # s /\ t \in feeds[publishers[l]]
      BY <2>3
    <3>2. t \in Subscription /\ currentLayer[t] = l /\ subState[t] # "unused"
      BY <3>1, FeederIsFound
    <3> QED
      BY <2>1, <3>1, <3>2 DEF IInv, TypeOK
  <2>5. ListedSubscriptionsAreOwned'
    <3> SUFFICES ASSUME NEW id \in Subscriber,
                        subscriptions'[id] # NoSubscription
                 PROVE  /\ subscriberID'[subscriptions'[id]] = id
                        /\ subState'[subscriptions'[id]] # "unused"
      BY DEF ListedSubscriptionsAreOwned
    <3>1. id # subscriberID[s] /\ subscriptions'[id] = subscriptions[id]
      BY <2>1 DEF IInv, TypeOK
    <3>2. /\ subscriptions[id] \in Subscription
          /\ subscriberID[subscriptions[id]] = id
          /\ subState[subscriptions[id]] # "unused"
      BY <3>1 DEF IInv, TypeOK, FeedInv, ListedSubscriptionsAreOwned
    <3> QED
      BY <2>1, <3>1, <3>2 DEF IInv, TypeOK
  <2>6. UnusedPublishersFeedNobody'
    BY <2>1, <2>2 DEF IInv, FeedInv, UnusedPublishersFeedNobody
  <2> QED
    BY <2>4, <2>5, <2>6 DEF FeedInv
<1> QED
  BY <1>1, <1>2

\* So all steps keep who feeds whom in order.
LEMMA FeedStep ==
  ASSUME IInv, Next
  PROVE  FeedInv'
<1>1. CASE Step(MainLoop)
  BY <1>1, ChangeStep, NewStep, AddPublisherStep, UnsubscribeStep, FeedFrame
     DEF Step, MainLoop, Body, Enter, SubscribeFails, ReplaceTrack,
         SetMetadata, Stop, pubVars, subVars, feedVars
<1>2. ASSUME NEW p \in Publisher, Step(EventLoop(p)) \/ Step(Reader(p))
      PROVE  FeedInv'
  BY <1>2, StalledStep, RecoverStep, CleanUpStep, DoneStep, FeedFrame
     DEF Step, EventLoop, Reader, ReadNext, ReaderEnds, Observe, subVars,
         feedVars
<1>3. CASE Step(EndSubscriptions)
  <2>1. /\ UNCHANGED <<publishers, handler, feeds, currentLayer, subscriptions,
                       subscriberID>>
        /\ \A t \in Subscription :
             subState'[t] = "unused" => subState[t] = "unused"
    BY <1>3 DEF Step, EndSubscriptions, pubVars, feedVars, IInv, TypeOK
  <2> QED
    BY <2>1 DEF IInv, TypeOK, FeedInv, UnusedPublishersFeedNobody,
       FedByItsLayer, UnusedSubscriptionsAreNotFed, ListedSubscriptionsAreOwned
<1>4. CASE Step(CloseDone) \/ ForwardEnds
  BY <1>4, FeedFrame
     DEF Step, CloseDone, ForwardEnds, pubVars, subVars, feedVars
<1>5. ASSUME NEW s \in Subscription,
             Step(RTCPEnds(s)) \/ Step(ForgetSubscription(s))
      PROVE  FeedInv'
  BY <1>5, EndStep DEF Step
<1> QED
  BY <1>1, <1>2, <1>3, <1>4, <1>5 DEF Next

-----------------------------------------------------------------------------
(* The theorems.                                                           *)

\* A new track has its first publisher and no subscriptions.
LEMMA InitInv == Init => IInv
<1> SUFFICES ASSUME Init
             PROVE  IInv
  OBVIOUS
<1> USE TrackAssumption
<1>1. PICK l \in Layer, p \in Publisher :
        /\ publishers = [x \in Layer |->
             IF x = l /\ kind = "video" THEN p ELSE NoPublisher]
        /\ layerOf = [q \in Publisher |->
             IF kind = "video" /\ q = p THEN l ELSE "None"]
        /\ handler = [q \in Publisher |->
             IF kind = "video" /\ q = p THEN "running" ELSE "unused"]
        /\ reader = [q \in Publisher |->
             IF kind = "video" /\ q = p THEN "reading" ELSE "unused"]
  BY DEF Init
<1>2. stalled \in [Publisher -> BOOLEAN]
  BY Zenon DEF Init
<1>3. status \in [Publisher -> Seq({"stalled", "recovered"})]
  BY DEF Init
<1>4. TypeOK
  BY <1>1, <1>2, <1>3 DEF Init, TypeOK
<1>5. PublisherInv
  BY <1>1 DEF PublisherInv, ListedPublishersRun, RunningPublishersAreListed
<1>6. /\ \A q \in Publisher : feeds[q] = {}
      /\ \A id \in Subscriber : subscriptions[id] = NoSubscription
  BY DEF Init
<1>7. FeedInv
  BY <1>4, <1>6 DEF TypeOK, FeedInv, UnusedPublishersFeedNobody, FedByItsLayer,
     UnusedSubscriptionsAreNotFed, ListedSubscriptionsAreOwned
<1> QED
  BY <1>4, <1>5, <1>7 DEF IInv

\* Every step keeps the invariant.
LEMMA StepInv == IInv /\ [Next]_vars => IInv'
<1>1. ASSUME IInv, Next
      PROVE  IInv'
  BY <1>1, TypeStep, PublisherStep, FeedStep DEF IInv
<1>2. ASSUME IInv, UNCHANGED vars
      PROVE  IInv'
  BY <1>2 DEF vars, audioVars, videoVars, pubVars, subVars, feedVars, ctlVars,
     IInv, TypeOK, PublisherInv, ListedPublishersRun,
     RunningPublishersAreListed, FeedInv, UnusedPublishersFeedNobody,
     FedByItsLayer, UnusedSubscriptionsAreNotFed, ListedSubscriptionsAreOwned
<1> QED
  BY <1>1, <1>2

\* The invariant holds in every reachable state.
THEOREM TrackInvariance == Spec => []IInv
BY InitInv, StepInv, PTL DEF Spec

\* The variables keep their types.
THEOREM TrackTypeCorrect == Spec => []TypeOK
BY TrackInvariance, PTL DEF IInv

\* A publisher in the map feeds subscriptions of its own layer only, however
\* stalls, recoveries, ends and calls of the methods follow each other.
THEOREM SubscribersGetOneLayer == Spec => []FedByItsLayer
BY TrackInvariance, PTL DEF IInv, FeedInv

\* The map has the publishers whose event loops run, each under its layer, so
\* that no cleanup deletes another publisher.
THEOREM RunningPublishersRegistered == Spec => []PublishersAreRegistered
<1>1. IInv => PublishersAreRegistered
  BY TrackAssumption
     DEF IInv, PublisherInv, ListedPublishersRun, RunningPublishersAreListed,
         PublishersAreRegistered, InMap, PublisherOf
<1> QED
  BY <1>1, TrackInvariance, PTL

\* A video subscription whose goroutine has ended is neither listed nor fed,
\* although the goroutine takes it off the publisher of its current layer only.
THEOREM NothingIsLeftBehind == Spec => []EndedSubscriptionsAreGone
<1>1. IInv => EndedSubscriptionsAreGone
  <2> SUFFICES ASSUME IInv, NEW s \in Subscription, subState[s] = "unused"
               PROVE  /\ \A p \in Publisher : s \in feeds[p] => ~InMap(p)
                      /\ \A id \in Subscriber : subscriptions[id] # s
    BY DEF EndedSubscriptionsAreGone
  <2>1. ASSUME NEW p \in Publisher, s \in feeds[p], InMap(p)
        PROVE  FALSE
    <3>1. /\ layerOf[p] \in Layer /\ publishers[layerOf[p]] = p
          /\ p # NoPublisher
      BY <2>1, TrackAssumption DEF InMap, PublisherOf
    <3> QED
      BY <2>1, <3>1 DEF IInv, FeedInv, UnusedSubscriptionsAreNotFed
  <2>2. ASSUME NEW id \in Subscriber, subscriptions[id] = s
        PROVE  FALSE
    BY <2>2, TrackAssumption DEF IInv, FeedInv, ListedSubscriptionsAreOwned
  <2> QED
    BY <2>1, <2>2
<1> QED
  BY <1>1, TrackInvariance, PTL

\* The cleanup of a publisher gives none of its subscriptions to another one:
\* the loop that is to move them changes nothing, whatever publishers remain.
THEOREM CleanUpRescuesNobody ==
  Spec => [][\A p \in Publisher :
               CleanUp(p) => UNCHANGED <<feeds, currentLayer>>]_vars
<1> DEFINE MovesNobody ==
             \A p \in Publisher :
               CleanUp(p) => UNCHANGED <<feeds, currentLayer>>
<1>1. IInv => [MovesNobody]_vars
  BY CleanUpMovesNobody DEF CleanUp
<1> QED
  BY <1>1, TrackInvariance, PTL

\* Two publishers whose event loops run have no subscription in common: no
\* subscriber gets the packets of both, while layers are changed or orphans
\* taken.
THEOREM NobodyIsFedTwice ==
  Spec => [](\A p, q \in Publisher :
               handler[p] = "running" /\ handler[q] = "running" /\ p # q =>
                 feeds[p] \cap feeds[q] = {})
<1> DEFINE Disjoint ==
             \A p, q \in Publisher :
               handler[p] = "running" /\ handler[q] = "running" /\ p # q =>
                 feeds[p] \cap feeds[q] = {}
<1>1. IInv => Disjoint
  <2> SUFFICES ASSUME IInv, NEW p \in Publisher, NEW q \in Publisher,
                      handler[p] = "running", handler[q] = "running",
                      NEW s \in feeds[p], s \in feeds[q]
               PROVE  p = q
    OBVIOUS
  <2>1. /\ layerOf[p] \in Layer /\ publishers[layerOf[p]] = p
        /\ layerOf[q] \in Layer /\ publishers[layerOf[q]] = q
        /\ p # NoPublisher /\ q # NoPublisher
    BY TrackAssumption DEF IInv, PublisherInv, RunningPublishersAreListed
  <2>2. currentLayer[s] = layerOf[p]
    BY <2>1, FeederIsFound
  <2>3. currentLayer[s] = layerOf[q]
    BY <2>1, FeederIsFound
  <2> QED
    BY <2>1, <2>2, <2>3
<1> QED
  BY <1>1, TrackInvariance, PTL

=============================================================================
