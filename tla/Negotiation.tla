----------------------------- MODULE Negotiation -----------------------------
(***************************************************************************)
(* The negotiation of what one participant receives.  Either side may      *)
(* start one: the client sends an offer over the data channel; the peer of *)
(* the conference makes one when tracks have been added to its connection  *)
(* or removed.  Three goroutines take part: the connection's callback,     *)
(* which posts its offer to the main loop; the callback of the data        *)
(* channel, which posts what the client sends; and the main loop, which    *)
(* answers and forwards.                                                   *)
(*                                                                         *)
(* A description is the set of tracks it tells the client about, as the    *)
(* client's own tracks make no difference here.  The connection (Pion) and *)
(* the client are outside of the code: the first follows the signaling     *)
(* states of WebRTC, the second is what the code expects of it.            *)
(***************************************************************************)
EXTENDS Naturals, Sequences

CONSTANTS
  Track,         \* the tracks that the participant may subscribe to
  Polite,        \* does the client give up its offer when offers cross?
  PeerQueueCap,  \* capacity of the main loop's queue: 100
  MaxRequests,   \* (un)subscriptions by the client (bounds the model)
  MaxOffers      \* offers by the client (bounds the model)

ASSUME NegotiationAssumption ==
  /\ Polite \in BOOLEAN
  /\ PeerQueueCap \in Nat \ {0}
  /\ MaxRequests \in Nat /\ MaxOffers \in Nat

VARIABLES
  senders,       \* the tracks that have been added to the connection
  agreed,        \* the tracks in the description it has agreed on
  signaling,     \* its signaling state
  pending,       \* the tracks in its offer
  needed,        \* Pion has called the callback since it was stable
  check,         \* Pion is going to check if it must call the callback
  callback,      \* where onNegotiationNeeded is
  offer,         \* the tracks in the offer that it has made
  answering,     \* the main loop is in ProcessSDPOffer
  peerMessages,  \* the main loop's queue
  dataChannel,   \* "none" or, after a second one, "dropped": the peer has
                 \* none; or the one it has is "open" or "closed"
  toSFU,         \* messages that the data channel carries
  toClient,
  client,        \* the client's signaling state
  shown,         \* the tracks in the description that the client has
  requests,      \* numbers of requests and of offers by the client
  offers

pionVars == <<agreed, signaling, pending, needed, check>>
callbackVars == <<callback, offer>>
channelVars == <<dataChannel, toSFU, toClient>>
clientVars == <<client, shown, requests, offers>>
vars == <<senders, pionVars, callbackVars, answering, peerMessages,
          channelVars, clientVars>>

Message ==
  [kind : {"offer", "answer", "subscribe", "unsubscribe",
           "RenegotiationRequired"},
   tracks : SUBSET Track]

Carrying(kind, tracks) == [kind |-> kind, tracks |-> tracks]

TypeOK ==
  /\ senders \in SUBSET Track
  /\ agreed \in SUBSET Track
  /\ signaling \in {"stable", "haveLocalOffer", "haveRemoteOffer"}
  /\ pending \in SUBSET Track
  /\ needed \in BOOLEAN
  /\ check \in BOOLEAN
  /\ callback \in {"idle", "creating", "setting", "sending"}
  /\ offer \in SUBSET Track
  /\ answering \in BOOLEAN
  /\ peerMessages \in Seq(Message)
  /\ Len(peerMessages) <= PeerQueueCap
  /\ dataChannel \in {"none", "open", "closed", "dropped"}
  /\ toSFU \in Seq(Message)
  /\ toClient \in Seq(Message)
  /\ client \in {"stable", "haveLocalOffer"}
  /\ shown \in SUBSET Track
  /\ requests \in 0..MaxRequests
  /\ offers \in 0..MaxOffers

-----------------------------------------------------------------------------
(* The connection.                                                         *)

\* Pion calls the callback if the connection is stable, what it has agreed on
\* is not what it has, and it has not called before.
CheckNegotiationNeeded ==
  /\ check
  /\ callback = "idle"
  /\ check' = FALSE
  /\ IF signaling = "stable" /\ senders # agreed /\ ~needed
     THEN needed' = TRUE /\ callback' = "creating"
     ELSE /\ needed' = (needed /\ (signaling = "stable" => senders # agreed))
          /\ UNCHANGED callback
  /\ UNCHANGED <<senders, agreed, signaling, pending, offer, answering,
                 peerMessages, channelVars, clientVars>>

\* Once stable, the connection checks again.
BecomeStable ==
  /\ signaling' = "stable"
  /\ needed' = FALSE
  /\ check' = TRUE

\* A published track ends, and its subscriptions with it.
TrackEnds(t) ==
  /\ t \in senders
  /\ senders' = senders \ {t}
  /\ check' = TRUE
  /\ UNCHANGED <<agreed, signaling, pending, needed, callbackVars, answering,
                 peerMessages, channelVars, clientVars>>

-----------------------------------------------------------------------------
(* onNegotiationNeeded.                                                    *)

CreateOffer ==
  /\ callback = "creating"
  /\ offer' = senders
  /\ callback' = "setting"
  /\ UNCHANGED <<senders, pionVars, answering, peerMessages, channelVars,
                 clientVars>>

\* Seeded fault: the error is only logged.
SetAndSendOffer ==
  /\ callback = "setting"
  /\ IF signaling = "haveRemoteOffer"
     THEN UNCHANGED <<signaling, pending>>
     ELSE signaling' = "haveLocalOffer" /\ pending' = offer
  /\ callback' = "sending"
  /\ UNCHANGED <<senders, agreed, needed, check, offer, answering,
                 peerMessages, channelVars, clientVars>>

\* The client's offer may have come in between.
SetLocalOffer ==
  /\ callback = "setting"
  /\ IF signaling = "haveRemoteOffer"
     THEN /\ callback' = "idle"
          /\ UNCHANGED <<signaling, pending>>
     ELSE /\ signaling' = "haveLocalOffer"
          /\ pending' = offer
          /\ callback' = "sending"
  /\ UNCHANGED <<senders, agreed, needed, check, offer, answering,
                 peerMessages, channelVars, clientVars>>

\* Seeded fault: the offer is dropped if the queue is full.
PostOfferOrDrop ==
  /\ callback = "sending"
  /\ peerMessages' =
       IF Len(peerMessages) < PeerQueueCap
       THEN Append(peerMessages, Carrying("RenegotiationRequired", offer))
       ELSE peerMessages
  /\ callback' = "idle"
  /\ UNCHANGED <<senders, pionVars, offer, answering, channelVars, clientVars>>

PostOffer ==
  /\ callback = "sending"
  /\ Len(peerMessages) < PeerQueueCap
  /\ peerMessages' =
       Append(peerMessages, Carrying("RenegotiationRequired", offer))
  /\ callback' = "idle"
  /\ UNCHANGED <<senders, pionVars, offer, answering, channelVars, clientVars>>

-----------------------------------------------------------------------------
(* The data channel.                                                       *)

\* onDataChannelReady.  One that comes when the peer has one already makes the
\* peer close that and keep neither.
DataChannelReady ==
  /\ dataChannel' = IF dataChannel \in {"none", "dropped"} THEN "open"
                    ELSE "dropped"
  /\ toSFU' = <<>> /\ toClient' = <<>>
  /\ UNCHANGED <<senders, pionVars, callbackVars, answering, peerMessages,
                 clientVars>>

DataChannelCloses ==
  /\ dataChannel = "open"
  /\ dataChannel' = "closed"
  /\ toSFU' = <<>> /\ toClient' = <<>>
  /\ UNCHANGED <<senders, pionVars, callbackVars, answering, peerMessages,
                 clientVars>>

\* Seeded fault: messages are posted without waiting.
DeliverAlways ==
  /\ toSFU # <<>>
  /\ peerMessages' = Append(peerMessages, Head(toSFU))
  /\ toSFU' = Tail(toSFU)
  /\ UNCHANGED <<senders, pionVars, callbackVars, answering, dataChannel,
                 toClient, clientVars>>

\* OnMessage, which Send may hold up.
Deliver ==
  /\ toSFU # <<>>
  /\ Len(peerMessages) < PeerQueueCap
  /\ peerMessages' = Append(peerMessages, Head(toSFU))
  /\ toSFU' = Tail(toSFU)
  /\ UNCHANGED <<senders, pionVars, callbackVars, answering, dataChannel,
                 toClient, clientVars>>

\* SendOverDataChannel fails unless there is an open one.
SendOverDataChannel(m) ==
  toClient' = IF dataChannel = "open" THEN Append(toClient, m) ELSE toClient

-----------------------------------------------------------------------------
(* The main loop.                                                          *)

Take(kind) ==
  /\ ~answering
  /\ peerMessages # <<>>
  /\ Head(peerMessages).kind = kind
  /\ peerMessages' = Tail(peerMessages)

Given == Head(peerMessages).tracks

\* AddTrack, which may fail, and RemoveTrack.
processTrackSubscriptionMessage ==
  /\ \/ /\ Take("subscribe")
        /\ senders' \in {senders, senders \cup Given}
     \/ /\ Take("unsubscribe")
        /\ senders' = senders \ Given
  /\ check' = (check \/ senders' # senders)
  /\ UNCHANGED <<agreed, signaling, pending, needed, callbackVars, answering,
                 channelVars, clientVars>>

processRenegotiationRequiredMessage ==
  /\ Take("RenegotiationRequired")
  /\ SendOverDataChannel(Carrying("offer", Given))
  /\ UNCHANGED <<senders, pionVars, callbackVars, answering, dataChannel,
                 toSFU, clientVars>>

\* SetRemoteDescription fails while the connection has made an offer itself.
SetRemoteOffer ==
  /\ Take("offer")
  /\ IF signaling = "haveLocalOffer"
     THEN UNCHANGED <<signaling, answering>>
     ELSE signaling' = "haveRemoteOffer" /\ answering' = TRUE
  /\ UNCHANGED <<senders, agreed, pending, needed, check, callbackVars,
                 channelVars, clientVars>>

\* The answer to the client's offer tells nothing new about the tracks.
AnswerOffer ==
  /\ answering
  /\ answering' = FALSE
  /\ BecomeStable
  /\ SendOverDataChannel(Carrying("answer", agreed))
  /\ UNCHANGED <<senders, agreed, pending, callbackVars, peerMessages,
                 dataChannel, toSFU, clientVars>>

\* CreateAnswer or SetLocalDescription fails: the offer stays.
AnswerFails ==
  /\ answering
  /\ answering' = FALSE
  /\ UNCHANGED <<senders, pionVars, callbackVars, peerMessages, channelVars,
                 clientVars>>

\* SetRemoteDescription fails unless the connection has made an offer.
ProcessSDPAnswer ==
  /\ Take("answer")
  /\ IF signaling = "haveLocalOffer"
     THEN agreed' = pending /\ BecomeStable
     ELSE UNCHANGED <<agreed, signaling, needed, check>>
  /\ UNCHANGED <<senders, pending, callbackVars, answering, channelVars,
                 clientVars>>

-----------------------------------------------------------------------------
(* The client.                                                             *)

ClientRequests(t) ==
  /\ dataChannel = "open"
  /\ requests < MaxRequests
  /\ requests' = requests + 1
  /\ \E kind \in {"subscribe", "unsubscribe"} :
       toSFU' = Append(toSFU, Carrying(kind, {t}))
  /\ UNCHANGED <<senders, pionVars, callbackVars, answering, peerMessages,
                 dataChannel, toClient, client, shown, offers>>

ClientOffers ==
  /\ dataChannel = "open"
  /\ client = "stable"
  /\ offers < MaxOffers
  /\ offers' = offers + 1
  /\ client' = "haveLocalOffer"
  /\ toSFU' = Append(toSFU, Carrying("offer", {}))
  /\ UNCHANGED <<senders, pionVars, callbackVars, answering, peerMessages,
                 dataChannel, toClient, shown, requests>>

\* A polite client gives up its own offer.
ClientAnswers ==
  /\ toClient # <<>>
  /\ Head(toClient).kind = "offer"
  /\ toClient' = Tail(toClient)
  /\ IF client = "stable" \/ Polite
     THEN /\ client' = "stable"
          /\ shown' = Head(toClient).tracks
          /\ toSFU' = Append(toSFU, Carrying("answer", shown'))
     ELSE UNCHANGED <<client, shown, toSFU>>
  /\ UNCHANGED <<senders, pionVars, callbackVars, answering, peerMessages,
                 dataChannel, requests, offers>>

ClientIsAnswered ==
  /\ toClient # <<>>
  /\ Head(toClient).kind = "answer"
  /\ toClient' = Tail(toClient)
  /\ client' = "stable"
  /\ UNCHANGED <<senders, pionVars, callbackVars, answering, peerMessages,
                 dataChannel, toSFU, shown, requests, offers>>

-----------------------------------------------------------------------------

\* The client's invite has been answered.
Init ==
  /\ senders = {} /\ agreed = {} /\ pending = {} /\ offer = {} /\ shown = {}
  /\ signaling = "stable" /\ client = "stable"
  /\ needed = FALSE /\ check = FALSE
  /\ callback = "idle"
  /\ answering = FALSE
  /\ peerMessages = <<>> /\ toSFU = <<>> /\ toClient = <<>>
  /\ dataChannel = "none"
  /\ requests = 0 /\ offers = 0

Pion == CheckNegotiationNeeded \/ CreateOffer \/ SetLocalOffer

Loop ==
  \/ processTrackSubscriptionMessage
  \/ processRenegotiationRequiredMessage
  \/ SetRemoteOffer \/ AnswerOffer \/ AnswerFails
  \/ ProcessSDPAnswer

Client == ClientAnswers \/ ClientIsAnswered

Next ==
  \/ Pion \/ PostOffer
  \/ DataChannelReady \/ DataChannelCloses \/ Deliver
  \/ Loop
  \/ \E t \in Track : TrackEnds(t) \/ ClientRequests(t)
  \/ ClientOffers \/ Client

Spec == Init /\ [][Next]_vars

\* Goroutines that can run do, and those that wait to post are served in their
\* turn.  The client takes what it is sent.
Fairness ==
  /\ WF_vars(Pion)
  /\ WF_vars(Loop)
  /\ SF_vars(PostOffer)
  /\ SF_vars(Deliver)
  /\ WF_vars(Client)

FairSpec == Spec /\ Fairness

-----------------------------------------------------------------------------
(* Properties.                                                             *)

\* Unless the connection waits for an answer to its offer, both sides have the
\* same description: whoever made the offers, in whatever order they crossed,
\* whichever were refused, and also if a data channel was lost with them.
StableSidesAgree == signaling # "haveLocalOffer" => agreed = shown

\* As long as the first data channel stays open, a track that has been added
\* to the connection is negotiated, also if it is added in the middle of
\* another negotiation or as offers cross: the client is told about it, unless
\* it is removed or an answer to the client cannot be made.
SubscriptionsAreNegotiated ==
  [](dataChannel \in {"none", "open"}) =>
    \A t \in Track :
      t \in senders ~>
        \/ t \in shown \/ t \notin senders
        \/ signaling = "haveRemoteOffer" /\ ~answering

-----------------------------------------------------------------------------
(* What comments of the code say and the code does not do: TLC refutes     *)
(* each of these.  The README tells how.                                   *)

\* webrtc_callbacks.go says that the callback is called when a change requires
\* renegotiation: one that has failed is made up for once that is possible.
LostOffersAreRepeated ==
  \A t \in Track :
    <>[](t \in senders /\ dataChannel = "open") => <>(t \in shown)

=============================================================================
