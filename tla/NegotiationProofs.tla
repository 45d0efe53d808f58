-------------------------- MODULE NegotiationProofs --------------------------
(***************************************************************************)
(* Proofs about Negotiation, for any tracks, any capacity of the queue and *)
(* any number of requests and offers, with a polite client and another.    *)
(***************************************************************************)
EXTENDS Negotiation, SequenceTheorems, TLAPS

\* Where messages of some kinds are in a queue.
Places(q, kinds) == {i \in DOMAIN q : q[i].kind \in kinds}

\* The offer of the connection and its answer, on their way through the queue
\* of the main loop, to the client and back.
Posted == Places(peerMessages, {"RenegotiationRequired", "answer"})
Sent == Places(toClient, {"offer"})
Answered == Places(toSFU, {"answer"})

\* No queue has two of them.
OneInEachQueue ==
  /\ \A i, j \in Posted : i = j
  /\ \A i, j \in Sent : i = j
  /\ \A i, j \in Answered : i = j

\* The offer is at one place only.
OneOffer ==
  /\ callback = "sending" => Posted = {} /\ Sent = {} /\ Answered = {}
  /\ Posted # {} => Sent = {} /\ Answered = {}
  /\ Sent # {} => Answered = {}

\* As long as it is under way, the connection waits for its answer.
OfferIsAwaited ==
  callback = "sending" \/ Posted # {} \/ Sent # {} \/ Answered # {} =>
    signaling = "haveLocalOffer"

\* It arrives as it was made, and the client that has answered shows it.
OfferIsKept ==
  /\ callback = "sending" => offer = pending
  /\ \A i \in Posted :
       /\ peerMessages[i].kind = "RenegotiationRequired" =>
            peerMessages[i].tracks = pending
       /\ peerMessages[i].kind = "answer" => shown = pending
  /\ \A i \in Sent : toClient[i].tracks = pending
  /\ Answered # {} => shown = pending

\* The connection makes no offer while it waits for the answer to another.
CallbackWaits ==
  callback \in {"creating", "setting"} => signaling # "haveLocalOffer"

\* The main loop answers the offer that the connection has been given.
AnsweringIsOffered == answering => signaling = "haveRemoteOffer"

\* What the client sends is never taken for an offer of the connection.
ClientPostsNoOffer == Places(toSFU, {"RenegotiationRequired"}) = {}

Inv == /\ OneInEachQueue
       /\ OneOffer
       /\ OfferIsAwaited
       /\ OfferIsKept
       /\ CallbackWaits
       /\ AnsweringIsOffered
       /\ ClientPostsNoOffer
       /\ StableSidesAgree

IInv == TypeOK /\ Inv

-----------------------------------------------------------------------------
(* Queues.                                                                 *)

\* A message that is put into a queue has the last place.
LEMMA PlacesOfAppend ==
  ASSUME NEW q \in Seq(Message), NEW m \in Message, NEW kinds
  PROVE  /\ Append(q, m) \in Seq(Message)
         /\ m.kind \notin kinds =>
              Places(Append(q, m), kinds) = Places(q, kinds)
         /\ m.kind \in kinds =>
              Places(Append(q, m), kinds) = Places(q, kinds) \cup {Len(q) + 1}
         /\ \A i \in Places(q, kinds) : Append(q, m)[i] = q[i]
         /\ Append(q, m)[Len(q) + 1] = m
<1>1. /\ Append(q, m) \in Seq(Message)
      /\ DOMAIN q = 1..Len(q)
      /\ DOMAIN Append(q, m) = 1..(Len(q) + 1)
      /\ \A i \in 1..Len(q) : Append(q, m)[i] = q[i]
      /\ Append(q, m)[Len(q) + 1] = m
      /\ Len(q) \in Nat
  OBVIOUS
<1> QED
  BY <1>1 DEF Places

\* One of other kinds leaves the offer and its answer where they are.
LEMMA PlacesElsewhere ==
  ASSUME NEW q \in Seq(Message), NEW m \in Message,
         m.kind \notin {"RenegotiationRequired", "answer"}
  PROVE  LET kinds == {"RenegotiationRequired", "answer"}
         IN  /\ Places(Append(q, m), kinds) = Places(q, kinds)
             /\ \A i \in Places(q, kinds) : Append(q, m)[i] = q[i]
<1> DEFINE kinds == {"RenegotiationRequired", "answer"}
<1>1. m.kind \notin kinds
  OBVIOUS
<1> HIDE DEF kinds
<1>2. Places(Append(q, m), kinds) = Places(q, kinds)
  BY <1>1, PlacesOfAppend
<1>3. \A i \in Places(q, kinds) : Append(q, m)[i] = q[i]
  BY DEF Places
<1> QED
  BY <1>2, <1>3 DEF kinds

\* When the first message is taken, the others move up.
LEMMA PlacesOfTail ==
  ASSUME NEW q \in Seq(Message), q # <<>>, NEW kinds,
         \A i, j \in Places(q, kinds) : i = j
  PROVE  /\ Tail(q) \in Seq(Message)
         /\ \A i, j \in Places(Tail(q), kinds) : i = j
         /\ Head(q).kind \in kinds =>
              /\ 1 \in Places(q, kinds)
              /\ Places(Tail(q), kinds) = {}
         /\ Places(q, kinds) = {} => Places(Tail(q), kinds) = {}
         /\ \A i \in Places(Tail(q), kinds) :
              i + 1 \in Places(q, kinds) /\ Tail(q)[i] = q[i + 1]
<1>1. /\ Len(q) \in Nat \ {0}
      /\ DOMAIN q = 1..Len(q)
      /\ Tail(q) \in Seq(Message)
      /\ DOMAIN Tail(q) = 1..(Len(q) - 1)
      /\ Head(q) = q[1]
      /\ \A i \in 1..(Len(q) - 1) : Tail(q)[i] = q[i + 1]
  BY EmptySeq
<1>2. \A i \in Places(Tail(q), kinds) :
        /\ i \in 1..(Len(q) - 1)
        /\ i + 1 \in Places(q, kinds)
        /\ Tail(q)[i] = q[i + 1]
  BY <1>1 DEF Places
<1>3. Head(q).kind \in kinds => 1 \in Places(q, kinds)
  BY <1>1 DEF Places
<1>4. \A i, j \in Places(Tail(q), kinds) : i = j
  BY <1>1, <1>2
<1>5. \A i \in Places(Tail(q), kinds) : i + 1 # 1
  BY <1>1, <1>2
<1> QED
  BY <1>1, <1>2, <1>3, <1>4, <1>5

\* What is sent over the data channel arrives there, or nowhere.
LEMMA SendType ==
  ASSUME TypeOK, NEW m \in Message, SendOverDataChannel(m)
  PROVE  toClient' \in Seq(Message)
BY DEF TypeOK, SendOverDataChannel

\* The main loop takes a message of the kind that it handles.
LEMMA TakeType ==
  ASSUME TypeOK, NEW kind, Take(kind)
  PROVE  /\ peerMessages \in Seq(Message) /\ peerMessages # <<>>
         /\ peerMessages' = Tail(peerMessages)
         /\ Head(peerMessages).kind = kind
         /\ Given \subseteq Track
         /\ peerMessages' \in Seq(Message)
         /\ Len(peerMessages') <= PeerQueueCap
<1>1. /\ peerMessages \in Seq(Message) /\ peerMessages # <<>>
      /\ peerMessages' = Tail(peerMessages)
      /\ Head(peerMessages).kind = kind
  BY DEF TypeOK, Take
<1>2. Head(peerMessages) \in Message
  BY <1>1
<1>3. peerMessages' \in Seq(Message) /\ Len(peerMessages') = Len(peerMessages) - 1
  BY <1>1
<1> QED
  BY <1>1, <1>2, <1>3, LenProperties, NegotiationAssumption
     DEF TypeOK, Given, Message

-----------------------------------------------------------------------------
(* Types.                                                                  *)

\* The connection's steps keep them, and those of its callback.
LEMMA PionTypes ==
  ASSUME IInv, Pion \/ PostOffer \/ \E t \in Track : TrackEnds(t)
  PROVE  TypeOK'
<1> USE NegotiationAssumption
<1> USE DEF IInv, TypeOK, pionVars, callbackVars, channelVars, clientVars
<1>1. CASE CheckNegotiationNeeded
  <2>1. needed' \in BOOLEAN /\ callback' \in {"idle", "creating"}
    BY <1>1 DEF CheckNegotiationNeeded
  <2> QED
    BY <1>1, <2>1 DEF CheckNegotiationNeeded
<1>2. CASE CreateOffer
  BY <1>2 DEF CreateOffer
<1>3. CASE SetLocalOffer
  BY <1>3 DEF SetLocalOffer
<1>4. CASE PostOffer
  <2>1. Carrying("RenegotiationRequired", offer) \in Message
    BY DEF Carrying, Message
  <2>2. /\ peerMessages' \in Seq(Message)
        /\ Len(peerMessages') <= PeerQueueCap
    BY <1>4, <2>1, AppendProperties DEF PostOffer
  <2> QED
    BY <1>4, <2>2 DEF PostOffer
<1>5. ASSUME NEW t \in Track, TrackEnds(t)
      PROVE  TypeOK'
  BY <1>5 DEF TrackEnds
<1> QED
  BY <1>1, <1>2, <1>3, <1>4, <1>5 DEF Pion

\* So do those of the main loop.
LEMMA LoopTypes ==
  ASSUME IInv, Loop
  PROVE  TypeOK'
<1> USE DEF IInv, pionVars, callbackVars, channelVars, clientVars
<1>1. CASE processTrackSubscriptionMessage
  <2>1. /\ peerMessages' \in Seq(Message)
        /\ Len(peerMessages') <= PeerQueueCap
        /\ Given \subseteq Track
    BY <1>1, TakeType DEF processTrackSubscriptionMessage
  <2>2. senders' \in SUBSET Track /\ check' \in BOOLEAN
    BY <1>1, <2>1 DEF processTrackSubscriptionMessage, TypeOK
  <2> QED
    BY <1>1, <2>1, <2>2 DEF processTrackSubscriptionMessage, TypeOK
<1>2. CASE processRenegotiationRequiredMessage
  <2>1. /\ peerMessages' \in Seq(Message)
        /\ Len(peerMessages') <= PeerQueueCap
        /\ Given \subseteq Track
    BY <1>2, TakeType DEF processRenegotiationRequiredMessage
  <2>2. toClient' \in Seq(Message)
    BY <1>2, <2>1, SendType
       DEF processRenegotiationRequiredMessage, Carrying, Message
  <2> QED
    BY <1>2, <2>1, <2>2 DEF processRenegotiationRequiredMessage, TypeOK
<1>3. CASE SetRemoteOffer
  <2>1. /\ peerMessages' \in Seq(Message)
        /\ Len(peerMessages') <= PeerQueueCap
    BY <1>3, TakeType DEF SetRemoteOffer
  <2> QED
    BY <1>3, <2>1 DEF SetRemoteOffer, TypeOK
<1>4. CASE AnswerOffer
  <2>1. toClient' \in Seq(Message)
    BY <1>4, SendType DEF AnswerOffer, Carrying, Message, TypeOK
  <2> QED
    BY <1>4, <2>1 DEF AnswerOffer, BecomeStable, TypeOK
<1>5. CASE AnswerFails
  BY <1>5 DEF AnswerFails, TypeOK
<1>6. CASE ProcessSDPAnswer
  <2>1. /\ peerMessages' \in Seq(Message)
        /\ Len(peerMessages') <= PeerQueueCap
    BY <1>6, TakeType DEF ProcessSDPAnswer
  <2> QED
    BY <1>6, <2>1 DEF ProcessSDPAnswer, BecomeStable, TypeOK
<1> QED
  BY <1>1, <1>2, <1>3, <1>4, <1>5, <1>6 DEF Loop

\* And those of the data channel and the client.
LEMMA ClientTypes ==
  ASSUME IInv,
         \/ DataChannelReady \/ DataChannelCloses \/ Deliver
         \/ ClientOffers \/ Client
         \/ \E t \in Track : ClientRequests(t)
  PROVE  TypeOK'
<1> USE NegotiationAssumption
<1> USE DEF IInv, TypeOK, pionVars, callbackVars, channelVars, clientVars
<1>1. CASE DataChannelReady \/ DataChannelCloses
  <2>1. toSFU' \in Seq(Message) /\ toClient' \in Seq(Message)
    <3>1. toSFU' = <<>> /\ toClient' = <<>>
      BY <1>1 DEF DataChannelReady, DataChannelCloses
    <3> QED
      BY <3>1
  <2>2. dataChannel' \in {"none", "open", "closed", "dropped"}
    BY <1>1 DEF DataChannelReady, DataChannelCloses
  <2> QED
    BY <1>1, <2>1, <2>2 DEF DataChannelReady, DataChannelCloses
<1>2. CASE Deliver
  <2>1. Head(toSFU) \in Message /\ toSFU' \in Seq(Message)
    BY <1>2 DEF Deliver
  <2>2. /\ peerMessages' \in Seq(Message)
        /\ Len(peerMessages') <= PeerQueueCap
    BY <1>2, <2>1, AppendProperties DEF Deliver
  <2> QED
    BY <1>2, <2>1, <2>2 DEF Deliver
<1>3. ASSUME NEW t \in Track, ClientRequests(t)
      PROVE  TypeOK'
  <2>1. \A kind \in {"subscribe", "unsubscribe"} :
          Carrying(kind, {t}) \in Message
    BY DEF Carrying, Message
  <2>2. toSFU' \in Seq(Message)
    BY <1>3, <2>1, AppendProperties DEF ClientRequests
  <2>3. requests' \in 0..MaxRequests
    BY <1>3 DEF ClientRequests
  <2> QED
    BY <1>3, <2>2, <2>3 DEF ClientRequests
<1>4. CASE ClientOffers
  <2>1. Carrying("offer", {}) \in Message
    BY DEF Carrying, Message
  <2>2. toSFU' \in Seq(Message)
    BY <1>4, <2>1, AppendProperties DEF ClientOffers
  <2>3. offers' \in 0..MaxOffers
    BY <1>4 DEF ClientOffers
  <2> QED
    BY <1>4, <2>2, <2>3 DEF ClientOffers
<1>5. CASE ClientAnswers
  <2>1. toClient' \in Seq(Message) /\ Head(toClient) \in Message
    BY <1>5 DEF ClientAnswers
  <2>2. Head(toClient).tracks \subseteq Track
    BY <2>1 DEF Message
  <2>3. Carrying("answer", Head(toClient).tracks) \in Message
    BY <2>2 DEF Carrying, Message
  <2>4. CASE client = "stable" \/ Polite
    <3>1. /\ client' = "stable"
          /\ shown' = Head(toClient).tracks
          /\ toSFU' = Append(toSFU, Carrying("answer", Head(toClient).tracks))
      BY <1>5, <2>4 DEF ClientAnswers
    <3>2. toSFU' \in Seq(Message)
      BY <2>3, <3>1, AppendProperties
    <3> QED
      BY <1>5, <2>1, <2>2, <3>1, <3>2 DEF ClientAnswers
  <2>5. CASE ~(client = "stable" \/ Polite)
    BY <1>5, <2>1, <2>5 DEF ClientAnswers
  <2> QED
    BY <2>4, <2>5
<1>6. CASE ClientIsAnswered
  <2>1. toClient' \in Seq(Message)
    BY <1>6 DEF ClientIsAnswered
  <2> QED
    BY <1>6, <2>1 DEF ClientIsAnswered
<1> QED
  BY <1>1, <1>2, <1>3, <1>4, <1>5, <1>6 DEF Client

-----------------------------------------------------------------------------
(* The invariant.                                                          *)

\* At first nothing is under way.
LEMMA InitInv == Init => IInv
<1> SUFFICES ASSUME Init PROVE IInv
  OBVIOUS
<1>1. <<>> \in Seq(Message) /\ Len(<<>>) = 0
  OBVIOUS
<1>2. TypeOK
  <2>1. /\ peerMessages \in Seq(Message) /\ Len(peerMessages) <= PeerQueueCap
        /\ toSFU \in Seq(Message) /\ toClient \in Seq(Message)
    BY <1>1, NegotiationAssumption DEF Init
  <2>2. requests \in 0..MaxRequests /\ offers \in 0..MaxOffers
    BY NegotiationAssumption DEF Init
  <2> QED
    BY <2>1, <2>2 DEF Init, TypeOK
<1>3. Posted = {} /\ Sent = {} /\ Answered = {} /\ ClientPostsNoOffer
  BY <1>1 DEF Init, Posted, Sent, Answered, Places, ClientPostsNoOffer
<1> QED
  BY <1>2, <1>3 DEF Init, IInv, Inv, OneInEachQueue, OneOffer, OfferIsAwaited,
     OfferIsKept, CallbackWaits, AnsweringIsOffered, StableSidesAgree

\* The offer stays where it is as long as the queues do.
LEMMA QueuesStay ==
  ASSUME UNCHANGED <<peerMessages, toSFU, toClient>>
  PROVE  /\ Posted' = Posted /\ Sent' = Sent /\ Answered' = Answered
         /\ ClientPostsNoOffer => ClientPostsNoOffer'
BY DEF Posted, Sent, Answered, Places, ClientPostsNoOffer

\* The connection decides that it needs a negotiation, and makes its offer: at
\* that time it does not wait for an answer, so that nothing else is under way.
LEMMA PionKeepsInv ==
  ASSUME IInv, Pion
  PROVE  Inv'
<1> USE DEF IInv, Inv, OneInEachQueue, OneOffer, OfferIsAwaited,
            OfferIsKept, CallbackWaits, AnsweringIsOffered, StableSidesAgree
<1>1. CASE CheckNegotiationNeeded
  <2>1. /\ UNCHANGED <<peerMessages, toSFU, toClient, signaling, pending, offer,
                       answering, agreed, shown>>
        /\ callback = "idle"
        /\ \/ callback' = "creating" /\ signaling = "stable"
           \/ callback' = "idle"
    BY <1>1 DEF CheckNegotiationNeeded, channelVars, clientVars
  <2>2. /\ Posted' = Posted /\ Sent' = Sent /\ Answered' = Answered
        /\ ClientPostsNoOffer'
    BY <2>1, QueuesStay
  <2> QED
    BY <2>1, <2>2
<1>2. CASE CreateOffer
  <2>1. /\ UNCHANGED <<peerMessages, toSFU, toClient, signaling, pending,
                       answering, agreed, shown>>
        /\ callback = "creating"
        /\ callback' = "setting"
    BY <1>2 DEF CreateOffer, pionVars, channelVars, clientVars
  <2>2. /\ Posted' = Posted /\ Sent' = Sent /\ Answered' = Answered
        /\ ClientPostsNoOffer'
    BY <2>1, QueuesStay
  <2> QED
    BY <2>1, <2>2
<1>3. CASE SetLocalOffer
  <2>1. /\ UNCHANGED <<peerMessages, toSFU, toClient, offer, answering, agreed,
                       shown>>
        /\ callback = "setting"
        /\ \/ callback' = "idle" /\ UNCHANGED <<signaling, pending>>
           \/ /\ callback' = "sending" /\ signaling # "haveRemoteOffer"
              /\ signaling' = "haveLocalOffer" /\ pending' = offer
    BY <1>3 DEF SetLocalOffer, channelVars, clientVars
  <2>2. /\ Posted' = Posted /\ Sent' = Sent /\ Answered' = Answered
        /\ ClientPostsNoOffer'
    BY <2>1, QueuesStay
  <2>3. Posted = {} /\ Sent = {} /\ Answered = {}
    BY <2>1
  <2> QED
    BY <2>1, <2>2, <2>3
<1> QED
  BY <1>1, <1>2, <1>3 DEF Pion

\* It posts its offer, which nothing precedes.
LEMMA PostOfferKeepsInv ==
  ASSUME IInv, PostOffer
  PROVE  Inv'
<1>1. /\ UNCHANGED <<toSFU, toClient, signaling, pending, offer, answering,
                     agreed, shown>>
      /\ callback = "sending" /\ callback' = "idle"
      /\ peerMessages' =
           Append(peerMessages, Carrying("RenegotiationRequired", offer))
  BY DEF PostOffer, pionVars, channelVars, clientVars
<1>2. /\ Posted = {} /\ Sent = {} /\ Answered = {}
      /\ signaling = "haveLocalOffer" /\ offer = pending
  BY <1>1 DEF IInv, Inv, OneOffer, OfferIsAwaited, OfferIsKept
<1>3. Sent' = {} /\ Answered' = {} /\ ClientPostsNoOffer'
  BY <1>1, <1>2
     DEF IInv, Inv, Sent, Answered, Places, ClientPostsNoOffer
<1>4. /\ peerMessages \in Seq(Message)
      /\ Carrying("RenegotiationRequired", offer) \in Message
  BY DEF IInv, TypeOK, Carrying, Message
<1>5. /\ Carrying("RenegotiationRequired", offer).kind = "RenegotiationRequired"
      /\ Carrying("RenegotiationRequired", offer).tracks = offer
  BY DEF Carrying
<1>6. /\ Posted' = {Len(peerMessages) + 1}
      /\ peerMessages'[Len(peerMessages) + 1] =
           Carrying("RenegotiationRequired", offer)
  BY <1>1, <1>2, <1>4, <1>5, PlacesOfAppend DEF Posted
<1> QED
  BY <1>1, <1>2, <1>3, <1>5, <1>6
     DEF IInv, Inv, OneInEachQueue, OneOffer, OfferIsAwaited,
         OfferIsKept, CallbackWaits, AnsweringIsOffered, StableSidesAgree

\* A data channel is lost with what it carries.
LEMMA ChannelKeepsInv ==
  ASSUME IInv, DataChannelReady \/ DataChannelCloses
  PROVE  Inv'
<1>1. /\ UNCHANGED <<peerMessages, callback, signaling, pending, offer,
                     answering, agreed, shown>>
      /\ toSFU' = <<>> /\ toClient' = <<>>
  BY DEF DataChannelReady, DataChannelCloses, pionVars, callbackVars,
         clientVars
<1>2. Posted' = Posted
  BY <1>1 DEF Posted, Places
<1>3. Sent' = {} /\ Answered' = {} /\ ClientPostsNoOffer'
  BY <1>1 DEF Sent, Answered, Places, ClientPostsNoOffer
<1> QED
  BY <1>1, <1>2, <1>3
     DEF IInv, Inv, OneInEachQueue, OneOffer, OfferIsAwaited,
         OfferIsKept, CallbackWaits, AnsweringIsOffered, StableSidesAgree

\* What the client has sent moves to the queue of the main loop: an answer is
\* the offer's, and nothing of it is in that queue.
LEMMA DeliverKeepsInv ==
  ASSUME IInv, Deliver
  PROVE  Inv'
<1>1. /\ UNCHANGED <<toClient, callback, signaling, pending, offer,
                     answering, agreed, shown>>
      /\ toSFU # <<>>
      /\ toSFU' = Tail(toSFU)
      /\ peerMessages' = Append(peerMessages, Head(toSFU))
  BY DEF Deliver, pionVars, callbackVars, clientVars
<1>2. /\ peerMessages \in Seq(Message) /\ toSFU \in Seq(Message)
      /\ Head(toSFU) \in Message
  BY <1>1 DEF IInv, TypeOK
<1>3. Sent' = Sent
  BY <1>1 DEF Sent, Places
<1>4. /\ \A i, j \in Answered' : i = j
      /\ Head(toSFU).kind = "answer" => Answered # {} /\ Answered' = {}
      /\ Answered = {} => Answered' = {}
  <2>1. \A i, j \in Places(toSFU, {"answer"}) : i = j
    BY DEF IInv, Inv, OneInEachQueue, Answered
  <2>2. /\ \A i, j \in Places(Tail(toSFU), {"answer"}) : i = j
        /\ Head(toSFU).kind \in {"answer"} =>
             /\ 1 \in Places(toSFU, {"answer"})
             /\ Places(Tail(toSFU), {"answer"}) = {}
        /\ Places(toSFU, {"answer"}) = {} =>
             Places(Tail(toSFU), {"answer"}) = {}
    BY <1>1, <1>2, <2>1, PlacesOfTail
  <2> QED
    BY <1>1, <2>2 DEF Answered
<1>5. /\ Head(toSFU).kind # "RenegotiationRequired"
      /\ ClientPostsNoOffer'
  <2>1. Places(toSFU, {"RenegotiationRequired"}) = {}
    BY DEF IInv, Inv, ClientPostsNoOffer
  <2>2. /\ Places(Tail(toSFU), {"RenegotiationRequired"}) = {}
        /\ Head(toSFU).kind \notin {"RenegotiationRequired"}
    BY <1>1, <1>2, <2>1, PlacesOfTail
  <2> QED
    BY <1>1, <2>2 DEF ClientPostsNoOffer
<1>6. CASE Head(toSFU).kind = "answer"
  <2>1. /\ Answered # {} /\ Answered' = {}
        /\ Posted = {} /\ Sent = {} /\ callback # "sending"
        /\ signaling = "haveLocalOffer" /\ shown = pending
    BY <1>4, <1>6 DEF IInv, Inv, OneOffer, OfferIsAwaited, OfferIsKept
  <2>2. /\ Posted' = {Len(peerMessages) + 1}
        /\ peerMessages'[Len(peerMessages) + 1].kind = "answer"
    BY <1>1, <1>2, <1>6, <2>1, PlacesOfAppend DEF Posted
  <2> QED
    BY <1>1, <1>3, <1>5, <2>1, <2>2
       DEF IInv, Inv, OneInEachQueue, OneOffer, OfferIsAwaited,
           OfferIsKept, CallbackWaits, AnsweringIsOffered, StableSidesAgree
<1>7. CASE Head(toSFU).kind # "answer"
  <2>1. Head(toSFU).kind \notin {"RenegotiationRequired", "answer"}
    BY <1>5, <1>7
  <2>2. /\ Posted' = Posted
        /\ \A i \in Posted : peerMessages'[i] = peerMessages[i]
    BY <1>1, <1>2, <2>1, PlacesElsewhere DEF Posted
  <2> QED
    BY <1>1, <1>3, <1>4, <1>5, <2>2
       DEF IInv, Inv, OneInEachQueue, OneOffer, OfferIsAwaited,
           OfferIsKept, CallbackWaits, AnsweringIsOffered, StableSidesAgree
<1> QED
  BY <1>6, <1>7

\* What the main loop takes leaves its queue, and what is left is what was in
\* the queue.
LEMMA TakeMovesPosted ==
  ASSUME IInv, NEW kind, Take(kind)
  PROVE  /\ \A i, j \in Posted' : i = j
         /\ kind \in {"RenegotiationRequired", "answer"} =>
              1 \in Posted /\ Posted' = {}
         /\ Posted = {} => Posted' = {}
         /\ \A i \in Posted' :
              i + 1 \in Posted /\ peerMessages'[i] = peerMessages[i + 1]
         /\ Head(peerMessages) = peerMessages[1]
<1> DEFINE kinds == {"RenegotiationRequired", "answer"}
<1>1. /\ peerMessages \in Seq(Message) /\ peerMessages # <<>>
      /\ peerMessages' = Tail(peerMessages)
      /\ Head(peerMessages).kind = kind
  BY TakeType DEF IInv
<1>2. \A i, j \in Places(peerMessages, kinds) : i = j
  BY DEF IInv, Inv, OneInEachQueue, Posted
<1>3. /\ \A i, j \in Places(Tail(peerMessages), kinds) : i = j
      /\ kind \in kinds =>
           /\ 1 \in Places(peerMessages, kinds)
           /\ Places(Tail(peerMessages), kinds) = {}
      /\ Places(peerMessages, kinds) = {} =>
           Places(Tail(peerMessages), kinds) = {}
      /\ \A i \in Places(Tail(peerMessages), kinds) :
           /\ i + 1 \in Places(peerMessages, kinds)
           /\ Tail(peerMessages)[i] = peerMessages[i + 1]
  <2> HIDE DEF kinds
  <2> QED
    BY <1>1, <1>2, PlacesOfTail
<1>4. Head(peerMessages) = peerMessages[1]
  BY <1>1
<1> QED
  BY <1>1, <1>3, <1>4 DEF Posted

\* The main loop handles what has nothing to do with the offer, or refuses it,
\* or makes the client's offer the connection's: then it has made none itself.
LEMMA OtherMessagesKeepInv ==
  ASSUME IInv, processTrackSubscriptionMessage \/ SetRemoteOffer
  PROVE  Inv'
<1>1. /\ UNCHANGED <<toSFU, toClient, callback, pending, offer, agreed, shown>>
      /\ \/ UNCHANGED <<signaling, answering>>
         \/ /\ signaling # "haveLocalOffer"
            /\ signaling' = "haveRemoteOffer"
            /\ answering'
  BY DEF processTrackSubscriptionMessage, SetRemoteOffer, pionVars,
         callbackVars, channelVars, clientVars
<1>2. \E kind \in {"subscribe", "unsubscribe", "offer"} : Take(kind)
  BY DEF processTrackSubscriptionMessage, SetRemoteOffer
<1>3. /\ \A i, j \in Posted' : i = j
      /\ Posted = {} => Posted' = {}
      /\ \A i \in Posted' :
           i + 1 \in Posted /\ peerMessages'[i] = peerMessages[i + 1]
  BY <1>2, TakeMovesPosted
<1>4. Sent' = Sent /\ Answered' = Answered /\ ClientPostsNoOffer'
  BY <1>1 DEF IInv, Inv, Sent, Answered, Places, ClientPostsNoOffer
<1> QED
  BY <1>1, <1>3, <1>4
     DEF IInv, Inv, OneInEachQueue, OneOffer, OfferIsAwaited,
         OfferIsKept, CallbackWaits, AnsweringIsOffered, StableSidesAgree

\* It sends the offer to the client as it was made, or loses it if there is no
\* open data channel.
LEMMA ForwardingKeepsInv ==
  ASSUME IInv, processRenegotiationRequiredMessage
  PROVE  Inv'
<1>1. /\ UNCHANGED <<toSFU, callback, signaling, pending, offer, answering,
                     agreed, shown>>
      /\ Take("RenegotiationRequired")
      /\ SendOverDataChannel(Carrying("offer", Given))
  BY DEF processRenegotiationRequiredMessage, pionVars, callbackVars,
         clientVars
<1>2. /\ 1 \in Posted /\ Posted' = {}
      /\ Head(peerMessages) = peerMessages[1]
  BY <1>1, TakeMovesPosted
<1>3. /\ Sent = {} /\ Answered = {} /\ callback # "sending"
      /\ signaling = "haveLocalOffer"
      /\ Given = pending
  <2>1. peerMessages[1].kind = "RenegotiationRequired"
    BY <1>1, <1>2 DEF Take
  <2> QED
    BY <1>2, <2>1
       DEF IInv, Inv, OneOffer, OfferIsAwaited, OfferIsKept, Given
<1>4. Answered' = {} /\ ClientPostsNoOffer'
  BY <1>1, <1>3 DEF IInv, Inv, Answered, Places, ClientPostsNoOffer
<1>5. /\ \A i, j \in Sent' : i = j
      /\ \A i \in Sent' : toClient'[i].tracks = pending
  <2>1. CASE dataChannel = "open"
    <3> DEFINE m == Carrying("offer", Given)
    <3>1. toClient \in Seq(Message) /\ m \in Message
      BY <1>1, TakeType DEF IInv, TypeOK, Carrying, Message
    <3>2. toClient' = Append(toClient, m)
      BY <1>1, <2>1 DEF SendOverDataChannel
    <3>3. m.kind = "offer" /\ m.tracks = pending
      BY <1>3 DEF Carrying
    <3> HIDE DEF m
    <3>4. /\ Sent' = {Len(toClient) + 1}
          /\ toClient'[Len(toClient) + 1] = m
      BY <1>3, <3>1, <3>2, <3>3, PlacesOfAppend DEF Sent
    <3> QED
      BY <3>3, <3>4
  <2>2. CASE dataChannel # "open"
    <3>1. toClient' = toClient
      BY <1>1, <2>2 DEF SendOverDataChannel
    <3> QED
      BY <1>3, <3>1 DEF Sent, Places
  <2> QED
    BY <2>1, <2>2
<1> QED
  BY <1>1, <1>2, <1>3, <1>4, <1>5
     DEF IInv, Inv, OneInEachQueue, OneOffer, OfferIsAwaited,
         OfferIsKept, CallbackWaits, AnsweringIsOffered, StableSidesAgree

\* It answers the client's offer, or fails to: the connection then has made
\* none.
LEMMA AnsweringKeepsInv ==
  ASSUME IInv, AnswerOffer \/ AnswerFails
  PROVE  Inv'
<1>1. /\ UNCHANGED <<peerMessages, toSFU, callback, pending, offer, agreed,
                     shown>>
      /\ answering /\ ~answering'
      /\ signaling' \in {"stable", signaling}
  BY DEF AnswerOffer, AnswerFails, BecomeStable, pionVars, callbackVars,
         channelVars, clientVars
<1>2. /\ signaling = "haveRemoteOffer" /\ callback # "sending"
      /\ Posted = {} /\ Sent = {} /\ Answered = {}
  BY <1>1 DEF IInv, Inv, AnsweringIsOffered, OfferIsAwaited
<1>3. Posted' = {} /\ Answered' = {} /\ ClientPostsNoOffer'
  BY <1>1, <1>2
     DEF IInv, Inv, Posted, Answered, Places, ClientPostsNoOffer
<1>4. Sent' = {}
  <2>1. CASE toClient' = toClient
    BY <1>2, <2>1 DEF Sent, Places
  <2>2. CASE toClient' = Append(toClient, Carrying("answer", agreed))
    <3>1. toClient \in Seq(Message) /\ Carrying("answer", agreed) \in Message
      BY DEF IInv, TypeOK, Carrying, Message
    <3>2. Carrying("answer", agreed).kind \notin {"offer"}
      BY DEF Carrying
    <3> QED
      BY <1>2, <2>2, <3>1, <3>2, PlacesOfAppend DEF Sent
  <2> QED
    BY <2>1, <2>2
       DEF AnswerOffer, AnswerFails, SendOverDataChannel, channelVars
<1> QED
  BY <1>1, <1>2, <1>3, <1>4
     DEF IInv, Inv, OneInEachQueue, OneOffer, OfferIsAwaited,
         OfferIsKept, CallbackWaits, AnsweringIsOffered, StableSidesAgree

\* It takes the client's answer: the connection agrees to its own offer, which
\* is what the client shows.
LEMMA AnswerKeepsInv ==
  ASSUME IInv, ProcessSDPAnswer
  PROVE  Inv'
<1>1. /\ UNCHANGED <<toSFU, toClient, callback, pending, offer, answering,
                     shown>>
      /\ Take("answer")
      /\ signaling = "haveLocalOffer" =>
           agreed' = pending /\ signaling' = "stable"
  BY DEF ProcessSDPAnswer, BecomeStable, callbackVars, channelVars, clientVars
<1>2. /\ 1 \in Posted /\ Posted' = {}
      /\ Head(peerMessages) = peerMessages[1]
  BY <1>1, TakeMovesPosted
<1>3. /\ Sent = {} /\ Answered = {} /\ callback # "sending"
      /\ signaling = "haveLocalOffer"
      /\ shown = pending
  <2>1. peerMessages[1].kind = "answer"
    BY <1>1, <1>2 DEF Take
  <2> QED
    BY <1>2, <2>1 DEF IInv, Inv, OneOffer, OfferIsAwaited, OfferIsKept
<1>4. Sent' = {} /\ Answered' = {} /\ ClientPostsNoOffer'
  BY <1>1, <1>3
     DEF IInv, Inv, Sent, Answered, Places, ClientPostsNoOffer
<1> QED
  BY <1>1, <1>2, <1>3, <1>4
     DEF IInv, Inv, OneInEachQueue, OneOffer, OfferIsAwaited,
         OfferIsKept, CallbackWaits, AnsweringIsOffered, StableSidesAgree

\* What the client asks for, or offers itself, has nothing to do with the offer.
LEMMA ClientSendsKeepInv ==
  ASSUME IInv, ClientOffers \/ \E t \in Track : ClientRequests(t)
  PROVE  Inv'
<1>1. /\ UNCHANGED <<peerMessages, toClient, callback, signaling, pending,
                     offer, answering, agreed, shown>>
      /\ \E kind \in {"offer", "subscribe", "unsubscribe"} :
           \E tracks \in SUBSET Track :
             toSFU' = Append(toSFU, Carrying(kind, tracks))
  BY DEF ClientOffers, ClientRequests, pionVars, callbackVars
<1>2. PICK kind \in {"offer", "subscribe", "unsubscribe"},
           tracks \in SUBSET Track :
             toSFU' = Append(toSFU, Carrying(kind, tracks))
  BY <1>1
<1> DEFINE m == Carrying(kind, tracks)
<1>3. /\ toSFU \in Seq(Message) /\ m \in Message
      /\ m.kind \notin {"answer"}
      /\ m.kind \notin {"RenegotiationRequired"}
  BY DEF IInv, TypeOK, Carrying, Message
<1> HIDE DEF m
<1>4. /\ Places(Append(toSFU, m), {"answer"}) = Places(toSFU, {"answer"})
      /\ Places(Append(toSFU, m), {"RenegotiationRequired"}) =
           Places(toSFU, {"RenegotiationRequired"})
  BY <1>3, PlacesOfAppend
<1>5. Answered' = Answered /\ ClientPostsNoOffer'
  BY <1>2, <1>4 DEF IInv, Inv, Answered, ClientPostsNoOffer, m
<1>6. Posted' = Posted /\ Sent' = Sent
  BY <1>1 DEF Posted, Sent, Places
<1> QED
  BY <1>1, <1>5, <1>6
     DEF IInv, Inv, OneInEachQueue, OneOffer, OfferIsAwaited,
         OfferIsKept, CallbackWaits, AnsweringIsOffered, StableSidesAgree

\* The client takes the offer: it shows it and answers, or it refuses it and
\* nothing is under way.
LEMMA ClientAnswersKeepsInv ==
  ASSUME IInv, ClientAnswers
  PROVE  Inv'
<1>1. /\ UNCHANGED <<peerMessages, callback, signaling, pending, offer,
                     answering, agreed>>
      /\ toClient # <<>> /\ Head(toClient).kind = "offer"
      /\ toClient' = Tail(toClient)
  BY DEF ClientAnswers, pionVars, callbackVars
<1>2. toClient \in Seq(Message) /\ toSFU \in Seq(Message)
  BY DEF IInv, TypeOK
<1>3. \A i, j \in Places(toClient, {"offer"}) : i = j
  BY DEF IInv, Inv, OneInEachQueue, Sent
<1>4. /\ 1 \in Places(toClient, {"offer"})
      /\ Places(Tail(toClient), {"offer"}) = {}
  BY <1>1, <1>2, <1>3, PlacesOfTail
<1>5. 1 \in Sent /\ Sent' = {}
  BY <1>1, <1>4 DEF Sent
<1>6. /\ Posted = {} /\ Answered = {} /\ callback # "sending"
      /\ signaling = "haveLocalOffer"
      /\ Head(toClient).tracks = pending
  <2>1. Head(toClient) = toClient[1]
    BY <1>1, <1>2
  <2> QED
    BY <1>5, <2>1 DEF IInv, Inv, OneOffer, OfferIsAwaited, OfferIsKept
<1>7. Posted' = {}
  BY <1>1, <1>6 DEF Posted, Places
<1>8. CASE client = "stable" \/ Polite
  <2> DEFINE m == Carrying("answer", Head(toClient).tracks)
  <2>1. /\ shown' = Head(toClient).tracks
        /\ toSFU' = Append(toSFU, m)
    BY <1>8 DEF ClientAnswers
  <2>2. m \in Message /\ m.kind = "answer"
    <3>1. Head(toClient) \in Message
      BY <1>1, <1>2
    <3> QED
      BY <3>1 DEF Carrying, Message
  <2> HIDE DEF m
  <2>3. /\ Places(Append(toSFU, m), {"answer"}) =
             Places(toSFU, {"answer"}) \cup {Len(toSFU) + 1}
        /\ Places(Append(toSFU, m), {"RenegotiationRequired"}) =
             Places(toSFU, {"RenegotiationRequired"})
    <3>1. /\ m.kind \in {"answer"}
          /\ m.kind \notin {"RenegotiationRequired"}
      BY <2>2
    <3> QED
      BY <1>2, <2>2, <3>1, PlacesOfAppend
  <2>4. Answered' = {Len(toSFU) + 1} /\ ClientPostsNoOffer'
    BY <1>6, <2>1, <2>3 DEF IInv, Inv, Answered, ClientPostsNoOffer
  <2> QED
    BY <1>1, <1>5, <1>6, <1>7, <2>1, <2>4
       DEF IInv, Inv, OneInEachQueue, OneOffer, OfferIsAwaited,
           OfferIsKept, CallbackWaits, AnsweringIsOffered, StableSidesAgree
<1>9. CASE ~(client = "stable" \/ Polite)
  <2>1. UNCHANGED <<shown, toSFU>>
    BY <1>9 DEF ClientAnswers
  <2>2. Answered' = {} /\ ClientPostsNoOffer'
    BY <1>6, <2>1 DEF IInv, Inv, Answered, Places, ClientPostsNoOffer
  <2> QED
    BY <1>1, <1>5, <1>6, <1>7, <2>1, <2>2
       DEF IInv, Inv, OneInEachQueue, OneOffer, OfferIsAwaited,
           OfferIsKept, CallbackWaits, AnsweringIsOffered, StableSidesAgree
<1> QED
  BY <1>8, <1>9

\* It takes the answer to its own offer, and an offer behind that moves up.
LEMMA ClientIsAnsweredKeepsInv ==
  ASSUME IInv, ClientIsAnswered
  PROVE  Inv'
<1>1. /\ UNCHANGED <<peerMessages, toSFU, callback, signaling, pending, offer,
                     answering, agreed, shown>>
      /\ toClient # <<>>
      /\ toClient' = Tail(toClient)
  BY DEF ClientIsAnswered, pionVars, callbackVars
<1>2. toClient \in Seq(Message)
  BY DEF IInv, TypeOK
<1>3. \A i, j \in Places(toClient, {"offer"}) : i = j
  BY DEF IInv, Inv, OneInEachQueue, Sent
<1>4. /\ \A i, j \in Places(Tail(toClient), {"offer"}) : i = j
      /\ Places(toClient, {"offer"}) = {} =>
           Places(Tail(toClient), {"offer"}) = {}
      /\ \A i \in Places(Tail(toClient), {"offer"}) :
           /\ i + 1 \in Places(toClient, {"offer"})
           /\ Tail(toClient)[i] = toClient[i + 1]
  BY <1>1, <1>2, <1>3, PlacesOfTail
<1>5. /\ \A i, j \in Sent' : i = j
      /\ Sent = {} => Sent' = {}
      /\ \A i \in Sent' :
           i + 1 \in Sent /\ toClient'[i] = toClient[i + 1]
  BY <1>1, <1>4 DEF Sent
<1>6. Posted' = Posted /\ Answered' = Answered /\ ClientPostsNoOffer'
  BY <1>1 DEF IInv, Inv, Posted, Answered, Places, ClientPostsNoOffer
<1> QED
  BY <1>1, <1>5, <1>6
     DEF IInv, Inv, OneInEachQueue, OneOffer, OfferIsAwaited,
         OfferIsKept, CallbackWaits, AnsweringIsOffered, StableSidesAgree

\* A track that ends makes no difference.
LEMMA RestKeepsInv ==
  ASSUME IInv, UNCHANGED vars \/ \E t \in Track : TrackEnds(t)
  PROVE  Inv'
<1>1. UNCHANGED <<peerMessages, toSFU, toClient, callback, signaling, pending,
                  offer, answering, agreed, shown>>
  BY DEF TrackEnds, vars, pionVars, callbackVars, channelVars, clientVars
<1>2. /\ Posted' = Posted /\ Sent' = Sent /\ Answered' = Answered
      /\ ClientPostsNoOffer'
  BY <1>1, QueuesStay DEF IInv, Inv
<1> QED
  BY <1>1, <1>2
     DEF IInv, Inv, OneInEachQueue, OneOffer, OfferIsAwaited,
         OfferIsKept, CallbackWaits, AnsweringIsOffered, StableSidesAgree

LEMMA StepInv == IInv /\ [Next]_vars => IInv'
<1> SUFFICES ASSUME IInv, [Next]_vars PROVE IInv'
  OBVIOUS
<1>1. CASE UNCHANGED vars
  <2>1. TypeOK'
    BY <1>1 DEF IInv, TypeOK, vars, pionVars, callbackVars, channelVars,
                clientVars
  <2> QED
    BY <1>1, <2>1, RestKeepsInv DEF IInv
<1>2. CASE Pion
  BY <1>2, PionTypes, PionKeepsInv DEF IInv
<1>3. CASE PostOffer
  BY <1>3, PionTypes, PostOfferKeepsInv DEF IInv
<1>4. CASE DataChannelReady \/ DataChannelCloses
  BY <1>4, ClientTypes, ChannelKeepsInv DEF IInv
<1>5. CASE Deliver
  BY <1>5, ClientTypes, DeliverKeepsInv DEF IInv
<1>6. CASE Loop
  BY <1>6, LoopTypes, OtherMessagesKeepInv, ForwardingKeepsInv,
     AnsweringKeepsInv, AnswerKeepsInv DEF IInv, Loop
<1>7. CASE \E t \in Track : TrackEnds(t)
  BY <1>7, PionTypes, RestKeepsInv DEF IInv
<1>8. CASE ClientOffers \/ \E t \in Track : ClientRequests(t)
  BY <1>8, ClientTypes, ClientSendsKeepInv DEF IInv
<1>9. CASE Client
  BY <1>9, ClientTypes, ClientAnswersKeepsInv, ClientIsAnsweredKeepsInv
     DEF IInv, Client
<1> QED
  BY <1>1, <1>2, <1>3, <1>4, <1>5, <1>6, <1>7, <1>8, <1>9 DEF Next

-----------------------------------------------------------------------------

\* The strengthened invariant: the offer of the connection is at one place, or
\* nowhere, and what is there is what the connection waits for.
THEOREM NegotiationInvariance == Spec => []IInv
BY InitInv, StepInv, PTL DEF Spec

\* Every variable of the negotiation keeps its type, and the queue its capacity.
THEOREM NegotiationTypeCorrect == Spec => []TypeOK
<1>1. IInv => TypeOK
  BY DEF IInv
<1> QED
  BY <1>1, NegotiationInvariance, PTL

\* The peer and its client agree on what the client receives whenever the
\* connection does not wait for an answer: whoever makes offers, however they
\* cross, whatever is refused or lost with a data channel.
THEOREM SidesAgree == Spec => []StableSidesAgree
<1>1. IInv => StableSidesAgree
  BY DEF IInv, Inv
<1> QED
  BY <1>1, NegotiationInvariance, PTL

\* onNegotiationNeeded calls SetLocalDescription with an offer only while no
\* other offer waits for its answer, although it has let the main loop and the
\* client run since Pion called it: what the error path there handles is an
\* offer by the client.
THEOREM OffersComeOneByOne ==
  Spec => [](callback = "setting" => signaling # "haveLocalOffer")
<1>1. IInv => (callback = "setting" => signaling # "haveLocalOffer")
  BY DEF IInv, Inv, CallbackWaits
<1> QED
  BY <1>1, NegotiationInvariance, PTL

\* An answer that the main loop hands to the connection is one to the offer
\* that the connection waits with, and the client already shows what that
\* offer lists: none is taken for the answer to another offer.
AnswersMeetTheirOffer ==
  [][ProcessSDPAnswer => signaling = "haveLocalOffer" /\ shown = pending]_vars

\* However offers cross, and whatever is lost with a data channel, the answer of
\* a client finds the connection that waits for it.
THEOREM AnswersAreAwaited == Spec => AnswersMeetTheirOffer
<1>1. IInv => [ProcessSDPAnswer =>
                 signaling = "haveLocalOffer" /\ shown = pending]_vars
  <2> SUFFICES ASSUME IInv, ProcessSDPAnswer
               PROVE  signaling = "haveLocalOffer" /\ shown = pending
    OBVIOUS
  <2>1. Take("answer")
    BY DEF ProcessSDPAnswer
  <2>2. 1 \in Posted /\ Head(peerMessages) = peerMessages[1]
    BY <2>1, TakeMovesPosted
  <2>3. peerMessages[1].kind = "answer"
    BY <2>1, <2>2 DEF Take
  <2> QED
    BY <2>2, <2>3 DEF IInv, Inv, OfferIsAwaited, OfferIsKept
<1> QED
  BY <1>1, NegotiationInvariance, PTL DEF AnswersMeetTheirOffer

=============================================================================
