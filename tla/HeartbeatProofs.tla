--------------------------- MODULE HeartbeatProofs ---------------------------
(***************************************************************************)
(* Proofs about Heartbeat, for any number of sessions and any capacity of  *)
(* the queue.                                                              *)
(***************************************************************************)
EXTENDS Heartbeat, SequenceTheorems, TLAPS

\* A goroutine that has failed as often as it may has ended.
FailuresEndTheHeart ==
  \A s \in Session : failures[s] = retries => heart[s] = "ended"

\* Nothing of a session that has not begun is closed yet.
NewSessionsAreOpen ==
  \A s \in Session : heart[s] = "unused" => ~pongClosed[s]

\* The current session has begun, and was not refused.
CurrentSessionHasBegun ==
  \A s \in Session : session = s => heart[s] \notin {"unused", "refused"}

\* The sink of a session and its channel of pongs are closed together, and
\* not as long as the session is the current one.
SessionsEndAsAWhole ==
  \A s \in Session :
    /\ sealed[s] <=> pongClosed[s]
    /\ session = s => ~pongClosed[s]

Inv ==
  /\ FailuresEndTheHeart
  /\ NewSessionsAreOpen
  /\ CurrentSessionHasBegun
  /\ SessionsEndAsAWhole
  /\ PongsFindTheirChannelOpen

IInv == TypeOK /\ Inv

-----------------------------------------------------------------------------
(* The steps that several actions make.                                    *)

\* The queue keeps its type and its bound when a message is put into it.
LEMMA PutType ==
  ASSUME TypeOK, NEW s \in Session, NEW kind \in {"Pong", "LeftTheCall"},
         Put(s, kind)
  PROVE  peerMessages' \in Seq(Message) /\ Len(peerMessages') <= PeerQueueCap
<1>1. [kind |-> kind, from |-> s] \in Message
  BY DEF Message
<1> QED
  BY <1>1, AppendProperties, HeartbeatAssumption DEF TypeOK, Put

\* And when the main loop takes one.
LEMMA TakeType ==
  ASSUME TypeOK, NEW kind, Take(kind)
  PROVE  peerMessages' \in Seq(Message) /\ Len(peerMessages') <= PeerQueueCap
<1>1. /\ peerMessages \in Seq(Message) /\ peerMessages # <<>>
      /\ peerMessages' = Tail(peerMessages)
  BY DEF TypeOK, Take
<1>2. peerMessages' \in Seq(Message) /\ Len(peerMessages') = Len(peerMessages) - 1
  BY <1>1
<1> QED
  BY <1>2, LenProperties, HeartbeatAssumption DEF TypeOK

\* Terminating a peer respects the types.
LEMMA TerminateType ==
  ASSUME TypeOK, NEW old, Terminate(old)
  PROVE  /\ dataChannel' \in [Session -> {"none", "open", "closed"}]
         /\ sealed' \in [Session -> BOOLEAN]
         /\ sending' \in [Session -> SUBSET {"Pong", "LeftTheCall"}]
         /\ \A s \in Session : sealed'[s] <=> s = old \/ sealed[s]
BY DEF TypeOK, Terminate

\* The current session ends with the removal, and its channel was open.
LEMMA RemoveStep ==
  ASSUME IInv, RemoveParticipant
  PROVE  /\ session' = NoSession
         /\ ~panicked' /\ panicked' \in BOOLEAN
         /\ pongClosed' \in [Session -> BOOLEAN]
         /\ \A s \in Session : pongClosed'[s] <=> s = session \/ pongClosed[s]
BY DEF IInv, TypeOK, Inv, SessionsEndAsAWhole, RemoveParticipant

-----------------------------------------------------------------------------
(* The invariant.                                                          *)

\* At first there is no session.
LEMMA InitInv == Init => IInv
<1> SUFFICES ASSUME Init
             PROVE  IInv
  OBVIOUS
<1>1. session = NoSession /\ NoSession \notin Session
  BY HeartbeatAssumption DEF Init
<1>2. peerMessages \in Seq(Message) /\ Len(peerMessages) <= PeerQueueCap
  BY EmptySeq, HeartbeatAssumption DEF Init
<1>3. /\ ended \in BOOLEAN /\ panicked \in BOOLEAN
      /\ pong \in [Session -> BOOLEAN]
      /\ pongClosed \in [Session -> BOOLEAN]
      /\ sealed \in [Session -> BOOLEAN]
  BY Zenon DEF Init
<1>4. TypeOK
  BY <1>1, <1>2, <1>3 DEF Init, TypeOK, retries
<1> QED
  BY <1>1, <1>4 DEF Init, IInv, Inv, FailuresEndTheHeart, NewSessionsAreOpen,
     CurrentSessionHasBegun, SessionsEndAsAWhole, PongsFindTheirChannelOpen,
     retries

\* A step of a heartbeat's goroutine keeps the invariant.
LEMMA HeartStep ==
  ASSUME IInv, NEW s \in Session, Beat(s) \/ Expire(s) \/ SendTimeout(s)
  PROVE  IInv'
<1> USE DEF IInv, Inv, FailuresEndTheHeart, NewSessionsAreOpen,
            CurrentSessionHasBegun, SessionsEndAsAWhole,
            PongsFindTheirChannelOpen, heartVars, peerVars, loopVars, pongVars
<1>1. CASE Tick(s)
  BY <1>1 DEF Tick, TypeOK
<1>2. CASE SendPing(s)
  BY <1>2 DEF SendPing, TypeOK, retries
<1>3. CASE PingFails(s)
  BY <1>3 DEF PingFails, TypeOK, retries
<1>4. CASE ReceivePong(s)
  <2>1. pong' \in [Session -> BOOLEAN]
    BY <1>4, Zenon DEF ReceivePong, TypeOK
  <2>2. heart' \in [Session -> {"unused", "refused", "waiting", "pinging",
                               "awaiting", "leaving", "ended"}]
    BY <1>4 DEF ReceivePong, TypeOK
  <2> QED
    BY <1>4, <2>1, <2>2 DEF ReceivePong, TypeOK
<1>5. CASE Timeout(s) \/ TimeoutIsRefused(s)
  <2>1. heart' \in [Session -> {"unused", "refused", "waiting", "pinging",
                               "awaiting", "leaving", "ended"}]
    BY <1>5 DEF Timeout, TimeoutIsRefused, TypeOK
  <2> QED
    BY <1>5, <2>1 DEF Timeout, TimeoutIsRefused, TypeOK
<1>6. CASE SendTimeout(s)
  <2>1. peerMessages' \in Seq(Message) /\ Len(peerMessages') <= PeerQueueCap
    BY <1>6, PutType DEF SendTimeout
  <2> QED
    BY <1>6, <2>1 DEF SendTimeout, TypeOK
<1> QED
  BY <1>1, <1>2, <1>3, <1>4, <1>5, <1>6 DEF Beat, Expire

\* So does a step of a peer's callbacks.
LEMMA PeerStep ==
  ASSUME IInv, NEW s \in Session, Peer(s)
  PROVE  IInv'
<1> USE DEF IInv, Inv, FailuresEndTheHeart, NewSessionsAreOpen,
            CurrentSessionHasBegun, SessionsEndAsAWhole,
            PongsFindTheirChannelOpen, heartVars, peerVars, loopVars, pongVars
<1>1. CASE DataChannelReady(s) \/ DataChannelCloses(s)
  <2>1. dataChannel' \in [Session -> {"none", "open", "closed"}]
    BY <1>1 DEF DataChannelReady, DataChannelCloses, TypeOK
  <2> QED
    BY <1>1, <2>1 DEF DataChannelReady, DataChannelCloses, TypeOK
<1>2. ASSUME NEW kind \in {"Pong", "LeftTheCall"},
             EnterSend(s, kind) \/ SendIsRefused(s, kind)
      PROVE  IInv'
  <2>1. PICK now \in SUBSET {"Pong", "LeftTheCall"} :
          sending' = [sending EXCEPT ![s] = now]
    <3>1. sending[s] \in SUBSET {"Pong", "LeftTheCall"}
      BY DEF TypeOK
    <3>2. sending' \in {[sending EXCEPT ![s] = @ \cup {kind}],
                       [sending EXCEPT ![s] = @ \ {kind}]}
      BY <1>2 DEF EnterSend, SendIsRefused
    <3> QED
      BY <3>1, <3>2
  <2> QED
    BY <1>2, <2>1 DEF EnterSend, SendIsRefused, TypeOK
<1>3. ASSUME NEW kind \in {"Pong", "LeftTheCall"}, Send(s, kind)
      PROVE  IInv'
  <2>1. peerMessages' \in Seq(Message) /\ Len(peerMessages') <= PeerQueueCap
    BY <1>3, PutType DEF Send
  <2> QED
    BY <1>3, <2>1 DEF Send, TypeOK
<1> QED
  BY <1>1, <1>2, <1>3 DEF Peer

\* So does one of the main loop, which alone closes channels.
LEMMA LoopStep ==
  ASSUME IInv, Loop
  PROVE  IInv'
<1> USE DEF IInv, Inv, FailuresEndTheHeart, NewSessionsAreOpen,
            CurrentSessionHasBegun, SessionsEndAsAWhole,
            PongsFindTheirChannelOpen, heartVars, peerVars, loopVars, pongVars
<1> USE HeartbeatAssumption
<1>1. CASE processPongMessage
  <2>1. peerMessages' \in Seq(Message) /\ Len(peerMessages') <= PeerQueueCap
    BY <1>1, TakeType DEF processPongMessage
  <2>2. ~panicked' /\ panicked' \in BOOLEAN
    BY <1>1 DEF processPongMessage, TypeOK
  <2>3. pong' \in [Session -> BOOLEAN]
    BY <1>1 DEF processPongMessage, TypeOK
  <2>4. ended' \in BOOLEAN
    BY <1>1 DEF processPongMessage, Return
  <2> QED
    BY <1>1, <2>1, <2>2, <2>3, <2>4 DEF processPongMessage, TypeOK
<1>2. CASE processLeftTheCallMessage
  <2>1. peerMessages' \in Seq(Message) /\ Len(peerMessages') <= PeerQueueCap
    BY <1>2, TakeType DEF processLeftTheCallMessage
  <2>2. ended' \in BOOLEAN
    BY <1>2 DEF processLeftTheCallMessage, Return
  <2>3. CASE session = NoSession
    BY <1>2, <2>1, <2>2, <2>3 DEF processLeftTheCallMessage, TypeOK
  <2>4. CASE session # NoSession
    <3>1. RemoveParticipant /\ Terminate(session)
      BY <1>2, <2>4 DEF processLeftTheCallMessage, RemoveParticipant
    <3>2. TypeOK'
      BY <1>2, <2>1, <2>2, <3>1, RemoveStep, TerminateType
         DEF processLeftTheCallMessage, TypeOK
    <3> QED
      BY <1>2, <3>1, <3>2, RemoveStep, TerminateType
         DEF processLeftTheCallMessage, TypeOK
  <2> QED
    BY <2>3, <2>4
<1>3. CASE onHangup
  <2>1. RemoveParticipant /\ Terminate(session)
    BY <1>3 DEF onHangup, RemoveParticipant
  <2>2. ended' \in BOOLEAN
    BY <1>3 DEF onHangup, Return
  <2>3. TypeOK'
    BY <1>3, <2>1, <2>2, RemoveStep, TerminateType DEF onHangup, TypeOK
  <2> QED
    BY <1>3, <2>1, <2>3, RemoveStep, TerminateType DEF onHangup, TypeOK
<1>4. ASSUME NEW s \in Session, onNewParticipant(s)
      PROVE  IInv'
  <2>1. ended' \in BOOLEAN
    BY <1>4 DEF onNewParticipant, Return
  <2>2. /\ session' \in {s, NoSession}
        /\ heart' \in [Session -> {"unused", "refused", "waiting", "pinging",
                                   "awaiting", "leaving", "ended"}]
        /\ \A t \in Session : heart'[t] # heart[t] => t = s
        /\ session' = s => heart'[s] = "waiting"
        /\ heart[s] = "unused"
    BY <1>4 DEF onNewParticipant, TypeOK
  <2>3. CASE session = NoSession
    BY <1>4, <2>1, <2>2, <2>3 DEF onNewParticipant, TypeOK, retries
  <2>4. CASE session # NoSession
    <3>1. /\ Terminate(session)
          /\ session \in Session
          /\ pongClosed' = [pongClosed EXCEPT ![session] = TRUE]
          /\ panicked' = pongClosed[session]
      BY <1>4, <2>4 DEF onNewParticipant, TypeOK
    <3>2. ~panicked' /\ panicked' \in BOOLEAN
      BY <3>1 DEF TypeOK
    <3>3. /\ pongClosed' \in [Session -> BOOLEAN]
          /\ \A t \in Session : pongClosed'[t] <=> t = session \/ pongClosed[t]
      BY <3>1 DEF TypeOK
    <3>4. TypeOK'
      BY <1>4, <2>1, <2>2, <3>1, <3>2, <3>3, TerminateType
         DEF onNewParticipant, TypeOK
    <3> QED
      BY <1>4, <2>2, <3>1, <3>2, <3>3, <3>4, TerminateType
         DEF onNewParticipant, TypeOK, retries
  <2> QED
    BY <2>3, <2>4
<1> QED
  BY <1>1, <1>2, <1>3, <1>4 DEF Loop

\* Every step keeps the invariant.
LEMMA StepInv == IInv /\ [Next]_vars => IInv'
<1> SUFFICES ASSUME IInv, [Next]_vars
             PROVE  IInv'
  OBVIOUS
<1>1. CASE UNCHANGED vars
  BY <1>1 DEF vars, heartVars, peerVars, loopVars, pongVars, IInv, TypeOK, Inv,
     FailuresEndTheHeart, NewSessionsAreOpen, CurrentSessionHasBegun,
     SessionsEndAsAWhole, PongsFindTheirChannelOpen
<1> QED
  BY <1>1, HeartStep, PeerStep, LoopStep DEF Next

\* The invariant holds in every reachable state.
THEOREM HeartbeatInvariance == Spec => []IInv
BY InitInv, StepInv, PTL DEF Spec

\* The variables keep their types: the queue never exceeds its capacity, and
\* no goroutine makes more than three tries.
THEOREM HeartbeatTypeCorrect == Spec => []TypeOK
BY HeartbeatInvariance, PTL DEF IInv

\* The main loop neither sends on a channel of pongs that is closed nor closes
\* one again, however many sessions there are and whatever is under way from
\* the old ones.
THEOREM PongsArriveSafely == Spec => []PongsFindTheirChannelOpen
BY HeartbeatInvariance, PTL DEF IInv, Inv

\* A session that has been replaced or removed can neither post a message nor
\* get a pong: its sink and its channel are closed in the same step.
THEOREM SessionsEndCompletely == Spec => []SessionsEndAsAWhole
BY HeartbeatInvariance, PTL DEF IInv, Inv

=============================================================================
