------------------------------ MODULE Heartbeat ------------------------------
(***************************************************************************)
(* The heartbeats of one participant of a conference, who may rejoin.      *)
(* Each session has a goroutine that sends pings over the data channel and *)
(* expects pongs on a channel of one element.  The main loop puts them     *)
(* there: it takes them, as all that peers send, from a queue of messages  *)
(* that are known by the ID of the participant, whose current session      *)
(* they are given to.                                                      *)
(*                                                                         *)
(* Time is not modelled: any timer may fire whenever it runs.              *)
(***************************************************************************)
EXTENDS Naturals, Sequences

CONSTANTS
  Session,        \* the sessions of the participant, in which it has joined
  NoSession,
  PeerQueueCap    \* capacity of the queue of messages: 100

ASSUME HeartbeatAssumption ==
  /\ NoSession \notin Session
  /\ PeerQueueCap \in Nat \ {0}

VARIABLES
  session,      \* the participant's current session
  ended,        \* has the main loop returned?
  peerMessages, \* the queue
  heart,        \* where the goroutine of each session is, if it has one
  failures,     \* pings in a row that failed
  pong,         \* is there an element in the channel?
  pongClosed,
  dataChannel,  \* "none", "open" or "closed", as the peer knows it
  sealed,       \* is the sink of the session sealed?
  sending,      \* callbacks of each session that are in Send
  panicked      \* did the main loop use a channel that is closed?

heartVars == <<heart, failures>>
peerVars == <<dataChannel, sealed, sending>>
loopVars == <<session, ended, peerMessages, panicked>>
pongVars == <<pong, pongClosed>>
vars == <<heartVars, peerVars, loopVars, pongVars>>

retries == 3

\* `from` is not in the code's messages.
Message == [kind : {"Pong", "LeftTheCall"}, from : Session]

TypeOK ==
  /\ session \in Session \cup {NoSession}
  /\ ended \in BOOLEAN
  /\ peerMessages \in Seq(Message)
  /\ Len(peerMessages) <= PeerQueueCap
  /\ heart \in [Session -> {"unused", "refused", "waiting", "pinging",
                            "awaiting", "leaving", "ended"}]
  /\ failures \in [Session -> 0..retries]
  /\ pong \in [Session -> BOOLEAN]
  /\ pongClosed \in [Session -> BOOLEAN]
  /\ dataChannel \in [Session -> {"none", "open", "closed"}]
  /\ sealed \in [Session -> BOOLEAN]
  /\ sending \in [Session -> SUBSET {"Pong", "LeftTheCall"}]
  /\ panicked \in BOOLEAN

\* The connection of a session that was refused is not closed.
Connected(s) == heart[s] # "unused" /\ ~sealed[s]

-----------------------------------------------------------------------------
(* The goroutine of a heartbeat.                                           *)

Tick(s) ==
  /\ heart[s] = "waiting"
  /\ heart' = [heart EXCEPT ![s] = "pinging"]
  /\ UNCHANGED <<failures, peerVars, loopVars, pongVars>>

SendPing(s) ==
  /\ heart[s] = "pinging"
  /\ dataChannel[s] = "open"
  /\ heart' = [heart EXCEPT ![s] = "awaiting"]
  /\ failures' = [failures EXCEPT ![s] = 0]
  /\ UNCHANGED <<peerVars, loopVars, pongVars>>

\* Seeded fault: one try too many.
PingFailsOnceMore(s) ==
  /\ heart[s] = "pinging"
  /\ dataChannel[s] # "open"
  /\ failures' = [failures EXCEPT ![s] = @ + 1]
  /\ heart' = [heart EXCEPT ![s] =
                 IF failures'[s] > retries THEN "ended" ELSE @]
  /\ UNCHANGED <<peerVars, loopVars, pongVars>>

\* Without an open data channel: the goroutine ends after the third failure.
PingFails(s) ==
  /\ heart[s] = "pinging"
  /\ dataChannel[s] # "open"
  /\ failures' = [failures EXCEPT ![s] = @ + 1]
  /\ heart' = [heart EXCEPT ![s] =
                 IF failures'[s] = retries THEN "ended" ELSE @]
  /\ UNCHANGED <<peerVars, loopVars, pongVars>>

\* A channel that has been closed first gives the element that is in it.
ReceivePong(s) ==
  /\ heart[s] = "awaiting"
  /\ pong[s] \/ pongClosed[s]
  /\ pong' = [pong EXCEPT ![s] = FALSE]
  /\ heart' = [heart EXCEPT ![s] = IF pong[s] THEN "waiting" ELSE "ended"]
  /\ UNCHANGED <<failures, peerVars, loopVars, pongClosed>>

\* Seeded fault: the goroutine ends and tells nobody.
TimeoutIsSilent(s) ==
  /\ heart[s] = "awaiting"
  /\ heart' = [heart EXCEPT ![s] = "ended"]
  /\ UNCHANGED <<failures, peerVars, loopVars, pongVars>>

\* OnTimeout calls Send, which returns early if the sink is sealed.
Timeout(s) ==
  /\ heart[s] = "awaiting"
  /\ heart' = [heart EXCEPT ![s] = IF sealed[s] THEN "ended" ELSE "leaving"]
  /\ UNCHANGED <<failures, peerVars, loopVars, pongVars>>

Put(s, kind) ==
  /\ Len(peerMessages) < PeerQueueCap
  /\ peerMessages' = Append(peerMessages, [kind |-> kind, from |-> s])

\* The select in Send: into the queue, or back as the sink has been sealed.
SendTimeout(s) ==
  /\ heart[s] = "leaving"
  /\ Put(s, "LeftTheCall")
  /\ heart' = [heart EXCEPT ![s] = "ended"]
  /\ UNCHANGED <<failures, peerVars, session, ended, panicked, pongVars>>

TimeoutIsRefused(s) ==
  /\ heart[s] = "leaving"
  /\ sealed[s]
  /\ heart' = [heart EXCEPT ![s] = "ended"]
  /\ UNCHANGED <<failures, peerVars, loopVars, pongVars>>

-----------------------------------------------------------------------------
(* The peer of a session: callbacks of the connection, and the client.     *)

\* onDataChannelReady.  One that comes when the peer has one already makes the
\* peer close that and keep neither.
DataChannelReady(s) ==
  /\ Connected(s)
  /\ dataChannel' = [dataChannel EXCEPT ![s] =
                       IF @ = "none" THEN "open" ELSE "none"]
  /\ UNCHANGED <<heartVars, sealed, sending, loopVars, pongVars>>

DataChannelCloses(s) ==
  /\ Connected(s)
  /\ dataChannel[s] = "open"
  /\ dataChannel' = [dataChannel EXCEPT ![s] = "closed"]
  /\ UNCHANGED <<heartVars, sealed, sending, loopVars, pongVars>>

\* A callback passes the first test in Send.  A client may send pongs that
\* nobody asked for; a connection may fail.
EnterSend(s, kind) ==
  /\ Connected(s)
  /\ kind \notin sending[s]
  /\ kind = "Pong" => dataChannel[s] = "open"
  /\ sending' = [sending EXCEPT ![s] = @ \cup {kind}]
  /\ UNCHANGED <<heartVars, dataChannel, sealed, loopVars, pongVars>>

Send(s, kind) ==
  /\ kind \in sending[s]
  /\ Put(s, kind)
  /\ sending' = [sending EXCEPT ![s] = @ \ {kind}]
  /\ UNCHANGED <<heartVars, dataChannel, sealed, session, ended, panicked,
                 pongVars>>

SendIsRefused(s, kind) ==
  /\ kind \in sending[s]
  /\ sealed[s]
  /\ sending' = [sending EXCEPT ![s] = @ \ {kind}]
  /\ UNCHANGED <<heartVars, dataChannel, sealed, loopVars, pongVars>>

-----------------------------------------------------------------------------
(* The main loop of the conference.                                        *)

\* Seeded fault: the sink stays open.
TerminateUnsealed(old) ==
  /\ dataChannel' = [s \in Session |->
                       IF s = old /\ dataChannel[s] = "open" THEN "closed"
                       ELSE dataChannel[s]]
  /\ \E late \in {{}, {"LeftTheCall"}} :
       sending' = [s \in Session |->
                     IF s = old THEN sending[s] \cup late ELSE sending[s]]
  /\ UNCHANGED sealed

\* Closing the connection reports its end.  That callback may pass the test
\* in Send before the sink is sealed.
Terminate(old) ==
  /\ dataChannel' = [s \in Session |->
                       IF s = old /\ dataChannel[s] = "open" THEN "closed"
                       ELSE dataChannel[s]]
  /\ \E late \in {{}, {"LeftTheCall"}} :
       sending' = [s \in Session |->
                     IF s = old THEN sending[s] \cup late ELSE sending[s]]
  /\ sealed' = [s \in Session |-> s = old \/ sealed[s]]

\* Seeded fault: the participant stays in the map.
KeepParticipant ==
  /\ Terminate(session)
  /\ pongClosed' = [s \in Session |-> s = session \/ pongClosed[s]]
  /\ panicked' = \E s \in Session : s = session /\ pongClosed[s]
  /\ UNCHANGED session

RemoveParticipant ==
  /\ Terminate(session)
  /\ pongClosed' = [s \in Session |-> s = session \/ pongClosed[s]]
  /\ panicked' = \E s \in Session : s = session /\ pongClosed[s]
  /\ session' = NoSession

\* Without participants the main loop returns.  Others come and go.
Return == ended' \in {FALSE, session' = NoSession}

Take(kind) ==
  /\ ~ended
  /\ peerMessages # <<>>
  /\ Head(peerMessages).kind = kind
  /\ peerMessages' = Tail(peerMessages)

\* If there is a pong already, this one is dropped.
processPongMessage ==
  /\ Take("Pong")
  /\ pong' = [s \in Session |-> pong[s] \/ (s = session /\ ~pongClosed[s])]
  /\ panicked' = \E s \in Session : s = session /\ pongClosed[s]
  /\ UNCHANGED <<heartVars, peerVars, session, pongClosed>>
  /\ Return

processLeftTheCallMessage ==
  /\ Take("LeftTheCall")
  /\ IF session = NoSession
     THEN UNCHANGED <<dataChannel, sealed, sending, session, pongClosed,
                      panicked>>
     ELSE RemoveParticipant
  /\ Return
  /\ UNCHANGED <<heartVars, pong>>

onHangup ==
  /\ ~ended
  /\ session # NoSession
  /\ RemoveParticipant
  /\ Return
  /\ UNCHANGED <<heartVars, peerMessages, pong>>

\* Sessions that were not used yet are alike.
Fresh == CHOOSE s \in Session : heart[s] = "unused"

\* An invite with another session ID ends the session that there is.  The new
\* one starts if its offer is accepted; a connection whose offer was refused
\* stays, with its callbacks, but nobody knows it.
onNewParticipant(s) ==
  /\ ~ended
  /\ heart[s] = "unused"
  /\ s = Fresh
  /\ IF session = NoSession
     THEN UNCHANGED <<dataChannel, sealed, sending, pongClosed, panicked>>
     ELSE /\ Terminate(session)
          /\ pongClosed' = [pongClosed EXCEPT ![session] = TRUE]
          /\ panicked' = pongClosed[session]
  /\ \/ /\ session' = s
        /\ heart' = [heart EXCEPT ![s] = "waiting"]
     \/ /\ session' = NoSession
        /\ heart' \in {heart, [heart EXCEPT ![s] = "refused"]}
  /\ Return
  /\ UNCHANGED <<failures, peerMessages, pong>>

-----------------------------------------------------------------------------

\* The participant has not joined yet.
Init ==
  /\ session = NoSession
  /\ ended = FALSE
  /\ peerMessages = <<>>
  /\ heart = [s \in Session |-> "unused"]
  /\ failures = [s \in Session |-> 0]
  /\ pong = [s \in Session |-> FALSE]
  /\ pongClosed = [s \in Session |-> FALSE]
  /\ dataChannel = [s \in Session |-> "none"]
  /\ sealed = [s \in Session |-> FALSE]
  /\ sending = [s \in Session |-> {}]
  /\ panicked = FALSE

Expire(s) == Timeout(s) \/ TimeoutIsRefused(s)

Beat(s) == Tick(s) \/ SendPing(s) \/ PingFails(s) \/ ReceivePong(s)

Peer(s) ==
  \/ DataChannelReady(s)
  \/ DataChannelCloses(s)
  \/ \E kind \in {"Pong", "LeftTheCall"} :
       EnterSend(s, kind) \/ Send(s, kind) \/ SendIsRefused(s, kind)

Loop ==
  \/ processPongMessage
  \/ processLeftTheCallMessage
  \/ onHangup
  \/ \E s \in Session : onNewParticipant(s)

\* A panic ends the process.
Next ==
  /\ ~panicked
  /\ \/ \E s \in Session : Beat(s) \/ Expire(s) \/ SendTimeout(s) \/ Peer(s)
     \/ Loop

Spec == Init /\ [][Next]_vars

\* Goroutines that can run do, and timers fire.  The main loop empties its
\* queue, and senders are served in their turn.  Nothing is expected of
\* clients, which need not even stop joining.
Fairness ==
  /\ \A s \in Session :
       /\ WF_vars(~panicked /\ Beat(s))
       /\ WF_vars(~panicked /\ Expire(s))
       /\ SF_vars(~panicked /\ SendTimeout(s))
  /\ WF_vars(~panicked /\ (processPongMessage \/ processLeftTheCallMessage))

FairSpec == Spec /\ Fairness

-----------------------------------------------------------------------------
(* Properties.                                                             *)

\* Pongs that were under way when their session was removed, or replaced, do
\* not meet a channel that has been closed, and no channel is closed twice:
\* either would end the process.
PongsFindTheirChannelOpen == ~panicked

\* The goroutine of a session that has been removed ends: neither a pong that
\* does not come, nor a data channel that is gone, nor a queue that is full,
\* also for ever as the main loop has returned, can keep it.
HeartbeatsEnd ==
  \A s \in Session : pongClosed[s] ~> heart[s] = "ended" \/ panicked

\* The pongs of a session whose callbacks have begun.
Pongs(s) == {"Pong"} \cap sending[s]

\* A participant whose client does not answer any more leaves the call: the
\* timeout reaches the main loop, and the main loop removes the participant.
\* Pongs of other sessions can put that off, but not for ever.  A session
\* whose pings failed three times has no heartbeat, and may stay.
SilentParticipantsLeave ==
  <>[][\A s \in Session : Pongs(s)' \subseteq Pongs(s)]_vars =>
    \A s \in Session : session = s ~> session # s \/ failures[s] = retries

-----------------------------------------------------------------------------
(* What comments of the code say and the code does not do: TLC refutes     *)
(* each of these.  The README tells how.                                   *)

\* heartbeat.go says that the goroutine stops once the channel is closed or
\* upon handling the timeout.
HeartbeatsLast ==
  \A s \in Session :
    heart[s] = "ended" =>
      \/ pongClosed[s]
      \/ \E i \in DOMAIN peerMessages : peerMessages[i].kind = "LeftTheCall"

\* sink.go says that peers do not influence each other's state: the end of an
\* old session does not end the current one.
SessionsEndThemselves ==
  [][processLeftTheCallMessage /\ session # NoSession =>
       Head(peerMessages).from = session]_vars

\* config.go says that a participant who does not answer a ping is considered
\* to have left: the pongs that count are those of the session.
PongsAreOfTheSession ==
  [][processPongMessage /\ session # NoSession =>
       Head(peerMessages).from = session]_vars

=============================================================================
