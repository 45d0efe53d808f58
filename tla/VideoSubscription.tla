-------------------------- MODULE VideoSubscription --------------------------
(***************************************************************************)
(* A video subscription.  The publisher that feeds it puts packets into    *)
(* the queue of a worker, which has them rewritten (module Rewriter) and   *)
(* writes them to the track of the subscriber.  One goroutine reads what   *)
(* the subscriber sends back and tells another one about key frames that   *)
(* it wants.  Unsubscribe may be called by three goroutines: the main loop *)
(* of the conference, the one that waits for the end of the published      *)
(* track, and the reader itself when the connection has ended.             *)
(***************************************************************************)
EXTENDS Rewriter, Sequences

CONSTANTS
  ChannelSize,   \* capacity of the worker's queue: 16
  Late,          \* by how much the first packet after a switch may be ahead
  MaxPackets     \* packets that are forwarded (bounds the model)

ASSUME SubscriptionAssumption ==
  ChannelSize \in Nat \ {0} /\ Late \in Nat /\ MaxPackets \in Nat

VARIABLES
  queue,      \* the worker's channel
  channel,    \* is it "open" or "closed"?
  worker,     \* "running" or "ended"
  stopped,    \* VideoSubscription.stopped
  sender,     \* is the RTP sender "attached", or has it "ended"?
  listed,     \* is the subscription in the map of its published track?
  mutex,      \* who has the mutex of the published track
  at,         \* where the goroutines are that may call Unsubscribe
  events,     \* where processSubscriptionEvents is
  removals,   \* calls of RemoveTrack
  accepted,   \* the last stream that was put into the queue, as far as it was
  forwarded   \* the number of packets put into the queue

queueVars == <<queue, channel, worker, accepted, forwarded>>
callVars == <<stopped, sender, listed, mutex, at, events, removals>>
subVars == <<vars, queueVars, callVars>>

Goroutine == {"loop", "waiter", "rtcp"}

TypeOK ==
  /\ RewriterTypeOK
  /\ queue \in Seq(Packet)
  /\ Len(queue) <= ChannelSize
  /\ channel \in {"open", "closed"}
  /\ worker \in {"running", "ended"}
  /\ stopped \in BOOLEAN
  /\ sender \in {"attached", "ended"}
  /\ listed \in BOOLEAN
  /\ mutex \in {"free", "loop", "waiter"}
  /\ at \in [Goroutine -> {"idle", "reading", "notifying", "calling",
                           "stopping", "removing", "returned", "ended"}]
  /\ events \in {"receiving", "requesting", "forgetting", "ended"}
  /\ removals \in 0..3
  /\ accepted \in [ssrc : Nat, first : [timestamp : Nat, sequenceNumber : Nat],
                   newest : [timestamp : Nat, sequenceNumber : Nat]]
  /\ forwarded \in 0..MaxPackets

-----------------------------------------------------------------------------
(* The publisher and the worker.                                           *)

\* Packets that can follow those in the queue.  The network loses and reorders
\* packets of one stream, within half a cycle.
CanFollow(packet) ==
  packet.ssrc = accepted.ssrc =>
    /\ packet.ids.sequenceNumber + Late >= accepted.first.sequenceNumber
    /\ Near(packet.ids.timestamp, accepted.newest.timestamp, Long)
    /\ Near(packet.ids.sequenceNumber, accepted.newest.sequenceNumber, Short)

\* Seeded fault: the queue grows.
WriteAlways(packet) ==
  /\ forwarded < MaxPackets
  /\ CanFollow(packet)
  /\ channel = "open"
  /\ queue' = Append(queue, packet)
  /\ accepted' =
       IF packet.ssrc # accepted.ssrc
       THEN [ssrc |-> packet.ssrc, first |-> packet.ids,
             newest |-> packet.ids]
       ELSE [accepted EXCEPT !.newest = Max(@, packet.ids)]
  /\ forwarded' = forwarded + 1
  /\ UNCHANGED <<vars, channel, worker, callVars>>

\* Worker.Send.  A packet that finds the channel full or closed is dropped:
\* nothing changes, and the packet is lost like one that never arrived.
WriteRTP(packet) ==
  /\ forwarded < MaxPackets
  /\ CanFollow(packet)
  /\ channel = "open"
  /\ Len(queue) < ChannelSize
  /\ queue' = Append(queue, packet)
  /\ accepted' =
       IF packet.ssrc # accepted.ssrc
       THEN [ssrc |-> packet.ssrc, first |-> packet.ids,
             newest |-> packet.ids]
       ELSE [accepted EXCEPT !.newest = Max(@, packet.ids)]
  /\ forwarded' = forwarded + 1
  /\ UNCHANGED <<vars, channel, worker, callVars>>

\* Seeded fault: the newest packet is taken first.
HandleNewest ==
  /\ worker = "running"
  /\ queue # <<>>
  /\ ProcessIncoming(queue[Len(queue)])
  /\ queue' = SubSeq(queue, 1, Len(queue) - 1)
  /\ UNCHANGED <<channel, worker, accepted, forwarded, callVars>>

\* The task of the worker.  A channel that is closed gives what is left in it.
handlePacket ==
  /\ worker = "running"
  /\ queue # <<>>
  /\ ProcessIncoming(Head(queue))
  /\ queue' = Tail(queue)
  /\ UNCHANGED <<channel, worker, accepted, forwarded, callVars>>

WorkerEnds ==
  /\ worker = "running"
  /\ channel = "closed" /\ queue = <<>>
  /\ worker' = "ended"
  /\ UNCHANGED <<vars, queue, channel, accepted, forwarded, callVars>>

-----------------------------------------------------------------------------
(* Unsubscribe.                                                            *)

Goes(g, place) == at' = [at EXCEPT ![g] = place]

\* The main loop unsubscribes a participant who asks for it or who leaves, and
\* removes the subscription from the map.
LoopUnsubscribes ==
  /\ at["loop"] = "idle"
  /\ mutex = "free"
  /\ listed
  /\ mutex' = "loop"
  /\ listed' = FALSE
  /\ Goes("loop", "calling")
  /\ UNCHANGED <<vars, queueVars, stopped, sender, events, removals>>

\* All publishers have stopped.
TrackEnds ==
  /\ at["waiter"] = "idle"
  /\ mutex = "free"
  /\ listed
  /\ mutex' = "waiter"
  /\ Goes("waiter", "calling")
  /\ UNCHANGED <<vars, queueVars, stopped, sender, listed, events, removals>>

Return(g) ==
  /\ Goes(g, "returned")
  /\ mutex' = IF mutex = g THEN "free" ELSE mutex

\* Seeded fault: the flag is set, but not tested.
UnsubscribeAgain(g) ==
  /\ at[g] = "calling"
  /\ stopped' = TRUE
  /\ Goes(g, "stopping")
  /\ UNCHANGED <<vars, queueVars, sender, listed, mutex, events, removals>>

\* CompareAndSwap: the first one stops the subscription, others return.
Unsubscribe(g) ==
  /\ at[g] = "calling"
  /\ stopped' = TRUE
  /\ IF stopped THEN Return(g) ELSE Goes(g, "stopping") /\ UNCHANGED mutex
  /\ UNCHANGED <<vars, queueVars, sender, listed, events, removals>>

\* Seeded fault: the worker is not told.
SkipWorker(g) ==
  /\ at[g] = "stopping"
  /\ Goes(g, "removing")
  /\ UNCHANGED <<vars, queueVars, stopped, sender, listed, mutex, events,
                 removals>>

StopWorker(g) ==
  /\ at[g] = "stopping"
  /\ channel' = "closed"
  /\ Goes(g, "removing")
  /\ UNCHANGED <<vars, queue, worker, accepted, forwarded, stopped, sender,
                 listed, mutex, events, removals>>

\* RemoveTrack of the subscriber's connection ends the sender, if the end of
\* the connection has not.
RemoveTrack(g) ==
  /\ at[g] = "removing"
  /\ sender' = "ended"
  /\ removals' = removals + 1
  /\ Return(g)
  /\ UNCHANGED <<vars, queueVars, stopped, listed, events>>

\* The connection of the subscriber is closed or fails.
ConnectionEnds ==
  /\ sender = "attached"
  /\ sender' = "ended"
  /\ UNCHANGED <<vars, queueVars, stopped, listed, mutex, at, events, removals>>

-----------------------------------------------------------------------------
(* What the subscriber sends back.                                         *)

\* ReadRTCP returns a request for a key frame, or fails for good.
ReadRTCP ==
  /\ at["rtcp"] = "reading"
  /\ IF sender = "attached" THEN Goes("rtcp", "notifying")
                            ELSE Goes("rtcp", "calling")
  /\ UNCHANGED <<vars, queueVars, stopped, sender, listed, mutex, events,
                 removals>>

\* The channel has no buffer.  A read that returns several requests is like
\* several reads.
RequestKeyFrame ==
  /\ at["rtcp"] = "notifying"
  /\ events = "receiving"
  /\ events' = "requesting"
  /\ Goes("rtcp", "reading")
  /\ UNCHANGED <<vars, queueVars, stopped, sender, listed, mutex, removals>>

\* processKeyFrameRequest asks the publisher under the mutex of the track.
processKeyFrameRequest ==
  /\ events = "requesting"
  /\ mutex = "free"
  /\ events' = "receiving"
  /\ UNCHANGED <<vars, queueVars, stopped, sender, listed, mutex, at, removals>>

CloseRequests ==
  /\ at["rtcp"] = "returned"
  /\ Goes("rtcp", "ended")
  /\ UNCHANGED <<vars, queueVars, stopped, sender, listed, mutex, events,
                 removals>>

RequestsEnd ==
  /\ at["rtcp"] = "ended"
  /\ events = "receiving"
  /\ events' = "forgetting"
  /\ UNCHANGED <<vars, queueVars, stopped, sender, listed, mutex, at, removals>>

Forget ==
  /\ events = "forgetting"
  /\ mutex = "free"
  /\ listed' = FALSE
  /\ events' = "ended"
  /\ UNCHANGED <<vars, queueVars, stopped, sender, mutex, at, removals>>

-----------------------------------------------------------------------------

Init ==
  /\ RewriterInit
  /\ queue = <<>>
  /\ channel = "open"
  /\ worker = "running"
  /\ stopped = FALSE
  /\ sender = "attached"
  /\ listed = TRUE
  /\ mutex = "free"
  /\ at = [g \in Goroutine |-> IF g = "rtcp" THEN "reading" ELSE "idle"]
  /\ events = "receiving"
  /\ removals = 0
  /\ accepted = [ssrc |-> NoSSRC, first |-> Zeros, newest |-> Zeros]
  /\ forwarded = 0

Worker == handlePacket \/ WorkerEnds

Caller(g) == Unsubscribe(g) \/ StopWorker(g) \/ RemoveTrack(g)

Events == processKeyFrameRequest \/ RequestsEnd \/ Forget

Next ==
  \/ \E packet \in Packet : WriteRTP(packet)
  \/ Worker
  \/ LoopUnsubscribes \/ TrackEnds \/ ConnectionEnds
  \/ \E g \in Goroutine : Caller(g)
  \/ ReadRTCP \/ RequestKeyFrame \/ CloseRequests
  \/ Events

Spec == Init /\ [][Next]_subVars

\* Goroutines that can run do.  No one has to unsubscribe, to end a connection
\* or to ask for a key frame.
Fairness ==
  /\ WF_subVars(Worker)
  /\ \A g \in Goroutine : WF_subVars(Caller(g))
  /\ WF_subVars(sender = "ended" /\ ReadRTCP)
  /\ WF_subVars(RequestKeyFrame)
  /\ WF_subVars(CloseRequests)
  /\ WF_subVars(Events)

FairSpec == Spec /\ Fairness

-----------------------------------------------------------------------------
(* Properties.                                                             *)

\* What the encoders of WebRTC do: within a stream the timestamp does not fall
\* from one packet to the next.
FramesInOrder ==
  \A p, q \in Packet :
    p.ssrc = q.ssrc /\ p.ids.sequenceNumber <= q.ids.sequenceNumber =>
      p.ids.timestamp <= q.ids.timestamp

\* Packets reach the rewriter in the order in which they were accepted, so
\* the queue keeps what the rewriter takes for granted about them, whichever
\* packets are dropped as it is full: each step is one of the rewriter.
RewriterIsUsedWell == RewriterSpec

\* Whoever unsubscribes, and if all three do at once: the track is removed
\* from the connection once.
RemovedOnce == removals <= 1

\* A subscription of which someone unsubscribed, or whose connection has
\* ended, ends as a whole: no goroutine is left waiting for a channel or for
\* the mutex, also if the subscriber asks for key frames until then.
SubscriptionEnds ==
  stopped \/ sender = "ended" ~>
    worker = "ended" /\ at["rtcp"] = "ended" /\ events = "ended"

=============================================================================
