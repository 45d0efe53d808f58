--------------------------- MODULE StatusObserver ---------------------------
(***************************************************************************)
(* The status observer of a publisher and the worker that it is made of.   *)
(* The reader of the publisher tells the worker about every packet.  The   *)
(* worker reports over statusCh that no packets came for a while, and that *)
(* they come again.  The event loop of the published track receives the    *)
(* reports.  Module PublishedTrack has what it does with them.             *)
(*                                                                         *)
(* Worker.Send and Worker.Stop exclude each other by a mutex, and both are *)
(* called by the reader only: each is one step.                            *)
(***************************************************************************)
EXTENDS Naturals, Sequences

CONSTANTS ChannelSize,   \* capacity of the channel of the worker (1)
          StatusSize     \* capacity of statusCh (1)

ASSUME ObserverAssumption ==
  /\ ChannelSize \in Nat \ {0}
  /\ StatusSize \in Nat \ {0}

VARIABLES
  reader,        \* "reading", "stopping" (Stop has returned) or "ended"
  incoming,      \* number of packets in the channel of the worker
  closed,        \* has that channel been closed?
  worker,        \* "select", "report" (about to send) or "returned"
  stalled,       \* the flag that the closures of the worker share
  statusCh,      \* reports on their way
  statusClosed,  \* has statusCh been closed?
  told,          \* the last report that the event loop received
  panicked       \* the worker sent on a closed channel

vars == <<reader, incoming, closed, worker, stalled, statusCh, statusClosed,
          told, panicked>>

Status == {"stalled", "recovered"}

TypeOK ==
  /\ reader \in {"reading", "stopping", "ended"}
  /\ incoming \in 0..ChannelSize
  /\ closed \in BOOLEAN
  /\ worker \in {"select", "report", "returned"}
  /\ stalled \in BOOLEAN
  /\ statusCh \in Seq(Status)
  /\ Len(statusCh) <= StatusSize
  /\ statusClosed \in BOOLEAN
  /\ told \in Status
  /\ panicked \in BOOLEAN

\* The report the worker makes when the flag has changed.
Report == IF stalled THEN "stalled" ELSE "recovered"

\* The observer has a copy of the flag, made before it was first set.
IsStalled == FALSE

-----------------------------------------------------------------------------
(* The reader of the publisher.                                            *)

\* Seeded fault: the capacity of the channel is not respected.
ArriveAnyway ==
  /\ reader = "reading"
  /\ incoming <= ChannelSize
  /\ incoming' = incoming + 1
  /\ UNCHANGED <<reader, closed, worker, stalled, statusCh, statusClosed,
                 told, panicked>>

\* packetArrived: a full channel drops the packet's notice.
packetArrived ==
  /\ reader = "reading"
  /\ incoming < ChannelSize
  /\ incoming' = incoming + 1
  /\ UNCHANGED <<reader, closed, worker, stalled, statusCh, statusClosed,
                 told, panicked>>

\* The first half of observer.stop().
StopWorker ==
  /\ reader = "reading"
  /\ reader' = "stopping"
  /\ closed' = TRUE
  /\ UNCHANGED <<incoming, worker, stalled, statusCh, statusClosed, told,
                 panicked>>

\* The second half.
CloseStatusChannel ==
  /\ reader = "stopping"
  /\ reader' = "ended"
  /\ statusClosed' = TRUE
  /\ UNCHANGED <<incoming, closed, worker, stalled, statusCh, told, panicked>>

-----------------------------------------------------------------------------
(* The worker.                                                             *)

\* Seeded fault: every packet is reported as a recovery.
OnAnyTask ==
  /\ worker = "select"
  /\ incoming > 0
  /\ incoming' = incoming - 1
  /\ stalled' = FALSE
  /\ worker' = "report"
  /\ UNCHANGED <<reader, closed, statusCh, statusClosed, told, panicked>>

\* Seeded fault: a recovery is not reported.
ForgetRecovery ==
  /\ worker = "select"
  /\ incoming > 0
  /\ incoming' = incoming - 1
  /\ stalled' = FALSE
  /\ UNCHANGED <<reader, closed, worker, statusCh, statusClosed, told, panicked>>

\* A notice; the first one after a silence is reported.
OnTask ==
  /\ worker = "select"
  /\ incoming > 0
  /\ incoming' = incoming - 1
  /\ stalled' = FALSE
  /\ worker' = IF stalled THEN "report" ELSE "select"
  /\ UNCHANGED <<reader, closed, statusCh, statusClosed, told, panicked>>

\* Seeded fault: the silence is noted and never reported.
NoteTimeout ==
  /\ worker = "select"
  /\ stalled' = TRUE
  /\ UNCHANGED <<reader, incoming, closed, worker, statusCh, statusClosed,
                 told, panicked>>

\* The timer fires; select may take it even if a notice has come meanwhile.
OnTimeout ==
  /\ worker = "select"
  /\ ~stalled
  /\ stalled' = TRUE
  /\ worker' = "report"
  /\ UNCHANGED <<reader, incoming, closed, statusCh, statusClosed, told,
                 panicked>>

SendStatus ==
  /\ worker = "report"
  /\ ~statusClosed
  /\ Len(statusCh) < StatusSize
  /\ statusCh' = Append(statusCh, Report)
  /\ worker' = "select"
  /\ UNCHANGED <<reader, incoming, closed, stalled, statusClosed, told,
                 panicked>>

\* Sending on a closed channel panics, also if the send waits for room.
Panic ==
  /\ worker = "report"
  /\ statusClosed
  /\ panicked' = TRUE
  /\ UNCHANGED <<reader, incoming, closed, worker, stalled, statusCh,
                 statusClosed, told>>

\* Seeded fault: the worker does not notice that its channel is closed.
NeverReturn == FALSE

Return ==
  /\ worker = "select"
  /\ closed
  /\ incoming = 0
  /\ worker' = "returned"
  /\ UNCHANGED <<reader, incoming, closed, stalled, statusCh, statusClosed,
                 told, panicked>>

-----------------------------------------------------------------------------
(* The event loop of the published track.                                  *)

ReceiveStatus ==
  /\ statusCh # <<>>
  /\ told' = Head(statusCh)
  /\ statusCh' = Tail(statusCh)
  /\ UNCHANGED <<reader, incoming, closed, worker, stalled, statusClosed,
                 panicked>>

Init ==
  /\ reader = "reading"
  /\ incoming = 0
  /\ closed = FALSE
  /\ worker = "select"
  /\ stalled = FALSE
  /\ statusCh = <<>>
  /\ statusClosed = FALSE
  /\ told = "recovered"
  /\ panicked = FALSE

Worker == OnTask \/ OnTimeout \/ SendStatus \/ Panic \/ Return

Next ==
  /\ ~panicked
  /\ \/ packetArrived
     \/ StopWorker
     \/ CloseStatusChannel
     \/ Worker
     \/ ReceiveStatus

Spec == Init /\ [][Next]_vars

\* Goroutines run; timers fire.  A select that has a notice again and again
\* takes one.
Fairness ==
  /\ WF_vars(~panicked /\ CloseStatusChannel)
  /\ SF_vars(~panicked /\ OnTask)
  /\ WF_vars(~panicked /\ OnTimeout)
  /\ WF_vars(~panicked /\ (SendStatus \/ Panic))
  /\ SF_vars(~panicked /\ Return)
  /\ WF_vars(~panicked /\ ReceiveStatus)

FairSpec == Spec /\ Fairness

-----------------------------------------------------------------------------
(* Properties.                                                             *)

\* What the event loop has been told, and will be.
Reports ==
  <<told>> \o statusCh \o (IF worker = "report" THEN <<Report>> ELSE <<>>)

\* The reports alternate and end with the present state: the event loop does
\* not hear of the same silence twice, misses no recovery, and once it has
\* received everything it knows what the worker knows.
ReportsAlternate ==
  /\ \A i \in 1..(Len(Reports) - 1) : Reports[i] # Reports[i + 1]
  /\ Reports[Len(Reports)] = Report

\* If packets cease while the publisher goes on, the track is told for good.
SilenceIsReported ==
  \/ []<><<packetArrived>>_vars
  \/ <>(reader # "reading")
  \/ <>[](told = "stalled")

\* A packet that arrives in a silence ends it, unless the publisher stops.
RecoveryIsReported ==
  told = "stalled" /\ incoming > 0 ~>
    told = "recovered" \/ closed \/ panicked

\* Once stopped, the worker returns: no goroutine is left behind, although
\* the channel may be full when it is closed.
StoppedWorkerReturns == closed ~> worker = "returned" \/ panicked

-----------------------------------------------------------------------------
(* What comments of the code say and the code does not do: TLC refutes     *)
(* each of these.  The README tells how, and which of them a run keeps.    *)

\* track_handler.go refuses a publisher that is stalled; for that IsStalled
\* has to tell what the event loop is told.
IsStalledTellsTheStatus ==
  told = "stalled" /\ statusCh = <<>> /\ worker = "select" => IsStalled

\* worker.go says that the worker stops when Stop is called: it does not go
\* on to use the status channel that the observer closes then.
StopEndsTheWorker == ~panicked

=============================================================================
