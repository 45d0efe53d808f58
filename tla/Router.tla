------------------------------- MODULE Router -------------------------------
(***************************************************************************)
(* The router: one goroutine that takes the To-Device events of Matrix one *)
(* by one and hands each to the conference it names, creating conferences  *)
(* for invites.  A conference is a goroutine of its own (module Conference *)
(* has its loop); here it either waits in the select of its main loop,     *)
(* processes a message, or has ended by itself, which the router finds out *)
(* only when it has an event for it.                                       *)
(***************************************************************************)
EXTENDS Naturals

CONSTANTS
  ConfID,       \* the conference IDs that clients use
  EmptyID,      \* the empty string, the ID of events that have none
  Stage,        \* conferences, started or failed, with their channels
  Event,        \* the To-Device events of the instance
  NoStage, NoEvent

EventType == {"invite", "candidates", "select_answer", "hangup", "other"}

\* `ids` tells whether conf_id, call_id and device_id are all there ("valid"),
\* one is missing, or one is not a string ("invalid"); `offer` whether a peer
\* would accept the SDP of an invite.
PossibleEvent ==
  [type : EventType, conf : ConfID, ids : {"valid", "missing", "invalid"},
   offer : {"good", "bad"}]

ASSUME RouterAssumption ==
  /\ NoStage \notin Stage
  /\ Event \subseteq PossibleEvent
  /\ NoEvent \notin Event

VARIABLES
  conferenceSinks,  \* the stage registered for each conference ID
  conferenceID,     \* the ID for which a stage was created
  status,           \* "unused", "failed", "listening", "busy" or "done"
  event             \* the event that handleMatrixEvent works on

vars == <<conferenceSinks, conferenceID, status, event>>

ID == ConfID \cup {EmptyID}

Running == {"listening", "busy"}

TypeOK ==
  /\ conferenceSinks \in [ID -> Stage \cup {NoStage}]
  /\ conferenceID \in [Stage -> ID]
  /\ status \in [Stage -> Running \cup {"unused", "failed", "done"}]
  /\ event \in Event \cup {NoEvent}

\* The ID under which handleMatrixEvent looks the conference up: events with
\* a missing ID are not returned early and keep the zero value.
IDOf(e) == IF e.ids = "valid" THEN e.conf ELSE EmptyID

Known(e) == conferenceSinks[IDOf(e)] # NoStage

-----------------------------------------------------------------------------
(* The router.                                                             *)

\* The sync callback passes an event on when the router is ready to take it.
\* Invites arrive as long as there is a stage left (bounds the model).
Receive(e) ==
  /\ event = NoEvent
  /\ e.type = "invite" => \E c \in Stage : status[c] = "unused"
  /\ event' = e
  /\ UNCHANGED <<conferenceSinks, conferenceID, status>>

Return ==
  /\ event' = NoEvent
  /\ UNCHANGED <<conferenceSinks, conferenceID, status>>

IgnoreInvalid ==
  /\ event # NoEvent
  /\ event.ids = "invalid"
  /\ Return

\* Seeded fault: StartConference is given call_id, a string too, as conf_id.
CreateWithCallID ==
  /\ event # NoEvent
  /\ event.ids # "invalid" /\ ~Known(event) /\ event.type = "invite"
  /\ \E c \in Stage :
       /\ status[c] = "unused"
       /\ status' = [status EXCEPT ![c] =
                       IF event.offer = "good" THEN "listening" ELSE "failed"]
       /\ conferenceID' = [conferenceID EXCEPT ![c] = "call_id"]
       /\ conferenceSinks' = [conferenceSinks EXCEPT ![IDOf(event)] = c]
  /\ event' = NoEvent

\* Only invites create a conference.  StartConference runs in the goroutine
\* of the router; when the first participant cannot join it returns neither
\* a channel nor an error, and the stage is registered all the same.
CreateConference ==
  /\ event # NoEvent
  /\ event.ids # "invalid" /\ ~Known(event) /\ event.type = "invite"
  /\ \E c \in Stage :
       /\ status[c] = "unused"
       /\ status' = [status EXCEPT ![c] =
                       IF event.offer = "good" THEN "listening" ELSE "failed"]
       /\ conferenceID' = [conferenceID EXCEPT ![c] = IDOf(event)]
       /\ conferenceSinks' = [conferenceSinks EXCEPT ![IDOf(event)] = c]
  /\ event' = NoEvent

IgnoreUnknown ==
  /\ event # NoEvent
  /\ event.ids # "invalid" /\ ~Known(event) /\ event.type # "invite"
  /\ Return

IgnoreUnexpected ==
  /\ event # NoEvent
  /\ event.ids # "invalid" /\ Known(event) /\ event.type = "other"
  /\ Return

\* The select at the end of handleMatrixEvent.  The channel of a failed stage
\* has no reader, and its `done` channel is nil: neither branch is ever ready.
ToConference ==
  /\ event # NoEvent
  /\ event.ids # "invalid" /\ Known(event) /\ event.type # "other"

SendToConference ==
  /\ ToConference
  /\ LET c == conferenceSinks[IDOf(event)] IN
       /\ status[c] = "listening"
       /\ status' = [status EXCEPT ![c] = "busy"]
  /\ event' = NoEvent
  /\ UNCHANGED <<conferenceSinks, conferenceID>>

\* Seeded fault: a conference that is busy is forgotten, too.
ForgetBusyConference ==
  /\ ToConference
  /\ status[conferenceSinks[IDOf(event)]] \in {"busy", "done"}
  /\ conferenceSinks' = [conferenceSinks EXCEPT ![IDOf(event)] = NoStage]
  /\ UNCHANGED <<conferenceID, status, event>>

\* Seeded fault: the event is dropped, not processed again.
ForgetEvent ==
  /\ ToConference
  /\ status[conferenceSinks[IDOf(event)]] = "done"
  /\ conferenceSinks' = [conferenceSinks EXCEPT ![IDOf(event)] = NoStage]
  /\ event' = NoEvent
  /\ UNCHANGED <<conferenceID, status>>

\* Seeded fault: the conference stays registered.
RememberConference ==
  /\ ToConference
  /\ status[conferenceSinks[IDOf(event)]] = "done"
  /\ UNCHANGED vars

\* The conference has ended: forget it and process the event again.
ForgetConference ==
  /\ ToConference
  /\ status[conferenceSinks[IDOf(event)]] = "done"
  /\ conferenceSinks' = [conferenceSinks EXCEPT ![IDOf(event)] = NoStage]
  /\ UNCHANGED <<conferenceID, status, event>>

HandleEvent ==
  \/ IgnoreInvalid
  \/ CreateConference
  \/ IgnoreUnknown
  \/ IgnoreUnexpected
  \/ SendToConference
  \/ ForgetConference

-----------------------------------------------------------------------------
(* The conferences, as far as the router can tell.                         *)

\* The main loop takes the message of a peer or of a track.
ConferenceWorks(c) ==
  /\ status[c] = "listening"
  /\ status' = [status EXCEPT ![c] = "busy"]
  /\ UNCHANGED <<conferenceSinks, conferenceID, event>>

\* The message is processed; without participants the loop returns.
ConferenceFinishes(c) ==
  /\ status[c] = "busy"
  /\ \E next \in {"listening", "done"} :
       status' = [status EXCEPT ![c] = next]
  /\ UNCHANGED <<conferenceSinks, conferenceID, event>>

Init ==
  /\ conferenceSinks = [id \in ID |-> NoStage]
  /\ conferenceID = [c \in Stage |-> EmptyID]
  /\ status = [c \in Stage |-> "unused"]
  /\ event = NoEvent

Next ==
  \/ \E e \in Event : Receive(e)
  \/ HandleEvent
  \/ \E c \in Stage : ConferenceWorks(c) \/ ConferenceFinishes(c)

Spec == Init /\ [][Next]_vars

\* The router runs whenever it can.  A conference finishes what it does, as no
\* handler of its loop blocks.  Its select is fair to the router, which may
\* find it busy any number of times.
Fairness ==
  /\ WF_vars(IgnoreInvalid \/ CreateConference \/ IgnoreUnknown
               \/ IgnoreUnexpected \/ ForgetConference)
  /\ SF_vars(SendToConference)
  /\ \A c \in Stage : WF_vars(ConferenceFinishes(c))

FairSpec == Spec /\ Fairness

-----------------------------------------------------------------------------
(* Properties.                                                             *)

\* A conference that runs is the one registered for its ID, so its
\* participants can be reached and no second conference takes the ID: the
\* router forgets a conference only after it has ended.
RunningConferencesAreRegistered ==
  \A c \in Stage : status[c] \in Running => conferenceSinks[conferenceID[c]] = c

\* An invite with IDs is never dropped, also when the conference it names
\* ends while the router is about to send: it reaches a running conference
\* with its ID or starts one.
InvitesAreNotLost ==
  [][event # NoEvent /\ event.type = "invite" /\ event.ids = "valid"
       /\ event' = NoEvent =>
     \E c \in Stage :
       /\ conferenceID'[c] = event.conf
       /\ conferenceSinks'[event.conf] = c
       /\ \/ status[c] = "listening" /\ status'[c] = "busy"
          \/ status[c] = "unused" /\ status'[c] # "unused"]_vars

\* No event keeps the router for ever, unless it is for a conference that
\* failed to start: a busy conference, or one that ends, does not block it.
EventsAreHandled ==
  event # NoEvent ~>
    \/ event = NoEvent
    \/ ToConference /\ status[conferenceSinks[IDOf(event)]] = "failed"

-----------------------------------------------------------------------------
(* What comments of the code say and the code does not do: TLC refutes     *)
(* each of these.  The README tells how, and which of them a run keeps.    *)

\* start.go says that a conference starts or its start fails with an error,
\* on which the router returns without registering it.
RegisteredConferencesStarted ==
  \A id \in ID : conferenceSinks[id] # NoStage =>
                   status[conferenceSinks[id]] # "failed"

\* router.go says that messages without IDs are ignored.
NoConferenceWithoutID == conferenceSinks[EmptyID] = NoStage

=============================================================================
