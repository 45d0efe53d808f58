---------------------------- MODULE RouterProofs ----------------------------
(***************************************************************************)
(* Proofs about Router, for any set of conference IDs, stages and events.  *)
(***************************************************************************)
EXTENDS Router, TLAPS

\* Whatever is registered was created for the ID it is registered under.
StagesAreRegisteredOnce ==
  \A id \in ID :
    conferenceSinks[id] # NoStage =>
      /\ conferenceID[conferenceSinks[id]] = id
      /\ status[conferenceSinks[id]] # "unused"

Inv == StagesAreRegisteredOnce /\ RunningConferencesAreRegistered

IInv == TypeOK /\ Inv

\* An event of the instance names an ID that conferenceSinks is defined for.
LEMMA IDOfType ==
  ASSUME NEW e \in Event
  PROVE  IDOf(e) \in ID
BY RouterAssumption DEF IDOf, ID, PossibleEvent

\* The initial states satisfy the invariant.
LEMMA InitInv == Init => IInv
BY DEF Init, IInv, Inv, TypeOK, ID, StagesAreRegisteredOnce,
       RunningConferencesAreRegistered, Running

\* Every step keeps the invariant.
LEMMA StepInv == IInv /\ [Next]_vars => IInv'
<1> SUFFICES ASSUME IInv, [Next]_vars
             PROVE  IInv'
  OBVIOUS
<1> USE RouterAssumption
<1> DEFINE id == IDOf(event)
<1>1. ASSUME event # NoEvent
      PROVE  event \in Event /\ id \in ID
  BY <1>1, IDOfType DEF IInv, TypeOK
<1>2. ASSUME NEW e \in Event, Receive(e)
      PROVE  IInv'
  BY <1>2 DEF Receive, IInv, TypeOK, Inv, StagesAreRegisteredOnce,
              RunningConferencesAreRegistered, Running
<1>3. CASE Return
  BY <1>3 DEF Return, IInv, TypeOK, Inv, StagesAreRegisteredOnce,
              RunningConferencesAreRegistered, Running
<1>4. CASE CreateConference
  <2>1. event # NoEvent /\ conferenceSinks[id] = NoStage
    BY <1>4 DEF CreateConference, Known
  <2>2. PICK c \in Stage :
          /\ status[c] = "unused"
          /\ status' = [status EXCEPT ![c] =
               IF event.offer = "good" THEN "listening" ELSE "failed"]
          /\ conferenceID' = [conferenceID EXCEPT ![c] = id]
          /\ conferenceSinks' = [conferenceSinks EXCEPT ![id] = c]
    BY <1>4 DEF CreateConference
  <2>3. TypeOK'
    BY <1>1, <1>4, <2>1, <2>2 DEF CreateConference, IInv, TypeOK, Running
  <2>4. StagesAreRegisteredOnce'
    <3> SUFFICES ASSUME NEW i \in ID, conferenceSinks'[i] # NoStage
                 PROVE  /\ conferenceID'[conferenceSinks'[i]] = i
                        /\ status'[conferenceSinks'[i]] # "unused"
      BY DEF StagesAreRegisteredOnce
    <3>1. CASE i = id
      BY <1>1, <2>1, <2>2, <3>1 DEF IInv, TypeOK
    <3>2. CASE i # id
      BY <1>1, <2>1, <2>2, <3>2
         DEF IInv, TypeOK, Inv, StagesAreRegisteredOnce
    <3> QED
      BY <3>1, <3>2
  <2>5. RunningConferencesAreRegistered'
    <3> SUFFICES ASSUME NEW d \in Stage, status'[d] \in Running
                 PROVE  conferenceSinks'[conferenceID'[d]] = d
      BY DEF RunningConferencesAreRegistered
    <3>1. CASE d = c
      BY <1>1, <2>1, <2>2, <3>1 DEF IInv, TypeOK
    <3>2. CASE d # c
      BY <1>1, <2>1, <2>2, <3>2
         DEF IInv, TypeOK, Inv, RunningConferencesAreRegistered
    <3> QED
      BY <3>1, <3>2
  <2> QED
    BY <2>3, <2>4, <2>5 DEF IInv, Inv
<1>5. CASE SendToConference
  BY <1>1, <1>5 DEF SendToConference, ToConference, Known, IInv, TypeOK, Inv,
     StagesAreRegisteredOnce, RunningConferencesAreRegistered, Running
<1>6. CASE ForgetConference
  BY <1>1, <1>6 DEF ForgetConference, ToConference, Known, IInv, TypeOK, Inv,
     StagesAreRegisteredOnce, RunningConferencesAreRegistered, Running
<1>7. ASSUME NEW c \in Stage, ConferenceWorks(c)
      PROVE  IInv'
  BY <1>7 DEF ConferenceWorks, IInv, TypeOK, Inv, StagesAreRegisteredOnce,
              RunningConferencesAreRegistered, Running
<1>8. ASSUME NEW c \in Stage, ConferenceFinishes(c)
      PROVE  IInv'
  BY <1>8 DEF ConferenceFinishes, IInv, TypeOK, Inv, StagesAreRegisteredOnce,
              RunningConferencesAreRegistered, Running
<1>9. CASE UNCHANGED vars
  BY <1>9 DEF vars, IInv, TypeOK, Inv, StagesAreRegisteredOnce,
              RunningConferencesAreRegistered, Running
<1> QED
  BY <1>2, <1>3, <1>4, <1>5, <1>6, <1>7, <1>8, <1>9
     DEF Next, HandleEvent, IgnoreInvalid, IgnoreUnknown, IgnoreUnexpected

\* The invariant holds in every reachable state.
THEOREM RouterInvariance == Spec => []IInv
BY InitInv, StepInv, PTL DEF Spec

\* The variables of the router keep their types, whatever events arrive.
THEOREM RouterTypeCorrect == Spec => []TypeOK
BY RouterInvariance, PTL DEF IInv

\* A conference that runs is the one registered for its ID.
THEOREM RunningRegistered == Spec => []RunningConferencesAreRegistered
BY RouterInvariance, PTL DEF IInv, Inv

\* A step that takes an invite with IDs off the router gives it to the
\* conference that is registered for it, which runs: HandleEvent never drops
\* an invite.
THEOREM InvitesArrive == Spec => InvitesAreNotLost
<1> DEFINE Kept ==
      event # NoEvent /\ event.type = "invite" /\ event.ids = "valid"
        /\ event' = NoEvent =>
      \E c \in Stage :
        /\ conferenceID'[c] = event.conf
        /\ conferenceSinks'[event.conf] = c
        /\ \/ status[c] = "listening" /\ status'[c] = "busy"
           \/ status[c] = "unused" /\ status'[c] # "unused"
<1>1. ASSUME IInv, [Next]_vars
      PROVE  [Kept]_vars
  <2> SUFFICES ASSUME event # NoEvent, event.type = "invite",
                      event.ids = "valid", event' = NoEvent
               PROVE  \E c \in Stage :
                        /\ conferenceID'[c] = event.conf
                        /\ conferenceSinks'[event.conf] = c
                        /\ \/ status[c] = "listening" /\ status'[c] = "busy"
                           \/ status[c] = "unused" /\ status'[c] # "unused"
    OBVIOUS
  <2>1. event \in Event /\ IDOf(event) = event.conf /\ event.conf \in ID
    BY <1>1, IDOfType DEF IInv, TypeOK, IDOf
  <2>2. CreateConference \/ SendToConference
    BY <1>1, <2>1, RouterAssumption
       DEF Next, HandleEvent, Receive, IgnoreInvalid, IgnoreUnknown,
           IgnoreUnexpected, ForgetConference, ConferenceWorks,
           ConferenceFinishes, vars
  <2>3. CASE CreateConference
    <3>1. PICK c \in Stage :
            /\ status[c] = "unused"
            /\ status' = [status EXCEPT ![c] =
                 IF event.offer = "good" THEN "listening" ELSE "failed"]
            /\ conferenceID' = [conferenceID EXCEPT ![c] = event.conf]
            /\ conferenceSinks' = [conferenceSinks EXCEPT ![event.conf] = c]
      BY <2>1, <2>3 DEF CreateConference
    <3> QED
      BY <1>1, <2>1, <3>1 DEF IInv, TypeOK
  <2>4. CASE SendToConference
    <3> DEFINE c == conferenceSinks[event.conf]
    <3>1. /\ c \in Stage
          /\ conferenceID[c] = event.conf
      BY <1>1, <2>1, <2>4
         DEF SendToConference, ToConference, Known, IInv, TypeOK, Inv,
             StagesAreRegisteredOnce
    <3> QED
      BY <1>1, <2>1, <2>4, <3>1 DEF SendToConference, IInv, TypeOK
  <2> QED
    BY <2>2, <2>3, <2>4
<1> QED
  BY <1>1, RouterInvariance, PTL DEF Spec, InvitesAreNotLost

=============================================================================
