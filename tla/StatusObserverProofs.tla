------------------------- MODULE StatusObserverProofs -------------------------
(***************************************************************************)
(* Proofs about StatusObserver, for channels of any capacity.              *)
(***************************************************************************)
EXTENDS StatusObserver, SequenceTheorems, TLAPS

\* What the event loop has been told when it has received everything that is
\* in the channel.
LastTold == IF statusCh = <<>> THEN told ELSE statusCh[Len(statusCh)]

\* Reports alternate as far as they have been sent.
SentAlternate ==
  /\ statusCh # <<>> => statusCh[1] # told
  /\ \A i \in 1..(Len(statusCh) - 1) : statusCh[i] # statusCh[i + 1]

\* A report is about to be sent if and only if the event loop would not know
\* of the present state without it.
ReportWhenNeeded == worker = "report" <=> LastTold # Report

Inv == SentAlternate /\ ReportWhenNeeded

IInv == TypeOK /\ Inv

-----------------------------------------------------------------------------
(* The channel.                                                            *)

\* A report is one of the two.
LEMMA ReportType == Report \in Status
BY DEF Report, Status

\* There are two reports only: those that differ from a third are equal.
LEMMA TwoReports ==
  ASSUME NEW a \in Status, NEW b \in Status, NEW c \in Status, a # c, b # c
  PROVE  a = b
BY DEF Status

\* Sending puts the report behind those in the channel.
LEMMA SendEffect ==
  ASSUME TypeOK, SendStatus
  PROVE  /\ statusCh' \in Seq(Status)
         /\ Len(statusCh') = Len(statusCh) + 1
         /\ \A i \in 1..Len(statusCh) : statusCh'[i] = statusCh[i]
         /\ statusCh'[Len(statusCh')] = Report
         /\ statusCh' # <<>>
<1>1. statusCh \in Seq(Status) /\ statusCh' = Append(statusCh, Report)
  BY DEF TypeOK, SendStatus
<1> QED
  BY <1>1, ReportType, AppendProperties

\* Receiving takes the first one.
LEMMA ReceiveEffect ==
  ASSUME TypeOK, ReceiveStatus
  PROVE  /\ told' = statusCh[1] /\ told' \in Status
         /\ statusCh' \in Seq(Status)
         /\ Len(statusCh') = Len(statusCh) - 1
         /\ \A i \in 1..Len(statusCh') : statusCh'[i] = statusCh[i + 1]
         /\ Len(statusCh) \in Nat \ {0}
<1>1. /\ statusCh \in Seq(Status) /\ statusCh # <<>>
      /\ told' = Head(statusCh) /\ statusCh' = Tail(statusCh)
  BY DEF TypeOK, ReceiveStatus
<1>2. Len(statusCh) \in Nat \ {0}
  BY <1>1, EmptySeq
<1> QED
  BY <1>1, <1>2, HeadTailProperties

-----------------------------------------------------------------------------
(* The invariant.                                                          *)

\* At first the event loop knows that packets come.
LEMMA InitInv == Init => IInv
<1> SUFFICES ASSUME Init
             PROVE  IInv
  OBVIOUS
<1>1. statusCh \in Seq(Status) /\ Len(statusCh) = 0
  BY DEF Init
<1>2. incoming \in 0..ChannelSize /\ Len(statusCh) <= StatusSize
  BY <1>1, ObserverAssumption DEF Init
<1>3. TypeOK
  BY <1>1, <1>2, Zenon DEF Init, TypeOK, Status
<1> QED
  BY <1>1, <1>3 DEF Init, IInv, Inv, SentAlternate, ReportWhenNeeded,
     LastTold, Report

\* Every step keeps the types.
LEMMA TypeStep ==
  ASSUME IInv, Next
  PROVE  TypeOK'
<1> USE ObserverAssumption
<1>1. CASE packetArrived \/ StopWorker \/ CloseStatusChannel
  <2>1. incoming' \in 0..ChannelSize
    BY <1>1 DEF IInv, TypeOK, packetArrived, StopWorker, CloseStatusChannel
  <2> QED
    BY <1>1, <2>1, Zenon
       DEF IInv, TypeOK, packetArrived, StopWorker, CloseStatusChannel
<1>2. CASE OnTask \/ OnTimeout \/ Panic \/ Return
  <2>1. incoming' \in 0..ChannelSize
    BY <1>2 DEF IInv, TypeOK, OnTask, OnTimeout, Panic, Return
  <2>2. worker' \in {"select", "report", "returned"}
    BY <1>2 DEF IInv, TypeOK, OnTask, OnTimeout, Panic, Return
  <2> QED
    BY <1>2, <2>1, <2>2, Zenon
       DEF IInv, TypeOK, OnTask, OnTimeout, Panic, Return
<1>3. CASE SendStatus
  BY <1>3, SendEffect DEF IInv, TypeOK, SendStatus
<1>4. CASE ReceiveStatus
  BY <1>4, ReceiveEffect DEF IInv, TypeOK, ReceiveStatus
<1> QED
  BY <1>1, <1>2, <1>3, <1>4 DEF Next, Worker

\* What is told alternates after every step.
LEMMA AlternationStep ==
  ASSUME IInv, Next
  PROVE  SentAlternate' /\ ReportWhenNeeded'
<1> USE DEF IInv, Inv, SentAlternate, ReportWhenNeeded
<1>0. statusCh \in Seq(Status) /\ Len(statusCh) \in Nat /\ told \in Status
  BY DEF TypeOK
<1>a. LastTold \in Status
  BY <1>0, EmptySeq, ElementOfSeq DEF LastTold
<1>1. CASE packetArrived \/ StopWorker \/ CloseStatusChannel \/ Panic \/ Return
  BY <1>1 DEF packetArrived, StopWorker, CloseStatusChannel, Panic, Return,
     LastTold, Report, TypeOK
<1>2. CASE OnTask \/ OnTimeout
  <2>1. LastTold = Report
    BY <1>2 DEF OnTask, OnTimeout
  <2>2. SentAlternate' /\ LastTold' = LastTold
    BY <1>2 DEF OnTask, OnTimeout, LastTold
  <2>3. worker' = "report" <=> Report' # Report
    BY <1>2 DEF OnTask, OnTimeout, Report, TypeOK
  <2> QED
    BY <2>1, <2>2, <2>3
<1>3. CASE SendStatus
  <2>1. LastTold # Report
    BY <1>3 DEF SendStatus
  <2>2. LastTold' = Report /\ Report' = Report /\ worker' # "report"
    BY <1>3, SendEffect DEF SendStatus, LastTold, Report
  <2>3. statusCh'[1] # told'
    <3>1. CASE statusCh = <<>>
      BY <1>0, <1>3, <2>1, <3>1, SendEffect DEF SendStatus, LastTold
    <3>2. CASE statusCh # <<>>
      BY <1>0, <1>3, <3>2, SendEffect, EmptySeq DEF SendStatus
    <3> QED
      BY <3>1, <3>2
  <2>4. ASSUME NEW i \in 1..(Len(statusCh') - 1)
        PROVE  statusCh'[i] # statusCh'[i + 1]
    <3>1. CASE i = Len(statusCh)
      BY <1>0, <1>3, <2>1, <3>1, SendEffect, EmptySeq DEF LastTold
    <3>2. CASE i # Len(statusCh)
      BY <1>0, <1>3, <3>2, SendEffect
    <3> QED
      BY <3>1, <3>2
  <2> QED
    BY <2>2, <2>3, <2>4
<1>4. CASE ReceiveStatus
  <2>1. LastTold' = LastTold
    <3>1. CASE Len(statusCh) = 1
      <4>1. statusCh' = <<>> /\ statusCh # <<>>
        BY <1>0, <1>4, <3>1, ReceiveEffect, EmptySeq
      <4> QED
        BY <1>4, <3>1, <4>1, ReceiveEffect DEF LastTold
    <3>2. CASE Len(statusCh) # 1
      <4>1. /\ Len(statusCh') \in 1..Len(statusCh')
            /\ statusCh' # <<>> /\ statusCh # <<>>
        BY <1>0, <1>4, <3>2, ReceiveEffect, EmptySeq
      <4>2. statusCh'[Len(statusCh')] = statusCh[Len(statusCh)]
        BY <1>0, <1>4, <4>1, ReceiveEffect
      <4> QED
        BY <4>1, <4>2 DEF LastTold
    <3> QED
      BY <3>1, <3>2
  <2>2. SentAlternate'
    BY <1>0, <1>4, ReceiveEffect, EmptySeq
  <2> QED
    BY <1>4, <2>1, <2>2 DEF ReceiveStatus, Report
<1> QED
  BY <1>1, <1>2, <1>3, <1>4 DEF Next, Worker

\* Every step keeps the invariant.
LEMMA StepInv == IInv /\ [Next]_vars => IInv'
<1>1. ASSUME IInv, Next
      PROVE  IInv'
  BY <1>1, TypeStep, AlternationStep DEF IInv, Inv
<1>2. ASSUME IInv, UNCHANGED vars
      PROVE  IInv'
  BY <1>2 DEF vars, IInv, TypeOK, Inv, SentAlternate,
     ReportWhenNeeded, LastTold, Report
<1> QED
  BY <1>1, <1>2

\* The invariant holds in every reachable state.
THEOREM ObserverInvariance == Spec => []IInv
BY InitInv, StepInv, PTL DEF Spec

\* The variables keep their types, and no channel exceeds its capacity.
THEOREM ObserverTypeCorrect == Spec => []TypeOK
BY ObserverInvariance, PTL DEF IInv

\* What has been told, is on its way and is about to be sent is one sequence
\* of alternating reports.
LEMMA AlternationOfAll == IInv => ReportsAlternate
<1> SUFFICES ASSUME IInv
             PROVE  ReportsAlternate
  OBVIOUS
<1> DEFINE sent == <<told>> \o statusCh
           last == IF worker = "report" THEN <<Report>> ELSE <<>>
           n == Len(statusCh)
<1>1. /\ statusCh \in Seq(Status) /\ n \in Nat
      /\ <<told>> \in Seq(Status) /\ Len(<<told>>) = 1 /\ <<told>>[1] = told
  BY DEF IInv, TypeOK
<1>2. /\ sent \in Seq(Status) /\ Len(sent) = n + 1
      /\ sent[1] = told
      /\ \A i \in 1..n : sent[i + 1] = statusCh[i]
  <2> HIDE DEF sent
  <2>1. /\ sent \in Seq(Status) /\ Len(sent) = 1 + n
        /\ \A i \in 1..(1 + n) :
             sent[i] = IF i <= 1 THEN <<told>>[i] ELSE statusCh[i - 1]
    BY <1>1, ConcatProperties DEF sent
  <2> QED
    BY <1>1, <2>1
<1>3. sent[n + 1] = LastTold
  <2>1. CASE statusCh = <<>>
    BY <1>1, <1>2, <2>1 DEF LastTold
  <2>2. CASE statusCh # <<>>
    BY <1>1, <1>2, <2>2, EmptySeq DEF LastTold
  <2> QED
    BY <2>1, <2>2
<1>4. \A i \in 1..n : sent[i] # sent[i + 1]
  <2> SUFFICES ASSUME NEW i \in 1..n
               PROVE  sent[i] # sent[i + 1]
    OBVIOUS
  <2> HIDE DEF sent
  <2>1. CASE i = 1
    BY <1>1, <1>2, <2>1, EmptySeq DEF IInv, Inv, SentAlternate
  <2>2. CASE i # 1
    <3>1. i - 1 \in 1..(n - 1) /\ i - 1 \in 1..n /\ (i - 1) + 1 = i
      BY <1>1, <2>2
    <3>2. sent[i] = statusCh[i - 1] /\ sent[i + 1] = statusCh[i]
      BY <1>2, <3>1
    <3> QED
      BY <3>1, <3>2 DEF IInv, Inv, SentAlternate
  <2> QED
    BY <2>1, <2>2
<1>5. CASE worker = "report"
  <2>1. /\ Reports = sent \o <<Report>>
        /\ <<Report>> \in Seq(Status) /\ Len(<<Report>>) = 1
        /\ <<Report>>[1] = Report
    BY <1>5, ReportType DEF Reports
  <2> HIDE DEF sent
  <2>2. /\ Len(Reports) = n + 2
        /\ \A i \in 1..(n + 1) : Reports[i] = sent[i]
        /\ Reports[n + 2] = Report
    <3>1. /\ Len(Reports) = (n + 1) + 1
          /\ \A i \in 1..((n + 1) + 1) :
               Reports[i] = IF i <= n + 1 THEN sent[i]
                            ELSE <<Report>>[i - (n + 1)]
      BY <1>1, <1>2, <2>1, ConcatProperties
    <3> QED
      BY <1>1, <2>1, <3>1
  <2>3. LastTold # Report
    BY <1>5 DEF IInv, Inv, ReportWhenNeeded
  <2> QED
    BY <1>1, <1>3, <1>4, <2>2, <2>3 DEF ReportsAlternate
<1>6. CASE worker # "report"
  <2>1. Reports = sent
    BY <1>2, <1>6, ConcatEmptySeq DEF Reports
  <2>2. LastTold = Report
    BY <1>6 DEF IInv, Inv, ReportWhenNeeded
  <2> HIDE DEF sent
  <2> QED
    BY <1>1, <1>2, <1>3, <1>4, <2>1, <2>2 DEF ReportsAlternate
<1> QED
  BY <1>5, <1>6

\* The event loop hears of no silence twice and misses no recovery, whatever
\* the capacity of the channels, and also after the observer was stopped.
THEOREM ReportsAreSound == Spec => []ReportsAlternate
BY ObserverInvariance, AlternationOfAll, PTL

=============================================================================
