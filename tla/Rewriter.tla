------------------------------ MODULE Rewriter ------------------------------
(***************************************************************************)
(* The rewriter of a video subscription.  It forwards packets of one layer *)
(* after the other as one RTP stream, and so gives them other sequence     *)
(* numbers and timestamps.  On the wire both are truncated; the rewriter   *)
(* expands them by counting how often they wrapped.                        *)
(*                                                                         *)
(* A packet of this module carries its true identifiers, which never wrap. *)
(* The rewriter sees them only truncated.                                  *)
(***************************************************************************)
EXTENDS Integers

CONSTANTS
  Packet,   \* the packets of the instance
  Short,    \* values of a sequence number: 2^16
  Long,     \* values of a timestamp, and of an expanded sequence number: 2^32
  Word      \* values of an expanded timestamp, and of any uint64: 2^64

\* Zero is the SSRC of a rewriter that has not forwarded any packet.
ASSUME RewriterAssumption ==
  /\ Short \in Nat /\ Long \in Nat /\ Word \in Nat
  /\ 2 < Short /\ Short <= Long /\ Long <= Word
  /\ Packet \subseteq
       [ssrc : Nat \ {0}, ids : [timestamp : Nat, sequenceNumber : Nat]]

VARIABLES
  state,           \* forwardingState
  latestOutgoing,  \* the highest identifiers given so far
  written,         \* the identifiers of the packet written last
  origin,          \* true identifiers of the first packet after the switch
  newest           \* the highest true identifiers since the switch

vars == <<state, latestOutgoing, written, origin, newest>>

NoSSRC == 0

Identifiers(t, s) == [timestamp |-> t, sequenceNumber |-> s]

Zeros == Identifiers(0, 0)

TruncatedPacketIdentifiers ==
  [timestamp : 0..(Long - 1), sequenceNumber : 0..(Short - 1)]

ExpandedPacketIdentifiers ==
  [timestamp : 0..(Word - 1), sequenceNumber : 0..(Long - 1)]

RewriterTypeOK ==
  /\ state \in [ssrc : Nat,
                firstIncoming : ExpandedPacketIdentifiers,
                latestIncoming : ExpandedPacketIdentifiers,
                firstOutgoing : ExpandedPacketIdentifiers]
  /\ latestOutgoing \in ExpandedPacketIdentifiers
  /\ written \in TruncatedPacketIdentifiers
  /\ origin \in [timestamp : Nat, sequenceNumber : Nat]
  /\ newest \in [timestamp : Nat, sequenceNumber : Nat]

-----------------------------------------------------------------------------
(* Arithmetic on identifiers.                                              *)

\* The conversions to uint32 and uint16.
Truncate(ids) ==
  Identifiers(ids.timestamp % Long, ids.sequenceNumber % Short)

Add(p, delta) ==
  Identifiers((p.timestamp + delta.timestamp) % Word,
              (p.sequenceNumber + delta.sequenceNumber) % Long)

Sub(p, delta) ==
  Identifiers((p.timestamp - delta.timestamp) % Word,
              (p.sequenceNumber - delta.sequenceNumber) % Long)

max(a, b) == IF a > b THEN a ELSE b

Max(p, other) ==
  Identifiers(max(p.timestamp, other.timestamp),
              max(p.sequenceNumber, other.sequenceNumber))

\* Seeded fault: a late packet from before a wrap is not recognised.
ExpandWithoutRollunder(truncated, range, latest) ==
  LET truncatedLatest == latest % range
      latestROC == latest \div range
      ROC == IF /\ truncatedLatest > truncated
                /\ truncatedLatest - truncated > range \div 2
             THEN latestROC + 1
             ELSE latestROC
  IN  (ROC * range + truncated) % Word

\* The value of a counter of the given range, of which the lower part is
\* known, next to the latest value: with a rollover, a rollunder or neither.
ExpandCounter(truncated, range, latest) ==
  LET truncatedLatest == latest % range
      latestROC == latest \div range
      reallyBig == range \div 2
      ROC == IF /\ truncatedLatest > truncated
                /\ truncatedLatest - truncated > reallyBig
             THEN latestROC + 1
             ELSE IF /\ latestROC > 0
                     /\ truncated > truncatedLatest
                     /\ truncated - truncatedLatest > reallyBig
             THEN latestROC - 1
             ELSE latestROC
  IN  (ROC * range + truncated) % Word

-----------------------------------------------------------------------------
(* The rewriter.                                                           *)

\* Packets of the stream that is being forwarded.  A sequence number is
\* expanded as a uint64, and so is the latest one before both are cut.
process(incoming) ==
  LET number == ExpandCounter(incoming.sequenceNumber, Short,
                              state.latestIncoming.sequenceNumber)
      time == ExpandCounter(incoming.timestamp, Long,
                            state.latestIncoming.timestamp)
      expanded == Identifiers(time, number % Long)
      latest == Identifiers(
        max(time, state.latestIncoming.timestamp),
        max(number, state.latestIncoming.sequenceNumber) % Long)
  IN  [state |-> [state EXCEPT !.latestIncoming = latest],
       outgoing |-> Add(state.firstOutgoing,
                        Sub(expanded, state.firstIncoming))]

\* Another stream: its first packet comes after the latest of the old one.
reset(ssrc, incoming) ==
  LET delta == IF state.ssrc # NoSSRC THEN Identifiers(1, 2) ELSE Zeros
      outgoing == Add(latestOutgoing, delta)
  IN  [state |-> [ssrc |-> ssrc,
                  firstIncoming |-> incoming,
                  latestIncoming |-> incoming,
                  firstOutgoing |-> outgoing],
       outgoing |-> outgoing]

\* The rewriter does not know `origin` and `newest`.
ProcessIncoming(packet) ==
  LET incoming == Truncate(packet.ids)
      switch == state.ssrc # packet.ssrc
      result == IF switch THEN reset(packet.ssrc, incoming)
                ELSE process(incoming)
  IN
  /\ state' = result.state
  /\ latestOutgoing' = Max(latestOutgoing, result.outgoing)
  /\ written' = Truncate(result.outgoing)
  /\ origin' = IF switch THEN packet.ids ELSE origin
  /\ newest' = IF switch THEN packet.ids ELSE Max(newest, packet.ids)

-----------------------------------------------------------------------------
(* What the rewriter takes for granted about the packets that it gets.     *)

Near(x, y, range) == 2 * (x - y) < range /\ 2 * (y - x) < range

\* After a switch no packet is older than the one that came first, and less
\* than half a cycle lies between a packet and the newest one.
InOrder(packet) ==
  state.ssrc = packet.ssrc =>
    /\ packet.ids.timestamp >= origin.timestamp
    /\ packet.ids.sequenceNumber >= origin.sequenceNumber
    /\ Near(packet.ids.timestamp, newest.timestamp, Long)
    /\ Near(packet.ids.sequenceNumber, newest.sequenceNumber, Short)

\* The expanded counters do not wrap: on neither side has the stream grown to
\* 2^32 packets.
InRange(packet) ==
  IF state.ssrc = packet.ssrc
  THEN LET time == packet.ids.timestamp - origin.timestamp
           number == packet.ids.sequenceNumber - origin.sequenceNumber
       IN  /\ state.firstIncoming.timestamp + time < Word
           /\ state.firstOutgoing.timestamp + time < Word
           /\ state.firstIncoming.sequenceNumber + number < Long
           /\ state.firstOutgoing.sequenceNumber + number < Long
  ELSE /\ latestOutgoing.timestamp + 1 < Word
       /\ latestOutgoing.sequenceNumber + 2 < Long

RewriterInit ==
  /\ state = [ssrc |-> NoSSRC, firstIncoming |-> Zeros,
              latestIncoming |-> Zeros, firstOutgoing |-> Zeros]
  /\ latestOutgoing = Zeros
  /\ written = Zeros
  /\ origin = Zeros
  /\ newest = Zeros

RewriterNext ==
  \E packet \in Packet :
    InOrder(packet) /\ InRange(packet) /\ ProcessIncoming(packet)

RewriterSpec == RewriterInit /\ [][RewriterNext]_vars

-----------------------------------------------------------------------------
(* Properties.                                                             *)

Ideal == INSTANCE Renumbering WITH
  ssrc <- state.ssrc,
  first <- origin,
  base <- state.firstOutgoing,
  latest <- latestOutgoing

\* The subscriber gets one stream: packets keep their distance, across wraps
\* of either counter and when they come late; a switch goes on right after
\* the highest identifiers so far, so none is used twice.
Renumbers == Ideal!Spec

=============================================================================
