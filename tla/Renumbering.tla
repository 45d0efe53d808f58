----------------------------- MODULE Renumbering -----------------------------
(***************************************************************************)
(* What a rewriter of packet identifiers promises: the packets of several  *)
(* streams come out as those of one.  Here identifiers are numbers that    *)
(* never wrap: the place of a packet in its stream, which the sender knows *)
(* and the wire does not carry.  Only what is written wraps.               *)
(***************************************************************************)
EXTENDS Integers

CONSTANTS
  Packet,   \* the packets of the instance
  Short,    \* sequence numbers on the wire wrap here (2^16)
  Long      \* timestamps on the wire wrap here (2^32)

VARIABLES
  ssrc,      \* the stream that the last packet belongs to
  first,     \* the identifiers of the first packet after the switch to it
  base,      \* the identifiers which that one was given
  latest,    \* the highest identifiers given so far
  written    \* the identifiers of the last packet as they are written

vars == <<ssrc, first, base, latest, written>>

NoSSRC == 0

Identifiers(t, s) == [timestamp |-> t, sequenceNumber |-> s]

Highest(x, y) == IF x > y THEN x ELSE y

Give(ids) ==
  /\ latest' = Identifiers(Highest(latest.timestamp, ids.timestamp),
                           Highest(latest.sequenceNumber, ids.sequenceNumber))
  /\ written' = Identifiers(ids.timestamp % Long, ids.sequenceNumber % Short)

\* Packets of one stream keep their distance.
Continue(packet) ==
  /\ packet.ssrc = ssrc
  /\ Give(Identifiers(
       base.timestamp + (packet.ids.timestamp - first.timestamp),
       base.sequenceNumber
         + (packet.ids.sequenceNumber - first.sequenceNumber)))
  /\ UNCHANGED <<ssrc, first, base>>

\* The first packet of a stream comes after all that were written, with one
\* sequence number left out; the very first one of all gets zeros.
Switch(packet) ==
  /\ packet.ssrc # ssrc
  /\ ssrc' = packet.ssrc
  /\ first' = packet.ids
  /\ base' = IF ssrc = NoSSRC THEN latest
             ELSE Identifiers(latest.timestamp + 1, latest.sequenceNumber + 2)
  /\ Give(base')

Init ==
  /\ ssrc = NoSSRC
  /\ first = Identifiers(0, 0)
  /\ base = Identifiers(0, 0)
  /\ latest = Identifiers(0, 0)
  /\ written = Identifiers(0, 0)

Next == \E packet \in Packet : Continue(packet) \/ Switch(packet)

Spec == Init /\ [][Next]_vars

=============================================================================
