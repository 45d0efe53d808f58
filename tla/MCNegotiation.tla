---------------------------- MODULE MCNegotiation ----------------------------
(* Small instances of Negotiation for TLC.                                 *)
EXTENDS Negotiation

CONSTANTS t1, t2   \* tracks

=============================================================================
