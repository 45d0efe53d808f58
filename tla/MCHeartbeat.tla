----------------------------- MODULE MCHeartbeat -----------------------------
(* Small instances of Heartbeat for TLC.                                   *)
EXTENDS Heartbeat

CONSTANTS s1, s2   \* sessions

=============================================================================
