-------------------------- MODULE MCPublishedTrack --------------------------
(* Small instances of PublishedTrack for TLC.                              *)
EXTENDS PublishedTrack, TLC

CONSTANTS
  p1, p2,   \* publishers
  s1, s2,   \* subscriptions
  x, y      \* subscribers

Symmetry == Permutations(Publisher) \cup Permutations(Subscription)
              \cup Permutations(Subscriber)

=============================================================================
