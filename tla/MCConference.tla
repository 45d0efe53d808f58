---------------------------- MODULE MCConference ----------------------------
(* Small instances of Conference for TLC.                                  *)
EXTENDS Conference, TLC

CONSTANTS a, b,          \* participants
          p1, p2, p3,    \* peers
          o1, o2,        \* track objects
          t1,            \* a track ID
          s1             \* its stream

Symmetry == Permutations(Peer) \cup Permutations(Track)

OneStream == t1 :> s1
NoneEach == a :> {} @@ b :> {}
OnlyAPublishes == a :> {t1} @@ b :> {}

ASSUME TracksAssumption == TracksAreDistinct

NoRequests == {}
NoDeclarations == {{}}
OwnStreams == {{}, {s1}}

Subscribe(t) == [unsubscribe |-> {}, subscribe |-> {t}]
Unsubscribe(t) == [unsubscribe |-> {t}, subscribe |-> {}]
SubscriptionRequests == {Subscribe(t1), Unsubscribe(t1)}

=============================================================================
