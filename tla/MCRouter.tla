------------------------------ MODULE MCRouter ------------------------------
(* Small instances of Router for TLC.                                      *)
EXTENDS Router, TLC

CONSTANTS c1, c2, c3, x, y

Symmetry == Permutations(Stage)

EventOf(type, conf, ids, offer) ==
  [type |-> type, conf |-> conf, ids |-> ids, offer |-> offer]

\* Nothing depends on the conference that an event without IDs meant.
AllEvents ==
  PossibleEvent \ {e \in PossibleEvent :
                     \/ e.type # "invite" /\ e.offer = "bad"
                     \/ e.ids # "valid" /\ e.conf # x}

GoodOffers == {e \in AllEvents : e.offer = "good"}

=============================================================================
