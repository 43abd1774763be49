------------------------------- MODULE IdPool -------------------------------
(***************************************************************************)
(* What the connection needs from its ChannelManager: a pool of channel    *)
(* ids in which an id is never handed out while it is in use.              *)
(***************************************************************************)
EXTENDS Integers

CONSTANT Pool

VARIABLES used,            \* ids in use
          got              \* the id the last call handed out, -1 if it did not

Init == used = {} /\ got = -1

Reserve == \E id \in Pool \ used : used' = used \cup {id} /\ got' = id

Release == \E id \in used : used' = used \ {id} /\ got' = -1

ReleaseAll == used' = {} /\ got' = -1

Other == used' = used /\ got' = -1

Next == Reserve \/ Release \/ ReleaseAll \/ Other

Spec == Init /\ [][Next]_<<used, got>>
=============================================================================
