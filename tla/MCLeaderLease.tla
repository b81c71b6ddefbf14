--------------------------- MODULE MCLeaderLease ---------------------------
(* Instances of LeaderLease for TLC: two replicas, small timers. *)
EXTENDS LeaderLease

CONSTANTS A, B

BAhead == [r \in Replicas |-> IF r = B THEN 1 ELSE 0]
=============================================================================
