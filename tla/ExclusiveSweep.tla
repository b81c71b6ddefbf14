--------------------------- MODULE ExclusiveSweep ---------------------------
(***************************************************************************)
(* What the leader lease promises, with no lease in it: the background     *)
(* poller "must run in exactly ONE replica at a time" (api/leader.py).     *)
(*                                                                         *)
(* `active` is the set of replicas whose sweep is still under the          *)
(* protection of the lease.  A replica enters only when nobody is inside;  *)
(* it leaves by finishing, by crashing, or by being given up by its        *)
(* watchdog.                                                               *)
(***************************************************************************)

CONSTANT Replicas

VARIABLE active

Init == active = {}

Enter(r) == active = {} /\ active' = {r}

Leave(r) == r \in active /\ active' = active \ {r}

Next == \E r \in Replicas : Enter(r) \/ Leave(r)

Spec == Init /\ [][Next]_active

=============================================================================
