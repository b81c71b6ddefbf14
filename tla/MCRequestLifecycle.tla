------------------------ MODULE MCRequestLifecycle ------------------------
(* Instances of RequestLifecycle for TLC. *)
EXTENDS RequestLifecycle

CONSTANTS R1, R2, U1, U2, Poller, Clicker
=============================================================================
