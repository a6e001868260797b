---------------------------- MODULE MCEventFeed ----------------------------
(* No symmetry: the run checks liveness.                                     *)
EXTENDS EventFeed
=============================================================================
