---------------------------- MODULE MCObjectWatch ----------------------------
(* No symmetry: the runs check liveness.                                     *)
EXTENDS ObjectWatch
=============================================================================
