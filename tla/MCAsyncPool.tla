----------------------------- MODULE MCAsyncPool -----------------------------
(* No symmetry: the run checks liveness.                                     *)
EXTENDS AsyncPool
=============================================================================
