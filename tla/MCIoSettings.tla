---------------------------- MODULE MCIoSettings -----------------------------
EXTENDS IoSettings, TLC

\* Operations have no names of their own.
Symmetry == Permutations(Op)
=============================================================================
