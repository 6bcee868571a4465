--------------------------- MODULE MCTaskDispatch ---------------------------
(* Instances of TaskDispatch for TLC.                                      *)
EXTENDS TaskDispatch, TLC

\* Tasks, and workers, are interchangeable (used in runs without liveness).
Symmetry == Permutations(Tasks) \cup Permutations(Workers) \cup Permutations(Clients)
=============================================================================
