----------------------------- MODULE MCJobQueue -----------------------------
(* Model values and symmetry for TLC.                                      *)
EXTENDS JobQueue, TLC

Symmetric == Permutations(JobIds) \union Permutations(Workers)
=============================================================================
