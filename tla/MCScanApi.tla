----------------------------- MODULE MCScanApi ------------------------------
(* Instance of ScanApi for TLC. *)
EXTENDS ScanApi, TLC

Symmetric == Permutations(Requests) \union Permutations(JobIds)
=============================================================================
