--------------------------- MODULE MCResultCache ----------------------------
(* Instance of ResultCache for TLC. *)
EXTENDS ResultCache, TLC

Symmetric == Permutations(Pages) \union Permutations(Workers)
=============================================================================
