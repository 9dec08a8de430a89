---------------------------- MODULE MCUserStore -----------------------------
(* Instances of UserStore for TLC. *)
EXTENDS UserStore, TLC
=============================================================================
