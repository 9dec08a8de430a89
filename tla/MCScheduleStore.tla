-------------------------- MODULE MCScheduleStore ---------------------------
(* Instance of ScheduleStore for TLC. *)
EXTENDS ScheduleStore, TLC
=============================================================================
