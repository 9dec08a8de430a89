----------------------------- MODULE ScanBoard ------------------------------
(***************************************************************************)
(* What the scan queue promises its callers, without workers, channels,    *)
(* locks or shutdown: a board of bounded size on which every job goes from *)
(* pending to running to one final result, at most Slots jobs run at once, *)
(* and only finished jobs are ever taken off the board.                    *)
(***************************************************************************)
EXTENDS Naturals, FiniteSets

CONSTANTS
  JobIds,    \* the jobs that can be submitted
  Capacity,  \* how many jobs the board lists
  Slots      \* how many jobs run at once

VARIABLES
  listed,    \* the jobs a caller can look up
  status     \* the status of every job

vars == <<listed, status>>

Running == {j \in JobIds : status[j] = "running"}
FinishedIn(S) == {j \in S : status[j] \in {"completed", "failed"}}

Init ==
  /\ listed = {}
  /\ status = [j \in JobIds |-> "none"]

\* A new job is listed, on a board that may first forget finished jobs.
Submit(j) ==
  /\ status[j] = "none"
  /\ \E gone \in SUBSET FinishedIn(listed) : listed' = (listed \ gone) \union {j}
  /\ Cardinality(listed') <= Capacity
  /\ status' = [status EXCEPT ![j] = "pending"]

Begin(j) ==
  /\ status[j] = "pending"
  /\ Cardinality(Running) < Slots
  /\ status' = [status EXCEPT ![j] = "running"]
  /\ UNCHANGED listed

End(j) ==
  /\ status[j] = "running"
  /\ \E result \in {"completed", "failed"} :
       status' = [status EXCEPT ![j] = result]
  /\ UNCHANGED listed

Forget ==
  /\ \E gone \in SUBSET FinishedIn(listed) : listed' = listed \ gone
  /\ UNCHANGED status

Next ==
  \/ \E j \in JobIds : Submit(j) \/ Begin(j) \/ End(j)
  \/ Forget

Spec == Init /\ [][Next]_vars
=============================================================================
