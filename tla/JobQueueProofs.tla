-------------------------- MODULE JobQueueProofs ----------------------------
(***************************************************************************)
(* Proofs about JobQueue for every number of jobs and workers and every    *)
(* capacity: typing, and the safety invariants of the queue.               *)
(***************************************************************************)
EXTENDS JobQueue, TLAPS, FiniteSetTheorems, WellFoundedInduction

(***************************************************************************)
(* What cleanupLocked may do: it only ever deletes, and only finished jobs. *)
(***************************************************************************)
LEMMA CleanupForgetsFinished ==
  ASSUME NEW kept \in AfterCleanup
  PROVE  /\ kept \subseteq jobs
         /\ \A j \in jobs \ kept : Finished(j)
BY DEF AfterCleanup, KeptByTTL, OldestFinished

\* The same of the map Enqueue works on.
LEMMA MadeRoomForgetsFinished ==
  ASSUME NEW kept \in MadeRoom
  PROVE  /\ kept \subseteq jobs
         /\ \A j \in jobs \ kept : Finished(j)
BY CleanupForgetsFinished DEF MadeRoom

-----------------------------------------------------------------------------
(***************************************************************************)
(* Type correctness.                                                       *)
(***************************************************************************)
LEMMA PublishTyped ==
  ASSUME TypeOK, NEW j \in JobIds,
         NEW type \in {"progress", "completed", "failed"}, NEW p \in 0..100,
         Publish(j, type, p)
  PROVE  events' \in [JobIds -> Seq(EventValues)]
<1>1. [type |-> type, progress |-> p] \in EventValues
  BY DEF EventValues
<1>2. events[j] \in Seq(EventValues)
  BY DEF TypeOK
<1>3. Append(events[j], [type |-> type, progress |-> p]) \in Seq(EventValues)
  BY <1>1, <1>2
<1> QED
  BY <1>3 DEF TypeOK, Publish

-----------------------------------------------------------------------------
(***************************************************************************)
(* The eighteen steps of a worker are of six kinds; the proofs go by kind. *)
(***************************************************************************)
EventTypes == {"progress", "completed", "failed"}
PublishStep(w) ==
  \E from, to \in RunningPoints, type \in EventTypes, p \in 0..100 :
    WorkerPublish(w, from, type, p, to)
BranchStep(w) == \E from, to \in RunningPoints : WorkerBranch(w, from, to)
FinishStep(w) ==
  \E from \in RunningPoints, result \in {"completed", "failed"} :
    WorkerFinish(w, from, result)

LEMMA WorkerStepKinds ==
  ASSUME NEW w \in Workers, WorkerStep(w)
  PROVE  \/ WorkerReceive(w) \/ WorkerExit(w) \/ WorkerStart(w)
         \/ PublishStep(w) \/ BranchStep(w) \/ FinishStep(w)
<1>a. ASSUME NEW from \in RunningPoints, NEW to \in RunningPoints,
             NEW type \in EventTypes, NEW p \in 0..100,
             WorkerPublish(w, from, type, p, to)
      PROVE  PublishStep(w)
  BY <1>a, Zenon DEF PublishStep
<1>b. ASSUME NEW from \in RunningPoints, NEW to \in RunningPoints,
             WorkerBranch(w, from, to)
      PROVE  BranchStep(w)
  BY <1>b, Zenon DEF BranchStep
<1>c. /\ {"announce", "lookup", "finishCached"} \subseteq RunningPoints
      /\ {"open", "navigate", "detect", "emails", "contacts"} \subseteq RunningPoints
      /\ {"publishFailed", "publishCompleted"} \subseteq RunningPoints
      /\ {"finishFailed", "finishCompleted"} \subseteq RunningPoints
  BY Zenon DEF RunningPoints, ScanPoints
<1>d. /\ {"progress", "completed", "failed"} \subseteq EventTypes
      /\ {0, 10, 20, 60, 90, 95, 96, 100} \subseteq 0..100
  BY DEF EventTypes
<1>1. CASE AnnounceRunning(w)
  BY <1>1, <1>a, <1>c, <1>d DEF AnnounceRunning
<1>2. CASE CacheHit(w) \/ CacheMiss(w)
  BY <1>2, <1>b, <1>c DEF CacheHit, CacheMiss
<1>3. CASE ScanFetching(w)
  BY <1>3, <1>a, <1>c, <1>d DEF ScanFetching
<1>4. CASE ScanFails(w) \/ ScanReturns(w)
  BY <1>4, <1>b, <1>c DEF ScanFails, ScanReturns
<1>5. CASE ScanParsing(w) \/ ScanDetecting(w)
  BY <1>5, <1>a, <1>c, <1>d DEF ScanParsing, ScanDetecting
<1>6. CASE ScanEmails(w) \/ ScanContacts(w)
  BY <1>6, <1>a, <1>c, <1>d DEF ScanEmails, ScanContacts
<1>7. CASE PublishFailed(w) \/ PublishCompleted(w)
  BY <1>7, <1>a, <1>c, <1>d DEF PublishFailed, PublishCompleted
<1>8. CASE FinishCached(w) \/ FinishFailed(w) \/ FinishCompleted(w)
  BY <1>8 DEF FinishCached, FinishFailed, FinishCompleted, FinishStep,
              RunningPoints
<1> QED
  BY <1>1, <1>2, <1>3, <1>4, <1>5, <1>6, <1>7, <1>8 DEF WorkerStep

-----------------------------------------------------------------------------
(***************************************************************************)
(* TypeOK is inductive only together with the fact that a worker between   *)
(* "received" and its last critical section holds a job.                   *)
(***************************************************************************)
HolderHasJob == \A w \in Workers : Holding(w) => wjob[w] \in JobIds

TypeInv == TypeOK /\ HolderHasJob

LEMMA TypeInvInit == Init => TypeInv
BY JobQueueAssumption
   DEF Init, TypeInv, TypeOK, HolderHasJob, Holding, HoldingPoints, RunningPoints,
       ScanPoints, WorkerPoints, StatusValues, StopValues

LEMMA TypeInvEnqueue ==
  ASSUME TypeInv, NEW id \in JobIds, EnqueueAccepted(id) \/ EnqueueAfterStop(id)
  PROVE  TypeInv'
<1>1. PICK kept \in MadeRoom : Insert(id, kept)
  BY DEF EnqueueAccepted, EnqueueAfterStop
<1>2. jobs' \in SUBSET JobIds
  BY <1>1, MadeRoomForgetsFinished DEF Insert, TypeInv, TypeOK
<1>3. /\ status' \in [JobIds -> StatusValues]
      /\ createdAt' \in [JobIds -> 0..MaxTime]
  BY <1>1 DEF Insert, TypeInv, TypeOK, StatusValues
<1>4. pending' \in Seq(JobIds)
  <2>1. pending' = Append(pending, id) \/ pending' = pending
    BY DEF EnqueueAccepted, EnqueueAfterStop
  <2>2. pending \in Seq(JobIds)
    BY DEF TypeInv, TypeOK
  <2> QED
    BY <2>1, <2>2
<1>5. events' \in [JobIds -> Seq(EventValues)]
  BY PublishTyped DEF EnqueueAccepted, EnqueueAfterStop, TypeInv, TypeOK
<1>6. /\ UNCHANGED <<now, wpc, wjob, stop, cleaner>>
      /\ lastErr' \in {"nil", "panic"}
  BY DEF EnqueueAccepted, EnqueueAfterStop
<1> QED
  BY <1>2, <1>3, <1>4, <1>5, <1>6 DEF TypeInv, TypeOK, HolderHasJob, Holding

LEMMA TypeInvWorker ==
  ASSUME TypeInv, NEW w \in Workers, WorkerStep(w)
  PROVE  TypeInv'
<1> USE DEF TypeInv, TypeOK, HolderHasJob, Holding
<1>1. CASE WorkerReceive(w)
  BY <1>1 DEF WorkerReceive, Goto, WorkerPoints, HoldingPoints
<1>2. CASE WorkerExit(w)
  <2>1. "exited" \notin HoldingPoints
    BY DEF HoldingPoints, RunningPoints, ScanPoints
  <2> QED
    BY <1>2, <2>1 DEF WorkerExit, Goto, WorkerPoints
<1>3. CASE WorkerStart(w)
  <2>1. wjob[w] \in JobIds
    BY <1>3 DEF WorkerStart, HoldingPoints
  <2> QED
    BY <1>3, <2>1 DEF WorkerStart, Goto, WorkerPoints, HoldingPoints, RunningPoints,
                     StatusValues
<1>4. CASE PublishStep(w)
  <2>1. PICK from \in RunningPoints, to \in RunningPoints, type \in EventTypes,
             p \in 0..100 :
           WorkerPublish(w, from, type, p, to)
    BY <1>4 DEF PublishStep
  <2>2. wjob[w] \in JobIds
    BY <2>1 DEF WorkerPublish, HoldingPoints
  <2>3. events' \in [JobIds -> Seq(EventValues)]
    BY <2>1, <2>2, PublishTyped DEF WorkerPublish, EventTypes
  <2> QED
    BY <2>1, <2>2, <2>3 DEF WorkerPublish, Goto, WorkerPoints, HoldingPoints
<1>5. CASE BranchStep(w)
  BY <1>5 DEF BranchStep, WorkerBranch, Goto, WorkerPoints, HoldingPoints
<1>6. CASE FinishStep(w)
  <2>1. PICK from \in RunningPoints, result \in {"completed", "failed"} :
           WorkerFinish(w, from, result)
    BY <1>6 DEF FinishStep
  <2>2. wjob[w] \in JobIds
    BY <2>1 DEF WorkerFinish, HoldingPoints
  <2>3. "select" \notin HoldingPoints
    BY DEF HoldingPoints, RunningPoints, ScanPoints
  <2>4. status' \in [JobIds -> StatusValues]
    BY <2>1, <2>2 DEF WorkerFinish, StatusValues
  <2> QED
    BY <2>1, <2>3, <2>4 DEF WorkerFinish, Goto, WorkerPoints
<1> QED
  BY <1>1, <1>2, <1>3, <1>4, <1>5, <1>6, WorkerStepKinds

LEMMA TypeInvNext == TypeInv /\ [Next]_vars => TypeInv'
<1> SUFFICES ASSUME TypeInv, [Next]_vars PROVE TypeInv'
  OBVIOUS
<1>1. ASSUME NEW id \in JobIds, EnqueueAccepted(id) \/ EnqueueAfterStop(id)
      PROVE  TypeInv'
  BY <1>1, TypeInvEnqueue
<1>2. CASE EnqueueRejected
  BY <1>2, MadeRoomForgetsFinished
     DEF EnqueueRejected, TypeInv, TypeOK, HolderHasJob, Holding
<1>3. ASSUME NEW w \in Workers, WorkerStep(w)
      PROVE  TypeInv'
  BY <1>3, TypeInvWorker
<1>4. CASE CleanupTick
  BY <1>4, CleanupForgetsFinished
     DEF CleanupTick, TypeInv, TypeOK, HolderHasJob, Holding
<1>5. CASE CleanerExit
  BY <1>5 DEF CleanerExit, TypeInv, TypeOK, HolderHasJob, Holding
<1>6. CASE StopCloseStopCh \/ StopClosePending \/ StopReturn
  BY <1>6 DEF StopCloseStopCh, StopClosePending, StopReturn, StopTo, StopValues,
              TypeInv, TypeOK, HolderHasJob, Holding
<1>7. CASE Tick
  BY <1>7, JobQueueAssumption DEF Tick, TypeInv, TypeOK, HolderHasJob, Holding
<1>8. CASE UNCHANGED vars
  BY <1>8 DEF vars, TypeInv, TypeOK, HolderHasJob, Holding
<1> QED
  BY <1>1, <1>2, <1>3, <1>4, <1>5, <1>6, <1>7, <1>8 DEF Next

\* Every variable of the queue keeps its type in every reachable state.
THEOREM TypeCorrect == Spec => []TypeOK
<1>1. Spec => []TypeInv
  BY TypeInvInit, TypeInvNext, PTL DEF Spec
<1>2. TypeInv => TypeOK
  BY DEF TypeInv
<1> QED
  BY <1>1, <1>2, PTL

-----------------------------------------------------------------------------
(***************************************************************************)
(* SingleOwner.  A fresh job is in no worker's hands because what the      *)
(* channel and the workers hold is pending or running, never "none"; the   *)
(* job taken from the channel is in nobody else's hands because it occurs  *)
(* there once and no holder's job does.                                    *)
(***************************************************************************)
LEMMA Points ==
  /\ "select" \notin HoldingPoints /\ "exited" \notin HoldingPoints
  /\ "received" \in HoldingPoints /\ "received" \notin RunningPoints
  /\ "announce" \in RunningPoints
  /\ RunningPoints \subseteq HoldingPoints
  /\ \A p \in HoldingPoints : p = "received" \/ p \in RunningPoints
BY DEF HoldingPoints, RunningPoints, ScanPoints

LEMMA SingleOwnerEnqueue ==
  ASSUME TypeInv, SingleOwner, NEW id \in JobIds,
         EnqueueAccepted(id) \/ EnqueueAfterStop(id)
  PROVE  SingleOwner'
<1>1. PICK kept \in MadeRoom : Insert(id, kept)
  BY DEF EnqueueAccepted, EnqueueAfterStop
<1>2. /\ status[id] = "none"
      /\ pending' = Append(pending, id) \/ pending' = pending
      /\ UNCHANGED <<wpc, wjob>>
      /\ pending' # pending => status'[id] = "pending"
  BY <1>1 DEF EnqueueAccepted, EnqueueAfterStop, Insert, TypeInv, TypeOK
<1>3. /\ status' = [status EXCEPT ![id] = "pending"]
      /\ status \in [JobIds -> StatusValues]
      /\ pending \in Seq(JobIds)
  BY <1>1 DEF Insert, TypeInv, TypeOK
<1>4. /\ \A i \in DOMAIN pending : pending[i] \in JobIds /\ pending[i] # id
      /\ \A w \in Workers : Holding(w) => wjob[w] \in JobIds /\ wjob[w] # id
  BY <1>2, <1>3, Points DEF SingleOwner, QueuedArePending, HeldAsMarked, TypeInv,
                            HolderHasJob, Holding
<1>5. /\ QueuedOnce' /\ QueuedArePending'
      /\ Elements(pending)' \subseteq Elements(pending) \union {id}
  <2>1. CASE pending' = pending
    BY <1>3, <1>4, <2>1 DEF SingleOwner, QueuedOnce, QueuedArePending, Elements
  <2>2. CASE pending' = Append(pending, id)
    <3>1. /\ DOMAIN pending' = 1..(Len(pending) + 1) /\ DOMAIN pending = 1..Len(pending)
          /\ pending'[Len(pending) + 1] = id /\ Len(pending) \in Nat
          /\ \A i \in DOMAIN pending : pending'[i] = pending[i]
      BY <1>3, <2>2
    <3>2. \A i \in DOMAIN pending' : i \in DOMAIN pending \/ i = Len(pending) + 1
      BY <3>1
    <3>3. QueuedOnce'
      BY <1>4, <3>1, <3>2 DEF SingleOwner, QueuedOnce
    <3>4. QueuedArePending'
      BY <1>3, <1>4, <3>1, <3>2 DEF SingleOwner, QueuedArePending
    <3>5. Elements(pending)' \subseteq Elements(pending) \union {id}
      BY <3>1, <3>2 DEF Elements
    <3> QED
      BY <3>3, <3>4, <3>5
  <2> QED
    BY <1>2, <2>1, <2>2
<1>6. HeldAsMarked' /\ OneHolder'
  BY <1>2, <1>3, <1>4, <1>5, Points
     DEF SingleOwner, HeldAsMarked, OneHolder, Holding
<1>7. RunningIsHeld'
  BY <1>2, <1>3 DEF SingleOwner, RunningIsHeld
<1> QED
  BY <1>5, <1>6, <1>7 DEF SingleOwner

LEMMA SingleOwnerReceive ==
  ASSUME TypeInv, SingleOwner, NEW w \in Workers, WorkerReceive(w)
  PROVE  SingleOwner'
<1>1. /\ pending \in Seq(JobIds) /\ pending # <<>>
      /\ pending' = Tail(pending)
      /\ wpc[w] = "select"
      /\ wpc' = [wpc EXCEPT ![w] = "received"]
      /\ wjob' = [wjob EXCEPT ![w] = Head(pending)]
      /\ status' = status
      /\ wpc \in [Workers -> WorkerPoints]
      /\ wjob \in [Workers -> JobIds \union {NoJob}]
  BY DEF WorkerReceive, Goto, TypeInv, TypeOK
<1>2. /\ Len(pending) \in Nat /\ Len(pending) > 0
      /\ DOMAIN pending = 1..Len(pending)
      /\ DOMAIN pending' = 1..(Len(pending) - 1)
      /\ \A i \in DOMAIN pending' :
            i + 1 \in DOMAIN pending /\ pending'[i] = pending[i + 1]
      /\ 1 \in DOMAIN pending /\ Head(pending) = pending[1]
  BY <1>1
<1>3. Elements(pending)' \subseteq Elements(pending) \ {Head(pending)}
  BY <1>2 DEF SingleOwner, QueuedOnce, Elements
<1>4. Head(pending) \in Elements(pending) /\ status[Head(pending)] = "pending"
  BY <1>2 DEF SingleOwner, QueuedArePending, Elements
<1>5. QueuedOnce' /\ QueuedArePending'
  BY <1>1, <1>2 DEF SingleOwner, QueuedOnce, QueuedArePending
<1>6. HeldAsMarked'
  BY <1>1, <1>3, <1>4, Points DEF SingleOwner, HeldAsMarked
<1>7. \A v \in Workers : Holding(v) => wjob[v] # Head(pending)
  BY <1>4, Points DEF SingleOwner, HeldAsMarked, Holding
<1>8. OneHolder'
  BY <1>1, <1>7, Points DEF SingleOwner, OneHolder, Holding
<1>9. RunningIsHeld'
  BY <1>1, Points DEF SingleOwner, RunningIsHeld
<1> QED
  BY <1>5, <1>6, <1>8, <1>9 DEF SingleOwner

LEMMA SingleOwnerStart ==
  ASSUME TypeInv, SingleOwner, NEW w \in Workers, WorkerStart(w)
  PROVE  SingleOwner'
<1> DEFINE j == wjob[w]
<1>1. /\ wpc[w] = "received" /\ j \in JobIds
      /\ status' = [status EXCEPT ![j] = "running"]
      /\ wpc' = [wpc EXCEPT ![w] = "announce"]
      /\ UNCHANGED <<pending, wjob>>
      /\ wpc \in [Workers -> WorkerPoints]
      /\ status \in [JobIds -> StatusValues]
  BY Points DEF WorkerStart, Goto, TypeInv, TypeOK, HolderHasJob, Holding
<1>2. j \notin Elements(pending)
  BY <1>1 DEF SingleOwner, HeldAsMarked
<1>3. \A v \in Workers : Holding(v) /\ v # w => wjob[v] # j
  BY <1>1, Points DEF SingleOwner, OneHolder, Holding
<1>4. \A i \in DOMAIN pending : pending[i] \in JobIds /\ pending[i] # j
  BY <1>2 DEF Elements, TypeInv, TypeOK
<1>5. QueuedOnce' /\ QueuedArePending' /\ Elements(pending)' = Elements(pending)
  BY <1>1, <1>4 DEF SingleOwner, QueuedOnce, QueuedArePending, Elements
<1>6. \A v \in Workers : Holding(v) => wjob[v] \in JobIds
  BY DEF TypeInv, HolderHasJob
<1>7. HeldAsMarked'
  BY <1>1, <1>3, <1>5, <1>6, Points DEF SingleOwner, HeldAsMarked, Holding
<1>8. OneHolder'
  BY <1>1, Points DEF SingleOwner, OneHolder, Holding
<1>9. RunningIsHeld'
  BY <1>1, Points DEF SingleOwner, RunningIsHeld
<1> QED
  BY <1>5, <1>7, <1>8, <1>9 DEF SingleOwner

LEMMA SingleOwnerMove ==
  ASSUME TypeInv, SingleOwner, NEW w \in Workers, PublishStep(w) \/ BranchStep(w)
  PROVE  SingleOwner'
<1>1. PICK from \in RunningPoints, to \in RunningPoints :
         /\ wpc[w] = from
         /\ wpc' = [wpc EXCEPT ![w] = to]
         /\ UNCHANGED <<pending, wjob, status>>
  BY DEF PublishStep, BranchStep, WorkerPublish, WorkerBranch, Goto
<1>2. wpc \in [Workers -> WorkerPoints]
  BY DEF TypeInv, TypeOK
<1>3. QueuedOnce' /\ QueuedArePending'
  BY <1>1 DEF SingleOwner, QueuedOnce, QueuedArePending
<1>4. HeldAsMarked'
  BY <1>1, <1>2, Points DEF SingleOwner, HeldAsMarked, Elements
<1>5. OneHolder'
  BY <1>1, <1>2, Points DEF SingleOwner, OneHolder, Holding
<1>6. RunningIsHeld'
  BY <1>1, <1>2 DEF SingleOwner, RunningIsHeld
<1> QED
  BY <1>3, <1>4, <1>5, <1>6 DEF SingleOwner

LEMMA SingleOwnerFinish ==
  ASSUME TypeInv, SingleOwner, NEW w \in Workers, FinishStep(w)
  PROVE  SingleOwner'
<1> DEFINE j == wjob[w]
<1>1. PICK from \in RunningPoints, result \in {"completed", "failed"} :
         WorkerFinish(w, from, result)
  BY DEF FinishStep
<1>2. /\ wpc[w] \in RunningPoints /\ j \in JobIds
      /\ status' = [status EXCEPT ![j] = result]
      /\ wjob' = [wjob EXCEPT ![w] = NoJob]
      /\ wpc' = [wpc EXCEPT ![w] = "select"]
      /\ pending' = pending
      /\ wpc \in [Workers -> WorkerPoints]
      /\ wjob \in [Workers -> JobIds \union {NoJob}]
      /\ status \in [JobIds -> StatusValues]
  BY <1>1, Points DEF WorkerFinish, Goto, TypeInv, TypeOK, HolderHasJob, Holding
<1>3. status[j] = "running"
  BY <1>2 DEF SingleOwner, HeldAsMarked
<1>4. \A v \in Workers : Holding(v) /\ v # w => wjob[v] # j
  BY <1>2, Points DEF SingleOwner, OneHolder, Holding
<1>5. \A i \in DOMAIN pending : pending[i] \in JobIds /\ pending[i] # j
  BY <1>3 DEF SingleOwner, QueuedArePending, TypeInv, TypeOK
<1>6. QueuedOnce' /\ QueuedArePending' /\ Elements(pending)' = Elements(pending)
  BY <1>2, <1>5 DEF SingleOwner, QueuedOnce, QueuedArePending, Elements
<1>7. \A v \in Workers : Holding(v) => wjob[v] \in JobIds
  BY DEF TypeInv, HolderHasJob
<1>8. HeldAsMarked'
  BY <1>2, <1>4, <1>6, <1>7, Points DEF SingleOwner, HeldAsMarked, Holding
<1>9. OneHolder'
  BY <1>2, Points DEF SingleOwner, OneHolder, Holding
<1>10. RunningIsHeld'
  BY <1>2, Points DEF SingleOwner, RunningIsHeld
<1> QED
  BY <1>6, <1>8, <1>9, <1>10 DEF SingleOwner

LEMMA SingleOwnerFrame ==
  ASSUME SingleOwner, UNCHANGED <<pending, status, wjob, wpc>>
  PROVE  SingleOwner'
BY DEF SingleOwner, QueuedOnce, QueuedArePending, HeldAsMarked, OneHolder,
       RunningIsHeld, Holding, Elements

LEMMA SingleOwnerExit ==
  ASSUME TypeInv, SingleOwner, NEW w \in Workers, WorkerExit(w)
  PROVE  SingleOwner'
<1>1. /\ wpc[w] = "select"
      /\ wpc' = [wpc EXCEPT ![w] = "exited"]
      /\ UNCHANGED <<pending, status, wjob>>
      /\ wpc \in [Workers -> WorkerPoints]
  BY DEF WorkerExit, Goto, TypeInv, TypeOK
<1>2. \A v \in Workers :
        /\ (wpc[v] \in HoldingPoints)' <=> wpc[v] \in HoldingPoints
        /\ (wpc[v] \in HoldingPoints)' => wpc'[v] = wpc[v]
        /\ wpc[v] \in HoldingPoints => wpc'[v] = wpc[v]
  BY <1>1, Points
<1>3. QueuedOnce' /\ QueuedArePending'
  BY <1>1 DEF SingleOwner, QueuedOnce, QueuedArePending
<1>4. HeldAsMarked'
  BY <1>1, <1>2, Points DEF SingleOwner, HeldAsMarked, Elements
<1>5. OneHolder'
  BY <1>1, <1>2 DEF SingleOwner, OneHolder, Holding
<1>6. RunningIsHeld'
  BY <1>1, <1>2, Points DEF SingleOwner, RunningIsHeld
<1> QED
  BY <1>3, <1>4, <1>5, <1>6 DEF SingleOwner

LEMMA SingleOwnerNext ==
  TypeInv /\ SingleOwner /\ [Next]_vars => SingleOwner'
<1> SUFFICES ASSUME TypeInv, SingleOwner, [Next]_vars PROVE SingleOwner'
  OBVIOUS
<1>1. ASSUME NEW id \in JobIds, EnqueueAccepted(id) \/ EnqueueAfterStop(id)
      PROVE  SingleOwner'
  BY <1>1, SingleOwnerEnqueue
<1>2. ASSUME NEW w \in Workers, WorkerStep(w)
      PROVE  SingleOwner'
  BY <1>2, WorkerStepKinds, SingleOwnerReceive, SingleOwnerExit, SingleOwnerStart,
     SingleOwnerMove, SingleOwnerFinish
<1>3. CASE \/ EnqueueRejected \/ CleanupTick \/ CleanerExit \/ StopCloseStopCh
           \/ StopClosePending \/ StopReturn \/ Tick \/ UNCHANGED vars
  <2>1. UNCHANGED <<pending, status, wjob, wpc>>
    BY <1>3 DEF EnqueueRejected, CleanupTick, CleanerExit, StopCloseStopCh,
                StopClosePending, StopReturn, StopTo, Tick, vars
  <2> QED
    BY <2>1, SingleOwnerFrame
<1> QED
  BY <1>1, <1>2, <1>3 DEF Next

\* No job is ever scanned by two workers or handed out twice, for any number
\* of jobs, workers and any channel capacity (queue.go:118-123, 209-227).
THEOREM SingleOwnerHolds == Spec => []SingleOwner
<1>1. Init => SingleOwner
  BY Points
     DEF Init, SingleOwner, QueuedOnce, QueuedArePending, HeldAsMarked, OneHolder,
         RunningIsHeld, Holding, Elements
<1>2. Spec => [](TypeInv /\ SingleOwner)
  BY <1>1, TypeInvInit, TypeInvNext, SingleOwnerNext, PTL DEF Spec
<1> QED
  BY <1>2, PTL

-----------------------------------------------------------------------------
(***************************************************************************)
(* The size of the map, and the jobs that stay in it.                      *)
(***************************************************************************)
LEMMA SizeAfterInsert ==
  ASSUME JobsBounded, NEW id, NEW kept \in SUBSET jobs, Cardinality(kept) < MaxJobs
  PROVE  /\ IsFiniteSet(kept \union {id})
         /\ Cardinality(kept \union {id}) <= MaxJobs
<1>1. IsFiniteSet(kept)
  BY FS_Subset DEF JobsBounded
<1>2. Cardinality(kept) \in Nat
  BY <1>1, FS_CardinalityType
<1>3. /\ IsFiniteSet(kept \union {id})
      /\ Cardinality(kept \union {id}) =
           IF id \in kept THEN Cardinality(kept) ELSE Cardinality(kept) + 1
  BY <1>1, FS_AddElement
<1> QED
  BY <1>2, <1>3, JobQueueAssumption

LEMMA JobsBoundedNext == JobsBounded /\ [Next]_vars => JobsBounded'
<1> SUFFICES ASSUME JobsBounded, [Next]_vars PROVE JobsBounded'
  OBVIOUS
<1>1. ASSUME NEW id \in JobIds, EnqueueAccepted(id) \/ EnqueueAfterStop(id)
      PROVE  JobsBounded'
  <2>1. PICK kept \in MadeRoom : Cardinality(kept) < MaxJobs /\ Insert(id, kept)
    BY <1>1 DEF EnqueueAccepted, EnqueueAfterStop
  <2>2. kept \in SUBSET jobs
    BY MadeRoomForgetsFinished
  <2> QED
    BY <2>1, <2>2, SizeAfterInsert DEF Insert, JobsBounded
<1>2. CASE EnqueueRejected \/ CleanupTick
  <2>1. jobs' \in SUBSET jobs
    BY <1>2, MadeRoomForgetsFinished, CleanupForgetsFinished
       DEF EnqueueRejected, CleanupTick
  <2>2. IsFiniteSet(jobs') /\ Cardinality(jobs') <= Cardinality(jobs)
    BY <2>1, FS_Subset DEF JobsBounded
  <2>3. Cardinality(jobs) \in Nat /\ Cardinality(jobs') \in Nat
    BY <2>2, FS_CardinalityType DEF JobsBounded
  <2> QED
    BY <2>2, <2>3, JobQueueAssumption DEF JobsBounded
<1>3. ASSUME NEW w \in Workers, WorkerStep(w)
      PROVE  JobsBounded'
  BY <1>3, WorkerStepKinds
     DEF WorkerReceive, WorkerExit, WorkerStart, PublishStep, WorkerPublish,
         BranchStep, WorkerBranch, FinishStep, WorkerFinish, JobsBounded
<1>4. CASE \/ CleanerExit \/ StopCloseStopCh \/ StopClosePending \/ StopReturn
           \/ Tick \/ UNCHANGED vars
  BY <1>4 DEF CleanerExit, StopCloseStopCh, StopClosePending, StopReturn, StopTo,
              Tick, vars, JobsBounded
<1> QED
  BY <1>1, <1>2, <1>3, <1>4 DEF Next

\* The map never outgrows maxJobs, whatever the interleaving of Enqueue, the
\* cleanup ticker and the workers (queue.go:101-107, 360-386).
THEOREM JobsBoundedHolds == Spec => []JobsBounded
<1>1. Init => JobsBounded
  BY FS_EmptySet, JobQueueAssumption DEF Init, JobsBounded
<1> QED
  BY <1>1, JobsBoundedNext, PTL DEF Spec

-----------------------------------------------------------------------------
(***************************************************************************)
(* The queue implements ScanBoard.  The safety invariant is what the       *)
(* refinement needs: SingleOwner for the status a step starts from and for *)
(* the number of running jobs, JobsBounded for the size of the board.      *)
(***************************************************************************)
SafetyInv == TypeInv /\ SingleOwner /\ JobsBounded

LEMMA SafetyInvariant == Spec => []SafetyInv
<1>1. Init => SingleOwner /\ JobsBounded
  BY Points, FS_EmptySet, JobQueueAssumption
     DEF Init, SingleOwner, QueuedOnce, QueuedArePending, HeldAsMarked, OneHolder,
         RunningIsHeld, Holding, Elements, JobsBounded
<1>2. SafetyInv /\ [Next]_vars => SafetyInv'
  BY TypeInvNext, SingleOwnerNext, JobsBoundedNext DEF SafetyInv
<1> QED
  BY <1>1, <1>2, TypeInvInit, PTL DEF Spec, SafetyInv

\* While worker w only holds a job, the other workers run all running jobs.
LEMMA FreeSlot ==
  ASSUME SafetyInv, NEW w \in Workers, wpc[w] \notin RunningPoints
  PROVE  Cardinality(Board!Running) < Cardinality(Workers)
<1> DEFINE runner == [j \in Board!Running |->
                        CHOOSE v \in Workers : wpc[v] \in RunningPoints /\ wjob[v] = j]
<1>1. \A j \in Board!Running :
        /\ runner[j] \in Workers \ {w}
        /\ wjob[runner[j]] = j
  BY DEF Board!Running, SafetyInv, SingleOwner, RunningIsHeld
<1>2. runner \in Injection(Board!Running, Workers \ {w})
  BY <1>1 DEF Injection, IsInjective
<1>3. /\ IsFiniteSet(Workers \ {w})
      /\ Cardinality(Workers \ {w}) = Cardinality(Workers) - 1
  BY FS_RemoveElement, JobQueueAssumption
<1>4. /\ IsFiniteSet(Board!Running)
      /\ Cardinality(Board!Running) <= Cardinality(Workers \ {w})
  BY <1>2, <1>3, FS_Injection
<1>5. Cardinality(Board!Running) \in Nat /\ Cardinality(Workers) \in Nat
  BY <1>4, FS_CardinalityType, JobQueueAssumption
<1> QED
  BY <1>3, <1>4, <1>5

\* ScanBoard counts as this module does.
LEMMA BoardCardinality == \A S : Board!Cardinality(S) = Cardinality(S)
BY DEF Cardinality, Board!Cardinality

LEMMA BoardStep == SafetyInv /\ [Next]_vars => [Board!Next]_(Board!vars)
<1> SUFFICES ASSUME SafetyInv, [Next]_vars PROVE [Board!Next]_(Board!vars)
  OBVIOUS
<1>1. ASSUME NEW id \in JobIds, EnqueueAccepted(id) \/ EnqueueAfterStop(id)
      PROVE  Board!Submit(id)
  <2>1. PICK kept \in MadeRoom : Cardinality(kept) < MaxJobs /\ Insert(id, kept)
    BY <1>1 DEF EnqueueAccepted, EnqueueAfterStop
  <2>2. kept \in SUBSET jobs /\ jobs \ kept \in SUBSET Board!FinishedIn(jobs)
    BY MadeRoomForgetsFinished DEF Finished, Board!FinishedIn
  <2>3. jobs' = (jobs \ (jobs \ kept)) \union {id}
    BY <2>1, <2>2 DEF Insert
  <2>4. Cardinality(jobs') <= MaxJobs
    BY <2>1, <2>2, SizeAfterInsert DEF Insert, SafetyInv
  <2>5. status[id] = "none" /\ status' = [status EXCEPT ![id] = "pending"]
    BY <1>1, <2>1 DEF EnqueueAccepted, EnqueueAfterStop, Insert
  <2> QED
    BY <2>2, <2>3, <2>4, <2>5, BoardCardinality DEF Board!Submit
<1>2. CASE EnqueueRejected \/ CleanupTick
  <2>1. /\ jobs' \in SUBSET jobs
        /\ jobs \ jobs' \in SUBSET Board!FinishedIn(jobs)
        /\ status' = status
    BY <1>2, MadeRoomForgetsFinished, CleanupForgetsFinished
       DEF EnqueueRejected, CleanupTick, Finished, Board!FinishedIn
  <2>2. jobs' = jobs \ (jobs \ jobs')
    BY <2>1
  <2> QED
    BY <2>1, <2>2 DEF Board!Forget, Board!Next
<1>3. ASSUME NEW w \in Workers, WorkerStep(w)
      PROVE  [Board!Next]_(Board!vars)
  <2>1. CASE WorkerStart(w)
    <3>1. /\ wpc[w] = "received" /\ wjob[w] \in JobIds
          /\ status[wjob[w]] = "pending"
      BY <2>1, Points DEF WorkerStart, SafetyInv, TypeInv, HolderHasJob, Holding,
                          SingleOwner, HeldAsMarked
    <3>2. Cardinality(Board!Running) < Cardinality(Workers)
      BY <3>1, Points, FreeSlot
    <3>3. Board!Begin(wjob[w])
      BY <2>1, <3>1, <3>2, BoardCardinality DEF WorkerStart, Board!Begin
    <3> QED
      BY <3>1, <3>3 DEF Board!Next
  <2>2. CASE FinishStep(w)
    <3>1. PICK from \in RunningPoints, result \in {"completed", "failed"} :
             WorkerFinish(w, from, result)
      BY <2>2 DEF FinishStep
    <3>2. wjob[w] \in JobIds /\ status[wjob[w]] = "running"
      BY <3>1, Points DEF WorkerFinish, SafetyInv, TypeInv, HolderHasJob, Holding,
                          SingleOwner, HeldAsMarked
    <3>3. Board!End(wjob[w])
      BY <3>1, <3>2 DEF WorkerFinish, Board!End
    <3> QED
      BY <3>2, <3>3 DEF Board!Next
  <2>3. CASE WorkerReceive(w) \/ WorkerExit(w) \/ PublishStep(w) \/ BranchStep(w)
    BY <2>3 DEF WorkerReceive, WorkerExit, PublishStep, WorkerPublish, BranchStep,
                WorkerBranch, Board!vars
  <2> QED
    BY <1>3, <2>1, <2>2, <2>3, WorkerStepKinds
<1>4. CASE \/ CleanerExit \/ StopCloseStopCh \/ StopClosePending \/ StopReturn
           \/ Tick \/ UNCHANGED vars
  BY <1>4 DEF CleanerExit, StopCloseStopCh, StopClosePending, StopReturn, StopTo,
              Tick, vars, Board!vars
<1> QED
  BY <1>1, <1>2, <1>3, <1>4 DEF Next, Board!Next

\* Workers, channel, locks and shutdown together keep the promise of
\* ScanBoard: a bounded board, at most one running job per worker, one final
\* result per job, and only results are forgotten (queue.go:78-386).
THEOREM QueueImplementsBoard == Spec => ImplementsBoard
<1>1. Init => Board!Init
  BY DEF Init, Board!Init
<1> QED
  BY <1>1, SafetyInvariant, BoardStep, PTL DEF Spec, ImplementsBoard, Board!Spec

-----------------------------------------------------------------------------
(***************************************************************************)
(* Consequences a caller of the queue relies on.                           *)
(***************************************************************************)
LEMMA ActiveListedNext ==
  SafetyInv /\ ActiveJobsAreListed /\ [Next]_vars => ActiveJobsAreListed'
<1> SUFFICES ASSUME SafetyInv, ActiveJobsAreListed, [Board!Next]_(Board!vars)
             PROVE  ActiveJobsAreListed'
  BY BoardStep
<1> USE DEF ActiveJobsAreListed, Active
<1>1. status \in [JobIds -> StatusValues]
  BY DEF SafetyInv, TypeInv, TypeOK
<1>2. ASSUME NEW j \in JobIds, Board!Submit(j) PROVE ActiveJobsAreListed'
  BY <1>1, <1>2 DEF Board!Submit, Board!FinishedIn
<1>3. ASSUME NEW j \in JobIds, Board!Begin(j) \/ Board!End(j)
      PROVE  ActiveJobsAreListed'
  BY <1>1, <1>3 DEF Board!Begin, Board!End
<1>4. CASE Board!Forget
  BY <1>4 DEF Board!Forget, Board!FinishedIn
<1>5. CASE UNCHANGED Board!vars
  BY <1>5 DEF Board!vars
<1> QED
  BY <1>2, <1>3, <1>4, <1>5 DEF Board!Next

\* A pending or running job can be looked up at any time, for any TTL and any
\* capacity (queue.go:138-142, 360-386).
THEOREM ActiveJobsAreListedHolds == Spec => []ActiveJobsAreListed
<1>1. Init => ActiveJobsAreListed
  BY DEF Init, ActiveJobsAreListed, Active
<1> QED
  BY <1>1, SafetyInvariant, ActiveListedNext, PTL DEF Spec

-----------------------------------------------------------------------------
(***************************************************************************)
(* A rejection.  Among finitely many finished jobs one is an oldest, so a  *)
(* map that is still full after cleanupLocked has no finished job.         *)
(***************************************************************************)
LEMMA LeastNatural ==
  ASSUME NEW T \in SUBSET Nat, T # {}
  PROVE  \E x \in T : \A y \in T : x <= y
<1>1. IsWellFoundedOn(OpToRel(<, Nat), Nat)
  BY NatLessThanWellFounded
<1>2. ASSUME NEW R, IsWellFoundedOn(R, Nat), \A m, n \in Nat : <<n, m>> \in R <=> n < m
      PROVE  \E x \in T : \A y \in T : x <= y
  <2>1. \E m \in T : \A n \in T : ~(<<n, m>> \in R)
    BY <1>2, WFMin
  <2>2. ASSUME NEW m \in T, NEW n \in T, ~(<<n, m>> \in R) PROVE m <= n
    <3>1. m \in Nat /\ n \in Nat /\ ~(n < m)
      BY <1>2, <2>2
    <3> QED
      BY <3>1
  <2> QED
    BY <2>1, <2>2, Zenon
<1>3. \A m, n \in Nat : <<n, m>> \in OpToRel(<, Nat) <=> n < m
  BY DEF OpToRel
<1> QED
  BY <1>1, <1>2, <1>3

LEMMA OldestExists ==
  ASSUME TypeOK, NEW S \in SUBSET JobIds, NEW j \in S, Finished(j)
  PROVE  OldestFinished(S) # {}
<1> DEFINE T == {createdAt[k] : k \in {i \in S : Finished(i)}}
<1>1. createdAt \in [JobIds -> Nat]
  BY JobQueueAssumption DEF TypeOK, JobQueueAssumption
<1>2. T \in SUBSET Nat /\ T # {}
  BY <1>1
<1>3. PICK t \in T : \A u \in T : t <= u
  <2> HIDE DEF T
  <2> QED
    BY <1>2, LeastNatural
<1>4. PICK k \in S : Finished(k) /\ createdAt[k] = t
  OBVIOUS
<1>5. k \in OldestFinished(S)
  BY <1>3, <1>4 DEF OldestFinished
<1> QED
  BY <1>5

\* The jobs of the map have been submitted.
ListedAreSubmitted == \A j \in jobs : status[j] # "none"

LEMMA ListedNext ==
  ASSUME SafetyInv, ListedAreSubmitted, [Next]_vars
  PROVE  ListedAreSubmitted'
<1>1. status \in [JobIds -> StatusValues] /\ jobs \in SUBSET JobIds
  BY DEF SafetyInv, TypeInv, TypeOK
<1>2. [Board!Next]_(Board!vars)
  BY BoardStep
<1>3. ASSUME NEW j \in JobIds, Board!Submit(j) PROVE ListedAreSubmitted'
  BY <1>1, <1>3 DEF Board!Submit, Board!FinishedIn, ListedAreSubmitted
<1>4. ASSUME NEW j \in JobIds, Board!Begin(j) \/ Board!End(j) PROVE ListedAreSubmitted'
  BY <1>1, <1>4 DEF Board!Begin, Board!End, ListedAreSubmitted
<1>5. CASE Board!Forget \/ UNCHANGED Board!vars
  BY <1>1, <1>5 DEF Board!Forget, Board!vars, ListedAreSubmitted
<1> QED
  BY <1>2, <1>3, <1>4, <1>5 DEF Board!Next

\* What is left of the map is as large as the map was, so it is the map; and
\* cleanupLocked would have taken one more if one had been finished.
LEMMA FullMapIsActive ==
  ASSUME SafetyInv, ListedAreSubmitted, NEW kept \in MadeRoom, Cardinality(kept) >= MaxJobs
  PROVE  /\ kept = jobs
         /\ Cardinality(jobs) >= MaxJobs
         /\ \A j \in jobs : Active(j)
<1>1. /\ IsFiniteSet(jobs) /\ Cardinality(jobs) <= MaxJobs /\ MaxJobs \in Nat
      /\ jobs \in SUBSET JobIds /\ status \in [JobIds -> StatusValues] /\ TypeOK
  BY JobQueueAssumption DEF SafetyInv, JobsBounded, TypeInv, TypeOK, JobQueueAssumption
<1>2. kept \in SUBSET jobs
  BY MadeRoomForgetsFinished
<1>3. /\ Cardinality(kept) \in Nat /\ Cardinality(jobs) \in Nat
      /\ Cardinality(kept) <= Cardinality(jobs)
      /\ Cardinality(jobs) = Cardinality(kept) => jobs = kept
  BY <1>1, <1>2, FS_Subset, FS_CardinalityType
<1>4. kept = jobs /\ Cardinality(jobs) >= MaxJobs
  BY <1>1, <1>3
<1>5. ASSUME NEW j \in jobs, Finished(j)
      PROVE  FALSE
  <2>1. kept \in AfterCleanup
    BY <1>4 DEF MadeRoom
  <2>2. KeptByTTL \in SUBSET jobs
    BY DEF KeptByTTL
  <2>3. KeptByTTL = jobs
    BY <1>4, <2>1, <2>2 DEF AfterCleanup
  <2>4. OldestFinished(KeptByTTL) # {}
    BY <1>1, <1>5, <2>3, OldestExists
  <2>5. PICK i \in OldestFinished(KeptByTTL) : kept = KeptByTTL \ {i}
    BY <1>4, <2>1, <2>3, <2>4 DEF AfterCleanup
  <2>6. i \in KeptByTTL
    BY <2>5 DEF OldestFinished
  <2> QED
    BY <1>4, <2>3, <2>5, <2>6
<1>6. \A j \in jobs : Active(j)
  BY <1>1, <1>5 DEF ListedAreSubmitted, Active, Finished, StatusValues
<1> QED
  BY <1>4, <1>6

\* Enqueue answers ErrQueueFull only when the map is full of jobs that have not
\* finished (queue.go:101-107, 360-388).
THEOREM RejectionsAreJustified == Spec => RejectedOnlyWhenAllActive
<1>1. Init => ListedAreSubmitted
  BY DEF Init, ListedAreSubmitted
<1>2. Spec => [](SafetyInv /\ ListedAreSubmitted)
  BY <1>1, ListedNext, SafetyInvariant, PTL DEF Spec
<1>3. ASSUME SafetyInv, ListedAreSubmitted, [Next]_vars,
             lastErr # "ErrQueueFull", lastErr' = "ErrQueueFull"
      PROVE  jobs' = jobs /\ Cardinality(jobs) >= MaxJobs /\ \A j \in jobs : Active(j)
  <2>1. EnqueueRejected
    <3>1. ~UNCHANGED lastErr
      BY <1>3
    <3>2. ASSUME NEW w \in Workers, WorkerStep(w) PROVE FALSE
      BY <3>1, <3>2, WorkerStepKinds
         DEF WorkerReceive, WorkerExit, WorkerStart, PublishStep, WorkerPublish,
             BranchStep, WorkerBranch, FinishStep, WorkerFinish
    <3> QED
      BY <1>3, <3>1, <3>2
         DEF Next, EnqueueAccepted, EnqueueAfterStop, CleanupTick, CleanerExit,
             StopCloseStopCh, StopClosePending, StopReturn, StopTo, Tick, vars
  <2> QED
    BY <1>3, <2>1, FullMapIsActive DEF EnqueueRejected
<1>4. SafetyInv /\ ListedAreSubmitted /\ [Next]_vars =>
        [lastErr # "ErrQueueFull" /\ lastErr' = "ErrQueueFull"
           => /\ jobs' = jobs
              /\ Cardinality(jobs) >= MaxJobs
              /\ \A j \in jobs : Active(j)]_vars
  BY <1>3
<1> QED
  BY <1>2, <1>4, PTL DEF Spec, RejectedOnlyWhenAllActive

-----------------------------------------------------------------------------
(***************************************************************************)
(* The events of a job.  The program point of the worker that holds it     *)
(* says how far its events have come, and its status says it of a job that *)
(* nobody holds.                                                           *)
(***************************************************************************)
\* Progress up to p and nothing else.
Quiet(es, p) ==
  \A i \in DOMAIN es : es[i].type = "progress" /\ es[i].progress <= p

\* The outcome has been announced, and no other.
Told(es, outcome) ==
  /\ \E i \in DOMAIN es : es[i].type = outcome
  /\ \A i \in DOMAIN es : es[i].type \in {"progress", outcome}

Ordered(es) ==
  \A i, k \in DOMAIN es :
    i < k => /\ es[i].type = "progress"
             /\ es[k].type # "failed" => es[i].progress < es[k].progress

\* What has been published when a worker is at a point.
HeardAt(point, es) ==
  /\ point = "announce" => Quiet(es, 0)
  /\ point \in {"lookup", "finishCached", "open"} => Quiet(es, 10)
  /\ point \in {"navigate", "publishFailed"} => Quiet(es, 20)
  /\ point = "detect" => Quiet(es, 60)
  /\ point = "emails" => Quiet(es, 90)
  /\ point = "contacts" => Quiet(es, 95)
  /\ point = "publishCompleted" => Quiet(es, 96)
  /\ point = "finishFailed" => Told(es, "failed")
  /\ point = "finishCompleted" => Told(es, "completed")

\* What has been published of a job with a status; of a running job its worker
\* says it.
HeardOf(st, es) ==
  /\ st = "none" => es = <<>>
  /\ st = "pending" => Quiet(es, 0)
  /\ st = "failed" => Told(es, "failed")
  /\ st = "completed" => Told(es, "completed") \/ Quiet(es, 10)

EventsInv ==
  /\ \A j \in JobIds : Ordered(events[j]) /\ HeardOf(status[j], events[j])
  /\ \A w \in Workers : wpc[w] \in RunningPoints => HeardAt(wpc[w], events[wjob[w]])

LEMMA EventFields ==
  ASSUME NEW es \in Seq(EventValues)
  PROVE  /\ Len(es) \in Nat /\ DOMAIN es = 1..Len(es)
         /\ \A i \in DOMAIN es : es[i].progress \in Nat
<1>1. Len(es) \in Nat /\ DOMAIN es = 1..Len(es)
  OBVIOUS
<1>2. \A e \in EventValues : e.progress \in Nat
  <2>1. \A n \in 0..100 : n \in Nat
    OBVIOUS
  <2>2. \A e \in EventValues : e.progress \in 0..100
    BY Zenon DEF EventValues
  <2> QED
    BY <2>1, <2>2, Zenon
<1>3. \A i \in DOMAIN es : es[i] \in EventValues
  OBVIOUS
<1> QED
  BY <1>1, <1>2, <1>3

\* The events are those before and the new one.
LEMMA AppendedEvents ==
  ASSUME NEW es \in Seq(EventValues), NEW e, NEW more, more = Append(es, e)
  PROVE  /\ Len(es) + 1 \in DOMAIN more /\ more[Len(es) + 1] = e
         /\ \A i \in DOMAIN more : \/ i \in DOMAIN es /\ more[i] = es[i]
                                   \/ i = Len(es) + 1
         /\ \A i, k \in DOMAIN more : i < k => i \in DOMAIN es /\ more[i] = es[i]
<1>1. Len(es) \in Nat /\ DOMAIN es = 1..Len(es)
  BY EventFields
<1>2. DOMAIN more = 1..(Len(es) + 1)
  OBVIOUS
<1>3. more[Len(es) + 1] = e /\ \A i \in 1..Len(es) : more[i] = es[i]
  OBVIOUS
<1> QED
  BY <1>1, <1>2, <1>3

LEMMA QuietLonger ==
  ASSUME NEW es \in Seq(EventValues), NEW a \in Nat, NEW b \in Nat, a <= b, Quiet(es, a)
  PROVE  Quiet(es, b)
<1> SUFFICES ASSUME NEW i \in DOMAIN es PROVE es[i].type = "progress" /\ es[i].progress <= b
  BY DEF Quiet
<1>1. es[i].progress \in Nat
  BY EventFields
<1>2. es[i].type = "progress" /\ es[i].progress <= a
  BY DEF Quiet
<1> HIDE DEF Quiet
<1>3. es[i].progress <= b
  BY <1>1, <1>2
<1> QED
  BY <1>2, <1>3

\* Progress that is new goes on in order, and an outcome ends the events.
LEMMA EventAppended ==
  ASSUME NEW es \in Seq(EventValues), NEW a \in Nat, Ordered(es), Quiet(es, a),
         NEW type \in {"progress", "completed", "failed"}, NEW p \in Nat,
         type # "failed" => a < p,
         NEW more, more = Append(es, [type |-> type, progress |-> p])
  PROVE  /\ Ordered(more)
         /\ type = "progress" => Quiet(more, p)
         /\ type # "progress" => Told(more, type)
<1> DEFINE e == [type |-> type, progress |-> p]
           last == Len(es) + 1
<1>1. e.type = type /\ e.progress = p
  OBVIOUS
<1>2. \A i \in DOMAIN es : es[i].progress \in Nat /\ es[i].progress <= a /\ es[i].type = "progress"
  BY EventFields DEF Quiet
<1> HIDE DEF e
<1>3. /\ last \in DOMAIN more /\ more[last] = e
      /\ \A i \in DOMAIN more : \/ i \in DOMAIN es /\ more[i] = es[i]
                                \/ i = last
      /\ \A i, k \in DOMAIN more : i < k => i \in DOMAIN es /\ more[i] = es[i]
  BY AppendedEvents DEF e
<1> HIDE DEF last
<1>4. Ordered(more)
  <2> SUFFICES ASSUME NEW i \in DOMAIN more, NEW k \in DOMAIN more, i < k
               PROVE  /\ more[i].type = "progress"
                      /\ more[k].type # "failed" => more[i].progress < more[k].progress
    BY DEF Ordered
  <2>1. i \in DOMAIN es /\ more[i] = es[i]
    BY <1>3
  <2>2. CASE k \in DOMAIN es /\ more[k] = es[k]
    BY <2>1, <2>2 DEF Ordered
  <2>3. CASE k = last
    <3>1. more[k].type = type /\ more[k].progress = p
      BY <1>1, <1>3, <2>3
    <3>2. es[i].progress \in Nat /\ es[i].progress <= a /\ es[i].type = "progress"
      BY <1>2, <2>1
    <3>3. type # "failed" => es[i].progress < p
      BY <3>2
    <3> QED
      BY <2>1, <3>1, <3>2, <3>3
  <2> QED
    BY <1>3, <2>2, <2>3
<1>5. ASSUME type = "progress" PROVE Quiet(more, p)
  <2> SUFFICES ASSUME NEW i \in DOMAIN more
               PROVE  more[i].type = "progress" /\ more[i].progress <= p
    BY DEF Quiet
  <2>1. CASE i \in DOMAIN es /\ more[i] = es[i]
    <3>1. es[i].progress \in Nat /\ es[i].progress <= a /\ es[i].type = "progress"
      BY <1>2, <2>1
    <3>2. es[i].progress <= p
      BY <1>5, <3>1
    <3> QED
      BY <2>1, <3>1, <3>2
  <2>2. CASE i = last
    BY <1>1, <1>3, <1>5, <2>2
  <2> QED
    BY <1>3, <2>1, <2>2
<1>6. ASSUME type # "progress" PROVE Told(more, type)
  BY <1>1, <1>2, <1>3 DEF Told
<1> QED
  BY <1>4, <1>5, <1>6

-----------------------------------------------------------------------------

\* A worker that runs a job moves to another point, the events of its job being es.
LEMMA WorkerMovesOn ==
  ASSUME SafetyInv, EventsInv, NEW w \in Workers, wpc[w] \in RunningPoints,
         NEW to \in RunningPoints, Goto(w, to), UNCHANGED <<wjob, status>>,
         NEW es, Ordered(es), HeardAt(to, es), events' = [events EXCEPT ![wjob[w]] = es]
  PROVE  EventsInv'
<1>1. /\ wjob[w] \in JobIds /\ status[wjob[w]] = "running"
      /\ wpc \in [Workers -> WorkerPoints]
      /\ events \in [JobIds -> Seq(EventValues)]
  BY Points DEF SafetyInv, TypeInv, TypeOK, HolderHasJob, Holding, SingleOwner, HeldAsMarked
<1>2. \A v \in Workers \ {w} : wpc[v] \in RunningPoints => wjob[v] # wjob[w] /\ wjob[v] \in JobIds
  BY Points DEF SafetyInv, TypeInv, HolderHasJob, SingleOwner, OneHolder, Holding
<1>3. \A j \in JobIds : events'[j] = IF j = wjob[w] THEN es ELSE events[j]
  BY <1>1
<1>4. \A j \in JobIds : Ordered(events'[j]) /\ HeardOf(status'[j], events'[j])
  BY <1>1, <1>3 DEF EventsInv, HeardOf
<1>5. ASSUME NEW v \in Workers, wpc'[v] \in RunningPoints
      PROVE  HeardAt(wpc'[v], events'[wjob'[v]])
  <2>1. CASE v = w
    BY <1>1, <1>3, <2>1 DEF Goto
  <2>2. CASE v # w
    <3>1. wpc'[v] = wpc[v]
      BY <1>1, <2>2 DEF Goto
    <3> QED
      BY <1>2, <1>3, <1>5, <2>2, <3>1 DEF EventsInv
  <2> QED
    BY <2>1, <2>2
<1> QED
  BY <1>4, <1>5 DEF EventsInv

\* A worker that publishes progress p, from a point at which less was published.
LEMMA WorkerReports ==
  ASSUME SafetyInv, EventsInv, NEW w \in Workers, NEW from \in RunningPoints,
         NEW to \in RunningPoints, NEW p \in 0..100, NEW a \in Nat, a < p,
         WorkerPublish(w, from, "progress", p, to),
         \A es : HeardAt(from, es) => Quiet(es, a),
         \A es : Quiet(es, p) => HeardAt(to, es)
  PROVE  EventsInv'
<1> DEFINE es == events[wjob[w]]
           more == Append(es, [type |-> "progress", progress |-> p])
<1>1. wpc[w] = from /\ wjob[w] \in JobIds
  BY Points DEF WorkerPublish, SafetyInv, TypeInv, HolderHasJob, Holding
<1>2. es \in Seq(EventValues) /\ Ordered(es) /\ HeardAt(from, es)
  BY <1>1 DEF EventsInv, SafetyInv, TypeInv, TypeOK
<1>3. Quiet(es, a)
  BY <1>2
<1>4. events' = [events EXCEPT ![wjob[w]] = more]
  BY DEF WorkerPublish, Publish
<1> HIDE DEF es
<1>a. p \in Nat /\ more = Append(es, [type |-> "progress", progress |-> p])
  OBVIOUS
<1> HIDE DEF more
<1>5. Ordered(more) /\ Quiet(more, p)
  BY <1>2, <1>3, <1>a, EventAppended
<1>6. HeardAt(to, more)
  BY <1>5
<1> QED
  BY <1>1, <1>4, <1>5, <1>6, WorkerMovesOn DEF WorkerPublish

LEMMA WorkerAnnounces ==
  ASSUME SafetyInv, EventsInv, NEW w \in Workers, PublishFailed(w) \/ PublishCompleted(w)
  PROVE  EventsInv'
<1> DEFINE es == events[wjob[w]]
<1>1. ASSUME NEW outcome \in {"completed", "failed"}, NEW p \in 0..100, NEW a \in Nat,
             outcome = "completed" => a < p,
             NEW from \in RunningPoints, NEW to \in RunningPoints,
             WorkerPublish(w, from, outcome, p, to),
             HeardAt(from, es) => Quiet(es, a),
             \A e : Told(e, outcome) => HeardAt(to, e)
      PROVE  EventsInv'
  <2> DEFINE more == Append(es, [type |-> outcome, progress |-> p])
  <2>1. wpc[w] = from /\ wjob[w] \in JobIds
    BY <1>1, Points DEF WorkerPublish, SafetyInv, TypeInv, HolderHasJob, Holding
  <2>2. es \in Seq(EventValues) /\ Ordered(es) /\ HeardAt(from, es)
    BY <2>1 DEF EventsInv, SafetyInv, TypeInv, TypeOK
  <2>3. Quiet(es, a)
    BY <1>1, <2>2
  <2>4. events' = [events EXCEPT ![wjob[w]] = more]
    BY <1>1 DEF WorkerPublish, Publish
  <2> HIDE DEF es
  <2>a. p \in Nat /\ more = Append(es, [type |-> outcome, progress |-> p])
    BY <1>1
  <2> HIDE DEF more
  <2>5. Ordered(more) /\ Told(more, outcome)
    BY <1>1, <2>2, <2>3, <2>a, EventAppended
  <2>6. HeardAt(to, more)
    BY <1>1, <2>5
  <2> QED
    BY <1>1, <2>1, <2>4, <2>5, <2>6, WorkerMovesOn DEF WorkerPublish
<1>2. {"publishFailed", "publishCompleted", "finishFailed", "finishCompleted"} \subseteq RunningPoints
  BY DEF RunningPoints
<1> HIDE DEF es
<1>3. CASE PublishFailed(w)
  <2>1. WorkerPublish(w, "publishFailed", "failed", 0, "finishFailed")
    BY <1>3 DEF PublishFailed
  <2>2. HeardAt("publishFailed", es) => Quiet(es, 20)
    BY DEF HeardAt
  <2>3. \A e : Told(e, "failed") => HeardAt("finishFailed", e)
    BY DEF HeardAt
  <2> QED
    BY <1>1, <1>2, <2>1, <2>2, <2>3
<1>4. CASE PublishCompleted(w)
  <2>1. WorkerPublish(w, "publishCompleted", "completed", 100, "finishCompleted")
    BY <1>4 DEF PublishCompleted
  <2>2. HeardAt("publishCompleted", es) => Quiet(es, 96)
    BY DEF HeardAt
  <2>3. \A e : Told(e, "completed") => HeardAt("finishCompleted", e)
    BY DEF HeardAt
  <2> QED
    BY <1>1, <1>2, <2>1, <2>2, <2>3
<1> QED
  BY <1>3, <1>4

LEMMA WorkerScans ==
  ASSUME SafetyInv, EventsInv, NEW w \in Workers,
         \/ AnnounceRunning(w) \/ ScanFetching(w) \/ ScanParsing(w)
         \/ ScanDetecting(w) \/ ScanEmails(w) \/ ScanContacts(w)
  PROVE  EventsInv'
<1>1. /\ {"announce", "lookup", "open", "navigate"} \subseteq RunningPoints
      /\ {"detect", "emails", "contacts", "publishCompleted"} \subseteq RunningPoints
      /\ {10, 20, 60, 90, 95, 96} \subseteq 0..100 /\ {0, 10, 20, 60, 90, 95} \subseteq Nat
  BY DEF RunningPoints, ScanPoints
<1>2. CASE AnnounceRunning(w)
  <2>1. WorkerPublish(w, "announce", "progress", 10, "lookup")
    BY <1>2 DEF AnnounceRunning
  <2>2. /\ \A es : HeardAt("announce", es) => Quiet(es, 0)
        /\ \A es : Quiet(es, 10) => HeardAt("lookup", es)
    BY DEF HeardAt
  <2>3. /\ "announce" \in RunningPoints /\ "lookup" \in RunningPoints
        /\ 10 \in 0..100 /\ 0 \in Nat /\ 0 < 10
    BY <1>1
  <2> QED
    BY <2>1, <2>2, <2>3, WorkerReports, Zenon
<1>3. CASE ScanFetching(w)
  <2>1. WorkerPublish(w, "open", "progress", 20, "navigate")
    BY <1>3 DEF ScanFetching
  <2>2. /\ \A es : HeardAt("open", es) => Quiet(es, 10)
        /\ \A es : Quiet(es, 20) => HeardAt("navigate", es)
    BY DEF HeardAt
  <2>3. /\ "open" \in RunningPoints /\ "navigate" \in RunningPoints
        /\ 20 \in 0..100 /\ 10 \in Nat /\ 10 < 20
    BY <1>1
  <2> QED
    BY <2>1, <2>2, <2>3, WorkerReports, Zenon
<1>4. CASE ScanParsing(w)
  <2>1. WorkerPublish(w, "navigate", "progress", 60, "detect")
    BY <1>4 DEF ScanParsing
  <2>2. /\ \A es : HeardAt("navigate", es) => Quiet(es, 20)
        /\ \A es : Quiet(es, 60) => HeardAt("detect", es)
    BY DEF HeardAt
  <2>3. /\ "navigate" \in RunningPoints /\ "detect" \in RunningPoints
        /\ 60 \in 0..100 /\ 20 \in Nat /\ 20 < 60
    BY <1>1
  <2> QED
    BY <2>1, <2>2, <2>3, WorkerReports, Zenon
<1>5. CASE ScanDetecting(w)
  <2>1. WorkerPublish(w, "detect", "progress", 90, "emails")
    BY <1>5 DEF ScanDetecting
  <2>2. /\ \A es : HeardAt("detect", es) => Quiet(es, 60)
        /\ \A es : Quiet(es, 90) => HeardAt("emails", es)
    BY DEF HeardAt
  <2>3. /\ "detect" \in RunningPoints /\ "emails" \in RunningPoints
        /\ 90 \in 0..100 /\ 60 \in Nat /\ 60 < 90
    BY <1>1
  <2> QED
    BY <2>1, <2>2, <2>3, WorkerReports, Zenon
<1>6. CASE ScanEmails(w)
  <2>1. WorkerPublish(w, "emails", "progress", 95, "contacts")
    BY <1>6 DEF ScanEmails
  <2>2. /\ \A es : HeardAt("emails", es) => Quiet(es, 90)
        /\ \A es : Quiet(es, 95) => HeardAt("contacts", es)
    BY DEF HeardAt
  <2>3. /\ "emails" \in RunningPoints /\ "contacts" \in RunningPoints
        /\ 95 \in 0..100 /\ 90 \in Nat /\ 90 < 95
    BY <1>1
  <2> QED
    BY <2>1, <2>2, <2>3, WorkerReports, Zenon
<1>7. CASE ScanContacts(w)
  <2>1. WorkerPublish(w, "contacts", "progress", 96, "publishCompleted")
    BY <1>7 DEF ScanContacts
  <2>2. /\ \A es : HeardAt("contacts", es) => Quiet(es, 95)
        /\ \A es : Quiet(es, 96) => HeardAt("publishCompleted", es)
    BY DEF HeardAt
  <2>3. /\ "contacts" \in RunningPoints /\ "publishCompleted" \in RunningPoints
        /\ 96 \in 0..100 /\ 95 \in Nat /\ 95 < 96
    BY <1>1
  <2> QED
    BY <2>1, <2>2, <2>3, WorkerReports, Zenon
<1> QED
  BY <1>2, <1>3, <1>4, <1>5, <1>6, <1>7

LEMMA WorkerBranches ==
  ASSUME SafetyInv, EventsInv, NEW w \in Workers,
         CacheHit(w) \/ CacheMiss(w) \/ ScanFails(w) \/ ScanReturns(w)
  PROVE  EventsInv'
<1> DEFINE es == events[wjob[w]]
<1>1. ASSUME NEW from \in RunningPoints, NEW to \in RunningPoints,
             WorkerBranch(w, from, to), HeardAt(from, es) => HeardAt(to, es)
      PROVE  EventsInv'
  <2>1. wpc[w] = from /\ wjob[w] \in JobIds
    BY <1>1, Points DEF WorkerBranch, SafetyInv, TypeInv, HolderHasJob, Holding
  <2>2. Ordered(es) /\ HeardAt(from, es)
    BY <1>1, <2>1 DEF EventsInv
  <2>3. events' = [events EXCEPT ![wjob[w]] = es]
    BY <1>1, <2>1 DEF WorkerBranch, SafetyInv, TypeInv, TypeOK
  <2> HIDE DEF es
  <2> QED
    BY <1>1, <2>1, <2>2, <2>3, WorkerMovesOn DEF WorkerBranch
<1>2. /\ {"lookup", "finishCached", "open", "navigate"} \subseteq RunningPoints
      /\ {"publishFailed", "emails", "contacts", "publishCompleted"} \subseteq RunningPoints
  BY DEF RunningPoints, ScanPoints
<1>3. /\ HeardAt("lookup", es) => HeardAt("finishCached", es) /\ HeardAt("open", es)
      /\ HeardAt("navigate", es) => HeardAt("publishFailed", es)
  BY DEF HeardAt
<1>4. CASE CacheHit(w) \/ CacheMiss(w) \/ ScanFails(w)
  <2> HIDE DEF es
  <2> QED
    BY <1>1, <1>2, <1>3, <1>4 DEF CacheHit, CacheMiss, ScanFails
<1>5. CASE ScanReturns(w)
  <2>1. wjob[w] \in JobIds
    BY <1>2, <1>5, Points
       DEF ScanReturns, WorkerBranch, SafetyInv, TypeInv, HolderHasJob, Holding
  <2>2. es \in Seq(EventValues)
    BY <2>1 DEF SafetyInv, TypeInv, TypeOK
  <2> HIDE DEF es
  <2>3. Quiet(es, 90) => Quiet(es, 96)
    BY <2>2, QuietLonger
  <2>4. Quiet(es, 95) => Quiet(es, 96)
    BY <2>2, QuietLonger
  <2>5. /\ HeardAt("emails", es) => HeardAt("publishCompleted", es)
        /\ HeardAt("contacts", es) => HeardAt("publishCompleted", es)
    BY <2>3, <2>4 DEF HeardAt
  <2> QED
    BY <1>1, <1>2, <1>5, <2>5 DEF ScanReturns
<1> QED
  BY <1>4, <1>5

\* The job gets the status that its worker announced.
LEMMA WorkerFinishes ==
  ASSUME SafetyInv, EventsInv, NEW w \in Workers,
         FinishCached(w) \/ FinishFailed(w) \/ FinishCompleted(w)
  PROVE  EventsInv'
<1>1. ASSUME NEW from \in RunningPoints, NEW result \in {"completed", "failed"},
             WorkerFinish(w, from, result),
             \A es : HeardAt(from, es) => HeardOf(result, es)
      PROVE  EventsInv'
  <2>1. /\ wpc[w] = from /\ wjob[w] \in JobIds /\ wpc \in [Workers -> WorkerPoints]
        /\ wjob \in [Workers -> JobIds \union {NoJob}] /\ status \in [JobIds -> StatusValues]
    BY <1>1, Points DEF WorkerFinish, SafetyInv, TypeInv, TypeOK, HolderHasJob, Holding
  <2>2. HeardOf(result, events[wjob[w]])
    BY <1>1, <2>1 DEF EventsInv
  <2>3. \A j \in JobIds : status'[j] = IF j = wjob[w] THEN result ELSE status[j]
    BY <1>1, <2>1 DEF WorkerFinish
  <2>4. \A v \in Workers : wpc'[v] \in RunningPoints =>
          wpc'[v] = wpc[v] /\ wjob'[v] = wjob[v]
    BY <1>1, <2>1, Points DEF WorkerFinish, Goto
  <2>5. events' = events
    BY <1>1 DEF WorkerFinish
  <2> QED
    BY <2>2, <2>3, <2>4, <2>5 DEF EventsInv
<1>2. {"finishCached", "finishFailed", "finishCompleted"} \subseteq RunningPoints
  BY DEF RunningPoints
<1>3. /\ \A es : HeardAt("finishCached", es) => HeardOf("completed", es)
      /\ \A es : HeardAt("finishFailed", es) => HeardOf("failed", es)
      /\ \A es : HeardAt("finishCompleted", es) => HeardOf("completed", es)
  BY DEF HeardAt, HeardOf
<1> QED
  BY <1>1, <1>2, <1>3 DEF FinishCached, FinishFailed, FinishCompleted

\* A worker that takes or starts a job publishes nothing.
LEMMA WorkerTakes ==
  ASSUME SafetyInv, EventsInv, NEW w \in Workers,
         WorkerReceive(w) \/ WorkerExit(w) \/ WorkerStart(w)
  PROVE  EventsInv'
<1>1. /\ wpc \in [Workers -> WorkerPoints] /\ wjob \in [Workers -> JobIds \union {NoJob}]
      /\ status \in [JobIds -> StatusValues] /\ events' = events
  BY DEF SafetyInv, TypeInv, TypeOK, WorkerReceive, WorkerExit, WorkerStart
<1>2. CASE WorkerReceive(w) \/ WorkerExit(w)
  <2>1. \A v \in Workers : wpc'[v] \in RunningPoints =>
          wpc'[v] = wpc[v] /\ wjob'[v] = wjob[v]
    BY <1>1, <1>2, Points DEF WorkerReceive, WorkerExit, Goto, HoldingPoints
  <2>2. status' = status
    BY <1>2 DEF WorkerReceive, WorkerExit
  <2> QED
    BY <1>1, <2>1, <2>2 DEF EventsInv
<1>3. CASE WorkerStart(w)
  <2>1. wjob[w] \in JobIds /\ status[wjob[w]] = "pending"
    BY <1>3, Points
       DEF WorkerStart, SafetyInv, TypeInv, HolderHasJob, Holding, SingleOwner, HeldAsMarked
  <2>2. \A j \in JobIds : status'[j] = IF j = wjob[w] THEN "running" ELSE status[j]
    BY <1>1, <1>3 DEF WorkerStart
  <2>3. \A v \in Workers : wpc'[v] = IF v = w THEN "announce" ELSE wpc[v]
    BY <1>1, <1>3 DEF WorkerStart, Goto
  <2>4. wjob' = wjob
    BY <1>3 DEF WorkerStart
  <2>5. HeardAt("announce", events[wjob[w]])
    BY <2>1 DEF EventsInv, HeardOf, HeardAt
  <2>6. \A j \in JobIds : Ordered(events'[j]) /\ HeardOf(status'[j], events'[j])
    BY <1>1, <2>2 DEF EventsInv, HeardOf
  <2>7. \A v \in Workers : wpc'[v] \in RunningPoints => HeardAt(wpc'[v], events'[wjob'[v]])
    BY <1>1, <2>3, <2>4, <2>5 DEF EventsInv
  <2> QED
    BY <2>6, <2>7 DEF EventsInv
<1> QED
  BY <1>2, <1>3

\* A new id has no events and nobody runs it.
LEMMA EnqueueAnnounces ==
  ASSUME SafetyInv, EventsInv, NEW id \in JobIds,
         EnqueueAccepted(id) \/ EnqueueAfterStop(id)
  PROVE  EventsInv'
<1>1. /\ status \in [JobIds -> StatusValues] /\ events \in [JobIds -> Seq(EventValues)]
      /\ UNCHANGED <<wpc, wjob>> /\ status[id] = "none"
  BY DEF SafetyInv, TypeInv, TypeOK, EnqueueAccepted, EnqueueAfterStop
<1>2. \A w \in Workers : wpc[w] \in RunningPoints => wjob[w] # id /\ wjob[w] \in JobIds
  BY <1>1, Points
     DEF SafetyInv, TypeInv, HolderHasJob, Holding, SingleOwner, HeldAsMarked
<1>3. \A j \in JobIds : status'[j] = IF j = id THEN "pending" ELSE status[j]
  BY <1>1 DEF EnqueueAccepted, EnqueueAfterStop, Insert
<1>4. events[id] = <<>>
  BY <1>1 DEF EventsInv, HeardOf
<1>5. \A j \in JobIds \ {id} : events'[j] = events[j]
  BY <1>1 DEF EnqueueAccepted, EnqueueAfterStop, Publish
<1>6. Ordered(events'[id]) /\ Quiet(events'[id], 0)
  <2>1. CASE events'[id] = <<>>
    BY <2>1 DEF Ordered, Quiet
  <2>2. CASE events'[id] = <<[type |-> "progress", progress |-> 0]>>
    <3> DEFINE es == <<[type |-> "progress", progress |-> 0]>>
    <3>1. DOMAIN es = {1} /\ es[1].type = "progress" /\ es[1].progress = 0
      OBVIOUS
    <3>2. events'[id] = es
      BY <2>2
    <3> HIDE DEF es
    <3> QED
      BY <3>1, <3>2 DEF Ordered, Quiet
  <2>3. events'[id] \in {<<>>, <<[type |-> "progress", progress |-> 0]>>}
    <3>1. CASE EnqueueAccepted(id)
      <4>1. events'[id] = Append(events[id], [type |-> "progress", progress |-> 0])
        BY <1>1, <3>1 DEF EnqueueAccepted, Publish
      <4> QED
        BY <1>4, <4>1
    <3>2. CASE EnqueueAfterStop(id)
      BY <1>4, <3>2 DEF EnqueueAfterStop
    <3> QED
      BY <3>1, <3>2
  <2> QED
    BY <2>1, <2>2, <2>3
<1>7. \A j \in JobIds : Ordered(events'[j]) /\ HeardOf(status'[j], events'[j])
  BY <1>3, <1>5, <1>6 DEF EventsInv, HeardOf
<1>8. \A w \in Workers : wpc'[w] \in RunningPoints => HeardAt(wpc'[w], events'[wjob'[w]])
  BY <1>1, <1>2, <1>5 DEF EventsInv
<1> QED
  BY <1>7, <1>8 DEF EventsInv

LEMMA EventsInvNext == SafetyInv /\ EventsInv /\ [Next]_vars => EventsInv'
<1> SUFFICES ASSUME SafetyInv, EventsInv, [Next]_vars PROVE EventsInv'
  OBVIOUS
<1>1. CASE \E id \in JobIds : EnqueueAccepted(id) \/ EnqueueAfterStop(id)
  BY <1>1, EnqueueAnnounces
<1>2. CASE \E w \in Workers : WorkerStep(w)
  BY <1>2, WorkerTakes, WorkerScans, WorkerBranches, WorkerAnnounces, WorkerFinishes
     DEF WorkerStep
<1>3. CASE UNCHANGED <<status, wpc, wjob, events>>
  BY <1>3 DEF EventsInv
<1> QED
  BY <1>1, <1>2, <1>3
     DEF Next, EnqueueRejected, CleanupTick, CleanerExit, StopCloseStopCh,
         StopClosePending, StopReturn, StopTo, Tick, vars

LEMMA EventsInvariant == Spec => []EventsInv
<1>1. Init => EventsInv
  <2> SUFFICES ASSUME Init PROVE EventsInv
    OBVIOUS
  <2>1. \A w \in Workers : wpc[w] \notin RunningPoints
    BY DEF Init, RunningPoints, ScanPoints
  <2>2. \A j \in JobIds : events[j] = <<>> /\ status[j] = "none"
    BY DEF Init
  <2> QED
    BY <2>1, <2>2 DEF EventsInv, Ordered, HeardOf
<1> QED
  BY <1>1, EventsInvNext, SafetyInvariant, PTL DEF Spec

(***************************************************************************)
(* The events of one job are published in order: progress grows and        *)
(* nothing follows the event that announces the outcome.                   *)
(***************************************************************************)
THEOREM EventsAreOrdered == Spec => []EventOrder
<1>1. EventsInv => EventOrder
  BY DEF EventsInv, Ordered, EventOrder
<1> QED
  BY <1>1, EventsInvariant, PTL

(***************************************************************************)
(* What subscribers are told of an outcome is final, and no job fails      *)
(* without their being told.                                               *)
(***************************************************************************)
THEOREM AnnouncedOutcomesAreFinal == Spec => []AnnouncedOutcomeIsFinal
<1>1. ASSUME SafetyInv, EventsInv PROVE AnnouncedOutcomeIsFinal
  <2> SUFFICES ASSUME NEW j \in JobIds
               PROVE  /\ \A i \in DOMAIN events[j] : events[j][i].type # "progress" =>
                           status[j] \in {"running", events[j][i].type}
                      /\ status[j] = "failed" =>
                           \E i \in DOMAIN events[j] : events[j][i].type # "progress"
    BY DEF AnnouncedOutcomeIsFinal
  <2>1. HeardOf(status[j], events[j]) /\ status[j] \in StatusValues
    BY <1>1 DEF EventsInv, SafetyInv, TypeInv, TypeOK
  <2>2. CASE status[j] = "none" \/ status[j] = "pending" \/ status[j] = "running"
    BY <2>1, <2>2 DEF HeardOf, Quiet
  <2>3. CASE status[j] = "failed"
    BY <2>1, <2>3 DEF HeardOf, Told
  <2>4. CASE status[j] = "completed"
    BY <2>1, <2>4 DEF HeardOf, Told, Quiet
  <2> QED
    BY <2>1, <2>2, <2>3, <2>4 DEF StatusValues
<1> QED
  BY <1>1, EventsInvariant, SafetyInvariant, PTL
=============================================================================
