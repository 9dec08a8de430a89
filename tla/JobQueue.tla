------------------------------ MODULE JobQueue ------------------------------
(***************************************************************************)
(* The in-memory scan queue of internal/queue/queue.go: a map of jobs, a   *)
(* bounded channel of jobs to scan, a pool of workers, a cleanup goroutine *)
(* and Stop.                                                               *)
(*                                                                         *)
(* Everything done under one critical section of q.mu is one action.       *)
(* processJob takes and releases q.mu and calls the hub several times, so  *)
(* it is split at those points; the worker's program point is wpc[w].      *)
(* hub.Publish is abstracted to the log of the published events, per job   *)
(* (module Hub has its detail).  cache.Get is a free choice of hit or miss *)
(* and chromedp of success or error.                                       *)
(***************************************************************************)
EXTENDS Naturals, Sequences, FiniteSets

CONSTANTS
  JobIds,      \* what generateID can draw; bounds how many jobs are submitted
  NoJob,       \* the job of a worker that waits in its select
  Workers,     \* the worker goroutines Start launches
  PendingCap,  \* the capacity of the pending channel (100 in the code)
  MaxJobs,     \* q.maxJobs (1000 in the code)
  ResultTTL,   \* q.resultTTL, in ticks of the clock (24h in the code)
  MaxTime      \* bound on the clock

ASSUME JobQueueAssumption ==
  /\ NoJob \notin JobIds
  /\ IsFiniteSet(Workers)
  /\ PendingCap \in Nat \ {0}
  /\ MaxJobs \in Nat \ {0}
  /\ ResultTTL \in Nat
  /\ MaxTime \in Nat

VARIABLES
  now,        \* time.Now()
  jobs,       \* the keys of q.jobs
  status,     \* Job.Status of every job ever created, evicted ones included
  createdAt,  \* Job.CreatedAt
  pending,    \* q.pending, the buffered channel
  wpc,        \* each worker's program point
  wjob,       \* the job each worker holds
  stop,       \* how far Stop has come
  cleaner,    \* the cleanup goroutine
  lastErr,    \* how the most recent Enqueue ended
  events      \* per job, the events handed to hub.Publish so far

vars == <<now, jobs, status, createdAt, pending, wpc, wjob, stop, cleaner,
          lastErr, events>>

StatusValues == {"none", "pending", "running", "completed", "failed"}

\* Program points of a worker.  "received" to "finish..." are inside
\* processJob; "open" to "contacts" are inside Scanner.ScanURL.
ScanPoints == {"open", "navigate", "detect", "emails", "contacts"}
RunningPoints ==
  ScanPoints \union
  {"announce", "lookup", "finishCached", "publishFailed", "publishCompleted",
   "finishFailed", "finishCompleted"}
HoldingPoints == RunningPoints \union {"received"}
WorkerPoints == HoldingPoints \union {"select", "exited"}

\* "closing" is between close(q.stopCh) and close(q.pending).
StopValues == {"no", "closing", "closed", "returned"}

\* ws.Event, without its wording and its partial results.
EventValues == [type : {"progress", "completed", "failed"}, progress : 0..100]

TypeOK ==
  /\ now \in 0..MaxTime
  /\ jobs \in SUBSET JobIds
  /\ status \in [JobIds -> StatusValues]
  /\ createdAt \in [JobIds -> 0..MaxTime]
  /\ pending \in Seq(JobIds)
  /\ wpc \in [Workers -> WorkerPoints]
  /\ wjob \in [Workers -> JobIds \union {NoJob}]
  /\ stop \in StopValues
  /\ cleaner \in {"running", "exited"}
  /\ lastErr \in {"nil", "ErrQueueFull", "panic"}
  /\ events \in [JobIds -> Seq(EventValues)]

Init ==
  /\ now = 0
  /\ jobs = {}
  /\ status = [j \in JobIds |-> "none"]
  /\ createdAt = [j \in JobIds |-> 0]
  /\ pending = <<>>
  /\ wpc = [w \in Workers |-> "select"]
  /\ wjob = [w \in Workers |-> NoJob]
  /\ stop = "no"
  /\ cleaner = "running"
  /\ lastErr = "nil"
  /\ events = [j \in JobIds |-> <<>>]

-----------------------------------------------------------------------------
(* cleanupLocked *)

Finished(j) == status[j] \in {"completed", "failed"}
Active(j) == status[j] \in {"pending", "running"}

\* job.CreatedAt.Before(cutoff)
Expired(j) == createdAt[j] + ResultTTL < now

\* Mutant: results and active jobs alike are dropped when they are old.
KeptByTTLOfAnyStatus == {j \in jobs : ~Expired(j)}

KeptByTTL == {j \in jobs : ~(Finished(j) /\ Expired(j))}

\* Mutant: the oldest job of the map, finished or not.
OldestOfAnyStatus(S) == {j \in S : \A k \in S : createdAt[j] <= createdAt[k]}

\* Map iteration order is arbitrary, so jobs created at the same instant may
\* be taken either way.
OldestFinished(S) ==
  {j \in S : /\ Finished(j)
             /\ \A k \in S : Finished(k) => createdAt[j] <= createdAt[k]}

\* The maps that cleanupLocked can leave: expired results go, and if the map
\* is still at its limit one oldest result goes too.
AfterCleanup ==
  IF Cardinality(KeptByTTL) >= MaxJobs /\ OldestFinished(KeptByTTL) # {}
    THEN {KeptByTTL \ {j} : j \in OldestFinished(KeptByTTL)}
    ELSE {KeptByTTL}

-----------------------------------------------------------------------------
(* Enqueue: one critical section of q.mu *)

Publish(j, type, progress) ==
  events' = [events EXCEPT ![j] =
               Append(@, [type |-> type, progress |-> progress])]

\* Mutant: the limit is tested with > instead of >=.
MadeRoomTooLate == IF Cardinality(jobs) > MaxJobs THEN AfterCleanup ELSE {jobs}

\* What is in the map when Enqueue has made room.
MadeRoom == IF Cardinality(jobs) >= MaxJobs THEN AfterCleanup ELSE {jobs}

Insert(id, kept) ==
  /\ jobs' = kept \union {id}
  /\ status' = [status EXCEPT ![id] = "pending"]
  /\ createdAt' = [createdAt EXCEPT ![id] = now]

\* Mutant: the size is not tested again after the cleanup.
EnqueueUnbounded(id) ==
  /\ status[id] = "none"
  /\ stop \in {"no", "closing"}
  /\ \E kept \in MadeRoom : Insert(id, kept)
  /\ pending' = IF Len(pending) < PendingCap THEN Append(pending, id) ELSE pending
  /\ Publish(id, "progress", 0)
  /\ lastErr' = "nil"
  /\ UNCHANGED <<now, wpc, wjob, stop, cleaner>>

\* A fresh id; the non-blocking send drops the job if the channel is full.
EnqueueAccepted(id) ==
  /\ status[id] = "none"
  /\ stop \in {"no", "closing"}
  /\ \E kept \in MadeRoom :
       /\ Cardinality(kept) < MaxJobs
       /\ Insert(id, kept)
  /\ pending' = IF Len(pending) < PendingCap THEN Append(pending, id) ELSE pending
  /\ Publish(id, "progress", 0)
  /\ lastErr' = "nil"
  /\ UNCHANGED <<now, wpc, wjob, stop, cleaner>>

EnqueueRejected ==
  /\ \E kept \in MadeRoom :
       /\ Cardinality(kept) >= MaxJobs
       /\ jobs' = kept
  /\ lastErr' = "ErrQueueFull"
  /\ UNCHANGED <<now, status, createdAt, pending, wpc, wjob, stop, cleaner, events>>

\* A request handler that outlives Stop: the send on the closed channel panics
\* with the job already in the map, and net/http recovers the handler.
EnqueueAfterStop(id) ==
  /\ status[id] = "none"
  /\ stop \in {"closed", "returned"}
  /\ \E kept \in MadeRoom :
       /\ Cardinality(kept) < MaxJobs
       /\ Insert(id, kept)
  /\ lastErr' = "panic"
  /\ UNCHANGED <<now, pending, wpc, wjob, stop, cleaner, events>>

-----------------------------------------------------------------------------
(* worker and processJob *)

Goto(w, point) == wpc' = [wpc EXCEPT ![w] = point]

\* select: a job is ready (also after close, until the buffer is drained).
WorkerReceive(w) ==
  /\ wpc[w] = "select"
  /\ pending # <<>>
  /\ wjob' = [wjob EXCEPT ![w] = Head(pending)]
  /\ pending' = Tail(pending)
  /\ Goto(w, "received")
  /\ UNCHANGED <<now, jobs, status, createdAt, stop, cleaner, lastErr, events>>

\* Mutant: the select has a default branch that returns.
WorkerExitWhenIdle(w) ==
  /\ wpc[w] = "select"
  /\ stop # "no" \/ pending = <<>>
  /\ Goto(w, "exited")
  /\ UNCHANGED <<now, jobs, status, createdAt, pending, wjob, stop, cleaner,
                 lastErr, events>>

\* select: stopCh is closed, or pending is closed and drained.
WorkerExit(w) ==
  /\ wpc[w] = "select"
  /\ stop # "no"
  /\ Goto(w, "exited")
  /\ UNCHANGED <<now, jobs, status, createdAt, pending, wjob, stop, cleaner,
                 lastErr, events>>

\* Mutant: the job is not marked as running.
WorkerStartUnmarked(w) ==
  /\ wpc[w] = "received"
  /\ Goto(w, "announce")
  /\ UNCHANGED <<now, jobs, status, createdAt, pending, wjob, stop, cleaner,
                 lastErr, events>>

WorkerStart(w) ==
  /\ wpc[w] = "received"
  /\ status' = [status EXCEPT ![wjob[w]] = "running"]
  /\ Goto(w, "announce")
  /\ UNCHANGED <<now, jobs, createdAt, pending, wjob, stop, cleaner, lastErr, events>>

\* A worker's step that only publishes an event and moves on.
WorkerPublish(w, from, type, progress, to) ==
  /\ wpc[w] = from
  /\ Publish(wjob[w], type, progress)
  /\ Goto(w, to)
  /\ UNCHANGED <<now, jobs, status, createdAt, pending, wjob, stop, cleaner, lastErr>>

\* A worker's step that only moves on.
WorkerBranch(w, from, to) ==
  /\ wpc[w] = from
  /\ Goto(w, to)
  /\ UNCHANGED <<now, jobs, status, createdAt, pending, wjob, stop, cleaner,
                 lastErr, events>>

AnnounceRunning(w) == WorkerPublish(w, "announce", "progress", 10, "lookup")

\* Mutant: a cache hit returns without storing the result in the job.
CacheHitForgotten(w) == WorkerBranch(w, "lookup", "select")

CacheHit(w) == WorkerBranch(w, "lookup", "finishCached")
CacheMiss(w) == WorkerBranch(w, "lookup", "open")

\* ScanURL: chromedp may fail; emails may be on the main page (95), on a
\* contact page (95, then 96 if one is found) or not be searched at all.
ScanFetching(w) == WorkerPublish(w, "open", "progress", 20, "navigate")
ScanFails(w) == WorkerBranch(w, "navigate", "publishFailed")
ScanParsing(w) == WorkerPublish(w, "navigate", "progress", 60, "detect")
ScanDetecting(w) == WorkerPublish(w, "detect", "progress", 90, "emails")
ScanEmails(w) == WorkerPublish(w, "emails", "progress", 95, "contacts")
ScanContacts(w) == WorkerPublish(w, "contacts", "progress", 96, "publishCompleted")
ScanReturns(w) ==
  \/ WorkerBranch(w, "emails", "publishCompleted")
  \/ WorkerBranch(w, "contacts", "publishCompleted")

\* Mutant: no else branch, the failed scan is announced as completed as well.
PublishFailedFallsThrough(w) ==
  WorkerPublish(w, "publishFailed", "failed", 0, "publishCompleted")

PublishFailed(w) == WorkerPublish(w, "publishFailed", "failed", 0, "finishFailed")
PublishCompleted(w) ==
  WorkerPublish(w, "publishCompleted", "completed", 100, "finishCompleted")

\* The last critical section of processJob, and the return to the select.
WorkerFinish(w, from, result) ==
  /\ wpc[w] = from
  /\ status' = [status EXCEPT ![wjob[w]] = result]
  /\ wjob' = [wjob EXCEPT ![w] = NoJob]
  /\ Goto(w, "select")
  /\ UNCHANGED <<now, jobs, createdAt, pending, stop, cleaner, lastErr, events>>

FinishCached(w) == WorkerFinish(w, "finishCached", "completed")
\* Mutant: no return after StatusFailed, so StatusCompleted overwrites it.
FinishFailedFallsThrough(w) == WorkerFinish(w, "finishFailed", "completed")

FinishFailed(w) == WorkerFinish(w, "finishFailed", "failed")
FinishCompleted(w) == WorkerFinish(w, "finishCompleted", "completed")

WorkerStep(w) ==
  \/ WorkerReceive(w) \/ WorkerExit(w) \/ WorkerStart(w) \/ AnnounceRunning(w)
  \/ CacheHit(w) \/ CacheMiss(w)
  \/ ScanFetching(w) \/ ScanFails(w) \/ ScanParsing(w) \/ ScanDetecting(w)
  \/ ScanEmails(w) \/ ScanContacts(w) \/ ScanReturns(w)
  \/ PublishFailed(w) \/ PublishCompleted(w)
  \/ FinishCached(w) \/ FinishFailed(w) \/ FinishCompleted(w)

-----------------------------------------------------------------------------
(* cleanup, Stop and the clock *)

\* The ticker fires every five minutes; only the interleavings matter.
CleanupTick ==
  /\ cleaner = "running"
  /\ jobs' \in AfterCleanup
  /\ UNCHANGED <<now, status, createdAt, pending, wpc, wjob, stop, cleaner,
                 lastErr, events>>

\* Mutant: the cleanup goroutine ranges over its ticker and ignores stopCh.
CleanerNeverExits ==
  /\ cleaner = "running"
  /\ stop = "returned"
  /\ cleaner' = "exited"
  /\ UNCHANGED <<now, jobs, status, createdAt, pending, wpc, wjob, stop, lastErr,
                 events>>

CleanerExit ==
  /\ cleaner = "running"
  /\ stop # "no"
  /\ cleaner' = "exited"
  /\ UNCHANGED <<now, jobs, status, createdAt, pending, wpc, wjob, stop, lastErr,
                 events>>

StopTo(from, to) ==
  /\ stop = from
  /\ stop' = to
  /\ UNCHANGED <<now, jobs, status, createdAt, pending, wpc, wjob, cleaner, lastErr,
                 events>>

StopCloseStopCh == StopTo("no", "closing")
StopClosePending == StopTo("closing", "closed")
\* wg.Wait returns
StopReturn ==
  /\ \A w \in Workers : wpc[w] = "exited"
  /\ cleaner = "exited"
  /\ StopTo("closed", "returned")

Tick ==
  /\ now < MaxTime
  /\ now' = now + 1
  /\ UNCHANGED <<jobs, status, createdAt, pending, wpc, wjob, stop, cleaner,
                 lastErr, events>>

Next ==
  \/ \E id \in JobIds : EnqueueAccepted(id) \/ EnqueueAfterStop(id)
  \/ EnqueueRejected
  \/ \E w \in Workers : WorkerStep(w)
  \/ CleanupTick \/ CleanerExit
  \/ StopCloseStopCh \/ StopClosePending \/ StopReturn
  \/ Tick

Spec == Init /\ [][Next]_vars

\* The Go scheduler runs every goroutine that can run.  The 60 second context
\* of processJob bounds chromedp, so a scan returns.  Nobody has to call Stop,
\* but once called it goes on; the cleanup ticker is rarely ready, so its
\* select takes the closed stopCh.
Fairness ==
  /\ \A w \in Workers : WF_vars(WorkerStep(w))
  /\ WF_vars(CleanerExit)
  /\ WF_vars(StopClosePending)
  /\ WF_vars(StopReturn)

FairSpec == Spec /\ Fairness
-----------------------------------------------------------------------------
(* Properties *)

Elements(seq) == {seq[i] : i \in DOMAIN seq}
Holding(w) == wpc[w] \in HoldingPoints

\* The map never holds more than maxJobs jobs, although Enqueue only makes
\* room for one job at a time and the cleanup ticker runs between Enqueues
\* (queue.go:101-107, 360-386).
JobsBounded == IsFiniteSet(jobs) /\ Cardinality(jobs) <= MaxJobs

\* The parts of SingleOwner.
QueuedOnce == \A i, k \in DOMAIN pending : pending[i] = pending[k] => i = k
QueuedArePending == \A i \in DOMAIN pending : status[pending[i]] = "pending"
HeldAsMarked ==
  \A w \in Workers :
    /\ wpc[w] = "received" =>
         status[wjob[w]] = "pending" /\ wjob[w] \notin Elements(pending)
    /\ wpc[w] \in RunningPoints => status[wjob[w]] = "running"
OneHolder ==
  \A v, w \in Workers : Holding(v) /\ Holding(w) /\ wjob[v] = wjob[w] => v = w
RunningIsHeld ==
  \A j \in JobIds :
    status[j] = "running" =>
      \E w \in Workers : wpc[w] \in RunningPoints /\ wjob[w] = j

\* A job is handed to at most one worker: it waits in the channel at most
\* once, no two workers hold it and none holds it while it waits, and its
\* status says where it is (queue.go:118-123, 209-227).
SingleOwner ==
  QueuedOnce /\ QueuedArePending /\ HeldAsMarked /\ OneHolder /\ RunningIsHeld

\* A job that has not finished can always be looked up: neither the TTL nor
\* the eviction of cleanupLocked takes a pending or running job out of the
\* map, so a poller of an active job never sees "not found"
\* (queue.go:360-386, 138-142).
ActiveJobsAreListed == \A j \in JobIds : Active(j) => j \in jobs

\* Enqueue answers ErrQueueFull only when every slot of the map is taken by a
\* job that has not finished; as long as one result is left it is evicted
\* instead (queue.go:101-107, 388).
RejectedOnlyWhenAllActive ==
  [][lastErr # "ErrQueueFull" /\ lastErr' = "ErrQueueFull"
       => /\ jobs' = jobs
          /\ Cardinality(jobs) >= MaxJobs
          /\ \A j \in jobs : Active(j)]_vars

\* The events of one job are published in order although two goroutines publish
\* them, the handler in Enqueue and the worker: progress grows, and nothing
\* follows a terminal event (queue.go:127-132, 229-278; scanner.go:176-381).
EventOrder ==
  \A j \in JobIds : \A i, k \in DOMAIN events[j] :
    i < k => /\ events[j][i].type = "progress"
             /\ events[j][k].type # "failed" =>
                  events[j][i].progress < events[j][k].progress

\* What subscribers are told of a job's outcome is final.  The terminal event is
\* published before the status is set: until then the job is still running, and
\* the status it takes, for ever, is the announced one.  A job that failed was
\* announced (queue.go:222-309).  That every finished job is announced, as
\* queue.go:262 has it, is not claimed: processJob returns from a cache hit at
\* queue.go:253, before that line.
AnnouncedOutcomeIsFinal ==
  \A j \in JobIds :
    LET told == {i \in DOMAIN events[j] : events[j][i].type # "progress"}
    IN /\ \A i \in told : status[j] \in {"running", events[j][i].type}
       /\ status[j] = "failed" => told # {}

\* The queue implements the promise of ScanBoard: bounded, at most one job per
\* worker running, one final result per job, only results are forgotten.
Board == INSTANCE ScanBoard WITH
  listed <- jobs, Capacity <- MaxJobs, Slots <- Cardinality(Workers)

ImplementsBoard == Board!Spec

\* A job that waits in the channel is scanned, unless the queue is stopped
\* first (queue.go:205-219).
QueuedJobsFinish ==
  \A j \in JobIds : (j \in Elements(pending)) ~> (Finished(j) \/ stop # "no")

\* A job that a worker took is finished, even when Stop is called in between:
\* shutdown drains what was started (queue.go:90-94, 222-309).
StartedJobsFinish == \A j \in JobIds : (status[j] = "running") ~> Finished(j)

\* Stop returns: no worker and not the cleanup goroutine stays in its select
\* (queue.go:90-94, 205-219, 341-357).
StopReturns == (stop = "closing") ~> (stop = "returned")
=============================================================================
