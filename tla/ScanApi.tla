------------------------------ MODULE ScanApi -------------------------------
(***************************************************************************)
(* The HTTP handlers that submit scans and read their results              *)
(* (internal/api/server.go, reports.go) behind the middleware of           *)
(* internal/auth: authentication, rate limit, quota, the queue, the wait   *)
(* and the answer.  The queue is what ScanBoard promises of it.            *)
(*                                                                         *)
(* GetJob hands out a pointer.  The handlers read the job's fields through *)
(* it without a lock, while a worker may be in its last critical section,  *)
(* which writes the status first and the result afterwards.                *)
(***************************************************************************)
EXTENDS RateLimiter

CONSTANTS
  Requests,   \* the requests, each served by a goroutine
  JobIds,     \* the jobs that can be submitted
  NoJob,      \* nil
  Capacity,   \* how many jobs the queue lists
  Slots,      \* how many workers it has
  Limit       \* scans per month of the users' tier

ASSUME ScanApiAssumption ==
  NoJob \notin JobIds /\ Limit \in Nat /\ IsFiniteSet(Requests)

VARIABLES
  enabled,  \* Auth.Enabled
  listed,   \* the jobs GetJob finds
  status,   \* Job.Status
  result,   \* the jobs whose Job.Result is set
  storing,  \* the job whose worker holds q.mu for its last writes
  used,     \* ScanCount of the users
  kind,     \* what each request asks for
  user,     \* the user the middleware puts into its context
  point,    \* its handler's program point
  id,       \* the job it is about
  waited,   \* how waitForJob ended
  seen,     \* the status and the result it has read; status "none" is of a nil job
  answer    \* the answer

queueVars == <<listed, status, result, storing>>
requestVars == <<kind, user, point, id, waited, seen, answer>>
vars == <<limiterVars, enabled, queueVars, used, requestVars>>

Board == INSTANCE ScanBoard

Final == {"completed", "failed"}
Statuses == {"none", "pending", "running"} \union Final

Kinds == {"scan", "scanWait", "results", "resultsWait", "report"}
Scans == {"scan", "scanWait"}

Points == {"new", "quota", "enqueue", "find", "poll", "peek", "again", "nil",
           "status", "result", "done"}

\* HTTP status codes; 0 is a handler that panics, which net/http answers by
\* closing the connection.
Answers == {0, 200, 202, 400, 401, 404, 409, 422, 429, 503}

TypeOK ==
  /\ LimiterTypeOK
  /\ enabled \in BOOLEAN
  /\ listed \in SUBSET JobIds
  /\ status \in [JobIds -> Statuses]
  /\ result \in SUBSET JobIds
  /\ storing \in JobIds \union {NoJob}
  /\ used \in [ApiKeys -> 0..Limit]
  /\ kind \in [Requests -> Kinds]
  /\ user \in [Requests -> Users \union {NoUser}]
  /\ point \in [Requests -> Points]
  /\ id \in [Requests -> JobIds \union {NoJob}]
  /\ waited \in [Requests -> {"no", "finished", "timeout"}]
  /\ seen \in [Requests -> [status : Statuses, result : BOOLEAN]]
  /\ answer \in [Requests -> Answers]

Init ==
  /\ LimiterInit
  /\ enabled \in BOOLEAN
  /\ Board!Init
  /\ result = {}
  /\ storing = NoJob
  /\ used = [u \in ApiKeys |-> 0]
  /\ kind = [r \in Requests |-> "scan"]
  /\ user = [r \in Requests |-> NoUser]
  /\ point = [r \in Requests |-> "new"]
  /\ id = [r \in Requests |-> NoJob]
  /\ waited = [r \in Requests |-> "no"]
  /\ seen = [r \in Requests |-> [status |-> "none", result |-> FALSE]]
  /\ answer = [r \in Requests |-> 200]

-----------------------------------------------------------------------------
(* Steps of a request *)

Goto(r, p) == point' = [point EXCEPT ![r] = p]

Reply(r, code) ==
  /\ answer' = [answer EXCEPT ![r] = code]
  /\ Goto(r, "done")

\* Middleware, for the endpoints that need a user.
Unauthorized(r, cred) ==
  /\ point[r] = "new"
  /\ enabled /\ authenticate(cred) = NoUser
  /\ Reply(r, 401)
  /\ UNCHANGED <<limiterVars, enabled, queueVars, used, kind, user, id,
                 waited, seen>>

\* The client may try again.
RateLimited(r, cred, address, rate) ==
  /\ point[r] = "new"
  /\ enabled => authenticate(cred) # NoUser
  /\ refuse(Client(authenticate(cred), address), rate)
  /\ answer' = [answer EXCEPT ![r] = 429]
  /\ UNCHANGED <<enabled, queueVars, used, kind, user, point, id, waited, seen>>

\* handleAPI routes by the path.
Admitted(r, cred, address, rate, k) ==
  /\ point[r] = "new"
  /\ enabled => authenticate(cred) # NoUser
  /\ allow(Client(authenticate(cred), address), rate)
  /\ kind' = [kind EXCEPT ![r] = k]
  /\ user' = [user EXCEPT ![r] = authenticate(cred)]
  /\ Goto(r, IF k \in Scans THEN "quota" ELSE "find")
  /\ UNCHANGED <<enabled, queueVars, used, id, waited, seen, answer>>

\* handleScan: a request without a URL, or with one that is not allowed.
BadRequest(r) ==
  /\ point[r] = "quota"
  /\ Reply(r, 400)
  /\ UNCHANGED <<limiterVars, enabled, queueVars, used, kind, user, id,
                 waited, seen>>

\* The quota is of users in the store; JWT users are not in it, and without
\* authentication nobody has one.
HasQuota(r) == enabled /\ user[r] \in ApiKeys

\* Mutant: a scan is counted without a look at the limit.
QuotaTakenUnlimited(r) ==
  /\ point[r] = "quota"
  /\ IF HasQuota(r)
       THEN used' = [used EXCEPT ![user[r]] = @ + 1]
       ELSE UNCHANGED used
  /\ Goto(r, "enqueue")
  /\ UNCHANGED <<limiterVars, enabled, queueVars, kind, user, id, waited,
                 seen, answer>>

QuotaTaken(r) ==
  /\ point[r] = "quota"
  /\ IF HasQuota(r)
       THEN /\ used[user[r]] < Limit
            /\ used' = [used EXCEPT ![user[r]] = @ + 1]
       ELSE UNCHANGED used
  /\ Goto(r, "enqueue")
  /\ UNCHANGED <<limiterVars, enabled, queueVars, kind, user, id, waited,
                 seen, answer>>

\* Mutant: an exceeded quota only sets a warning header.
QuotaOnlyWarns(r) ==
  /\ point[r] = "quota"
  /\ HasQuota(r) /\ used[user[r]] >= Limit
  /\ Goto(r, "enqueue")
  /\ UNCHANGED <<limiterVars, enabled, queueVars, used, kind, user, id,
                 waited, seen, answer>>

QuotaExceeded(r) ==
  /\ point[r] = "quota"
  /\ HasQuota(r) /\ used[user[r]] >= Limit
  /\ Reply(r, 429)
  /\ UNCHANGED <<limiterVars, enabled, queueVars, used, kind, user, id,
                 waited, seen>>

\* Enqueue waits for q.mu, like GetJob.
Enqueued(r, j) ==
  /\ point[r] = "enqueue"
  /\ storing = NoJob
  /\ Board!Submit(j)
  /\ id' = [id EXCEPT ![r] = j]
  /\ Goto(r, IF kind[r] = "scanWait" THEN "poll" ELSE "status")
  /\ UNCHANGED <<limiterVars, enabled, result, storing, used, kind, user, waited,
                 seen, answer>>

\* ErrQueueFull; the scan stays counted.
QueueFull(r) ==
  /\ point[r] = "enqueue"
  /\ storing = NoJob
  /\ Cardinality(listed) >= Capacity
  /\ Board!FinishedIn(listed) = {}
  /\ Reply(r, 503)
  /\ UNCHANGED <<limiterVars, enabled, queueVars, used, kind, user, id,
                 waited, seen>>

\* The first GetJob of handleResults and handleReports.
Find(r, j) ==
  /\ point[r] = "find"
  /\ storing = NoJob
  /\ id' = [id EXCEPT ![r] = j]
  /\ IF j \in listed
       THEN Goto(r, "status") /\ UNCHANGED answer
       ELSE Reply(r, 404)
  /\ UNCHANGED <<limiterVars, enabled, queueVars, used, kind, user, waited, seen>>

\* waitForJob: GetJob ...
Poll(r) ==
  /\ point[r] = "poll"
  /\ storing = NoJob
  /\ id[r] \in listed
  /\ Goto(r, "peek")
  /\ UNCHANGED <<limiterVars, enabled, queueVars, used, kind, user, id,
                 waited, seen, answer>>

\* ... the status, and the sleep if it is not a final one ...
Peek(r) ==
  /\ point[r] = "peek"
  /\ IF status[id[r]] \in Final
       THEN waited' = [waited EXCEPT ![r] = "finished"] /\ Goto(r, "again")
       ELSE Goto(r, "poll") /\ UNCHANGED waited
  /\ UNCHANGED <<limiterVars, enabled, queueVars, used, kind, user, id,
                 seen, answer>>

\* ... until the deadline.
WaitTimeout(r) ==
  /\ point[r] = "poll"
  /\ waited' = [waited EXCEPT ![r] = "timeout"]
  /\ Goto(r, "again")
  /\ UNCHANGED <<limiterVars, enabled, queueVars, used, kind, user, id,
                 seen, answer>>

\* Mutant: the handler goes on with the pointer it has.
AgainNot(r) ==
  /\ point[r] = "again"
  /\ Goto(r, "status")
  /\ UNCHANGED <<limiterVars, enabled, queueVars, used, kind, user, id,
                 waited, seen, answer>>

\* GetJob after the wait: nil if the job was forgotten meanwhile.
Again(r) ==
  /\ point[r] = "again"
  /\ storing = NoJob
  /\ Goto(r, IF id[r] \in listed THEN "status" ELSE "nil")
  /\ seen' = [seen EXCEPT ![r].status = "none"]
  /\ UNCHANGED <<limiterVars, enabled, queueVars, used, kind, user, id, waited,
                 answer>>

\* The job is nil: handleScan and makeCompact dereference it and panic, and
\* without compact handleResults answers null.
ReadNil(r) ==
  /\ point[r] = "nil"
  /\ \/ Reply(r, 0)
     \/ kind[r] = "resultsWait" /\ Reply(r, 200)
  /\ UNCHANGED <<limiterVars, enabled, queueVars, used, kind, user, id,
                 waited, seen>>

\* The status is read.  handleResults waits for a pending job, and only for a
\* pending one.
ReadStatus(r) ==
  /\ point[r] = "status"
  /\ seen' = [seen EXCEPT ![r].status = status[id[r]]]
  /\ CASE kind[r] \in Scans -> Reply(r, 202)
       [] kind[r] = "report" /\ status[id[r]] # "completed" -> Reply(r, 409)
       [] kind[r] = "resultsWait" /\ waited[r] = "no" /\ status[id[r]] = "pending" ->
            Goto(r, "poll") /\ UNCHANGED answer
       [] OTHER -> Goto(r, "result") /\ UNCHANGED answer
  /\ UNCHANGED <<limiterVars, enabled, queueVars, used, kind, user, id,
                 waited>>

\* The result is read.  Left out of the handlers: 405 for another method, 400 for
\* a request without an id, and the 500 of serveReportPDF when fpdf fails.
ReadResult(r) ==
  /\ point[r] = "result"
  /\ seen' = [seen EXCEPT ![r].result = id[r] \in result]
  /\ Reply(r, IF kind[r] = "report" /\ id[r] \notin result THEN 422 ELSE 200)
  /\ UNCHANGED <<limiterVars, enabled, queueVars, used, kind, user, id,
                 waited>>

-----------------------------------------------------------------------------
(* The queue, as ScanBoard has it, and the clock *)

BeginScan(j) ==
  /\ storing = NoJob
  /\ Board!Begin(j)
  /\ UNCHANGED <<limiterVars, enabled, result, storing, used, requestVars>>

\* The last critical section of processJob: the status ...
StoreStatus(j) ==
  /\ storing = NoJob
  /\ Board!End(j)
  /\ storing' = j
  /\ UNCHANGED <<limiterVars, enabled, result, used, requestVars>>

\* ... and, unless the scan failed, the result.
StoreResult ==
  /\ storing # NoJob
  /\ result' = IF status[storing] = "completed" THEN result \union {storing} ELSE result
  /\ storing' = NoJob
  /\ UNCHANGED <<limiterVars, enabled, listed, status, used, requestVars>>

Forget ==
  /\ storing = NoJob
  /\ Board!Forget
  /\ UNCHANGED <<limiterVars, enabled, result, storing, used, requestVars>>

Tick ==
  /\ LimiterTick
  /\ UNCHANGED <<enabled, queueVars, used, requestVars>>

HandlerStep(r) ==
  \/ BadRequest(r) \/ QuotaTaken(r) \/ QuotaExceeded(r)
  \/ \E j \in JobIds : Enqueued(r, j) \/ Find(r, j)
  \/ QueueFull(r)
  \/ Poll(r) \/ Peek(r) \/ WaitTimeout(r) \/ Again(r)
  \/ ReadNil(r) \/ ReadStatus(r) \/ ReadResult(r)

Next ==
  \/ \E r \in Requests, cred \in Credentials :
       \/ Unauthorized(r, cred)
       \/ \E address \in Addresses, rate \in Rates :
            \/ RateLimited(r, cred, address, rate)
            \/ \E k \in Kinds : Admitted(r, cred, address, rate, k)
  \/ \E r \in Requests : HandlerStep(r)
  \/ \E j \in JobIds : BeginScan(j) \/ StoreStatus(j)
  \/ StoreResult \/ Forget
  \/ Tick

Spec == Init /\ [][Next]_vars
-----------------------------------------------------------------------------
(* Properties *)

\* What a handler answers after waitForJob has seen the job finish is its final
\* state, with the result of a completed scan, although status and result are
\* read without a lock and written one after the other; and a job that is not
\* there any more after a wait, timed out or not, had finished
\* (server.go:459-467, 491-503, 583-599; queue.go:286-298).
WaitedAnswersAreWhole ==
  \A r \in Requests :
    point[r] = "done" /\ waited[r] # "no" =>
      IF seen[r].status = "none"
        THEN id[r] \notin listed /\ status[id[r]] \in Final
        ELSE waited[r] = "finished" =>
               /\ seen[r].status = status[id[r]] /\ status[id[r]] \in Final
               /\ kind[r] = "resultsWait" =>
                    (seen[r].result <=> status[id[r]] = "completed")

Submitted(u) == {r \in Requests : user[r] = u /\ kind[r] \in Scans /\ id[r] # NoJob}

\* Every scan of a user with a quota is counted before it is submitted, however
\* the requests of a user interleave (server.go:424-456).  What becomes of the
\* count of a scan that the full queue turns away is not said.
EveryScanIsPaid ==
  enabled => \A u \in ApiKeys : Cardinality(Submitted(u)) <= used[u]
=============================================================================
