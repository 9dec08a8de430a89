----------------------------- MODULE Scheduler ------------------------------
(***************************************************************************)
(* Scheduled re-scans and webhook delivery: scheduler.go of                *)
(* internal/scheduler, and the handlers of internal/api/schedules.go that  *)
(* change schedules while the scheduler runs them.                         *)
(*                                                                         *)
(* The ticker goroutine takes a snapshot of the due schedules, then looks  *)
(* each up in inflight and starts a goroutine for it.  A run advances      *)
(* NextRun, scans, records the outcome and, if a webhook is configured,    *)
(* waits for a dispatch slot and starts the delivery.  GetSchedule returns *)
(* the stored object itself, so a run and a delivery see later changes of  *)
(* the schedule, and keep the object when it is deleted.  Module           *)
(* ScheduleStore has the locking and saving of the store.                  *)
(***************************************************************************)
EXTENDS Naturals, Sequences, FiniteSets

CONSTANTS
  Ids,          \* schedule ids; bounds how many schedules are created
  NoId,         \* the schedule of a goroutine that does not exist
  Runs,         \* runOne goroutines
  Dispatches,   \* webhook delivery goroutines
  Intervals,    \* values of IntervalDur, in ticks of the clock
  Secrets,      \* the secrets clients send: TRUE, or FALSE for an empty one
  MaxDispatch,  \* MaxConcurrentDispatches (10 in the code)
  MaxAttempts,  \* maxAttempts of dispatchWebhook (3 in the code)
  MaxLog,       \* maxDeliveryLog (100 in the code)
  MaxTime       \* bound on the clock

ASSUME SchedulerAssumption ==
  /\ NoId \notin Ids
  /\ IsFiniteSet(Dispatches)
  /\ Intervals \subseteq Nat \ {0} /\ Intervals # {}
  /\ Secrets \subseteq BOOLEAN
  /\ MaxDispatch \in Nat \ {0}
  /\ MaxAttempts \in Nat \ {0}
  /\ MaxLog \in Nat \ {0}
  /\ MaxTime \in Nat

VARIABLES
  now,       \* time.Now()
  created,   \* the ids drawn so far
  listed,    \* the keys of store.schedules
  sched,     \* the Schedule objects, deleted ones included
  redacting, \* schedules with a secret that a handler is about to redact
  asked,     \* schedules asked to run by POST .../run, neither run nor disabled
             \* since (history)
  ticker,    \* "new", "ticking" inside tick, "idle" or "exited" after Stop
  due,       \* what is left of tick's snapshot of due schedules
  stopped,   \* Stop has closed stopCh
  inflight,  \* s.inflight
  rpc, rid,  \* program point and schedule of each runOne
  rnext,     \* its nextNext, 0 when it has none
  sem,       \* how many slots of dispatchSem are taken
  dpc, did,  \* program point and schedule of each delivery
  attempt,   \* the attempt a delivery is at
  log        \* store.log: the outcome of each recorded delivery

apiVars == <<created, listed, sched, redacting, asked>>
tickVars == <<ticker, due, stopped>>
runVars == <<inflight, rpc, rid, rnext>>
dispatchVars == <<sem, dpc, did, attempt, log>>
vars == <<now, apiVars, tickVars, runVars, dispatchVars>>

\* secret: WebhookSecret is set; hasSecret is the flag the API reports.
ScheduleValues ==
  [enabled : BOOLEAN, interval : Intervals, nextRun : Nat, hook : BOOLEAN,
   secret : BOOLEAN, hasSecret : BOOLEAN]

NewSchedule(interval, hook, secret) ==
  [enabled |-> TRUE, interval |-> interval, nextRun |-> now + interval,
   hook |-> hook, secret |-> secret, hasSecret |-> secret]

RunPoints == {"start", "advance", "scan", "acquire", "end"}
Outcomes == {"success", "failed"}

TypeOK ==
  /\ now \in 0..MaxTime
  /\ created \in SUBSET Ids /\ listed \in SUBSET created
  /\ redacting \in SUBSET created /\ asked \in SUBSET created
  /\ sched \in [created -> ScheduleValues]
  /\ ticker \in {"new", "idle", "ticking", "exited"}
  /\ due \in SUBSET created
  /\ stopped \in BOOLEAN
  /\ inflight \in SUBSET created
  /\ rpc \in [Runs -> RunPoints \union {"free"}]
  /\ rid \in [Runs -> created \union {NoId}]
  /\ rnext \in [Runs -> Nat]
  /\ sem \in 0..MaxDispatch
  /\ dpc \in [Dispatches -> {"free", "validate", "post"}]
  /\ did \in [Dispatches -> created \union {NoId}]
  /\ attempt \in [Dispatches -> 1..MaxAttempts]
  /\ log \in Seq(Outcomes) /\ Len(log) <= MaxLog

Init ==
  /\ now = 0
  /\ created = {} /\ listed = {} /\ redacting = {} /\ asked = {}
  /\ sched = <<>>
  /\ ticker = "new" /\ due = {} /\ stopped = FALSE
  /\ inflight = {}
  /\ rpc = [r \in Runs |-> "free"]
  /\ rid = [r \in Runs |-> NoId]
  /\ rnext = [r \in Runs |-> 0]
  /\ sem = 0
  /\ dpc = [d \in Dispatches |-> "free"]
  /\ did = [d \in Dispatches |-> NoId]
  /\ attempt = [d \in Dispatches |-> 1]
  /\ log = <<>>

-----------------------------------------------------------------------------
(* The handlers of /api/schedules *)

\* POST: AddSchedule stores the object that the handler then redacts.
Create(i, interval, hook, secret) ==
  /\ i \notin created
  /\ created' = created \union {i}
  /\ listed' = listed \union {i}
  /\ sched' = [k \in created \union {i} |->
                 IF k = i THEN NewSchedule(interval, hook, secret) ELSE sched[k]]
  /\ redacting' = IF secret THEN redacting \union {i} ELSE redacting
  /\ UNCHANGED <<now, asked, tickVars, runVars, dispatchVars>>

\* A field that is not sent keeps its value, and so does an unknown interval.
\* sent is the secret in the request, {} if there is none.
Patched(sch, enabled, interval, hook, sent) ==
  [sch EXCEPT !.enabled = enabled, !.interval = interval, !.hook = hook,
              !.secret = IF sent = {} THEN @ ELSE TRUE \in sent,
              !.hasSecret = IF sent = {} THEN @ ELSE TRUE \in sent]

\* PATCH
Patch(i, enabled, interval, hook, sent) ==
  /\ i \in listed
  /\ sched' = [sched EXCEPT ![i] = Patched(@, enabled, interval, hook, sent)]
  /\ redacting' = IF sched'[i].secret THEN redacting \union {i} ELSE redacting
  /\ asked' = IF sched[i].enabled /\ ~enabled THEN asked \ {i} ELSE asked
  /\ UNCHANGED <<now, created, listed, tickVars, runVars, dispatchVars>>

Redacted(sch) == [sch EXCEPT !.hasSecret = @ \/ sch.secret, !.secret = FALSE]

\* redactSchedule of the stored object, without the lock: the end of POST and
\* PATCH, and what GET does.
Redact(i) ==
  /\ i \in listed \union redacting
  /\ sched' = [sched EXCEPT ![i] = Redacted(@)]
  /\ redacting' = redacting \ {i}
  /\ UNCHANGED <<now, created, listed, asked, tickVars, runVars, dispatchVars>>

Rescheduled(sch, date) == [sch EXCEPT !.nextRun = date]

\* POST .../run
RunNow(i) ==
  /\ i \in listed
  /\ sched' = [sched EXCEPT ![i] = Rescheduled(@, now)]
  /\ asked' = asked \union {i}
  /\ UNCHANGED <<now, created, listed, redacting, tickVars, runVars, dispatchVars>>

Delete(i) ==
  /\ i \in listed
  /\ listed' = listed \ {i}
  /\ UNCHANGED <<now, created, sched, redacting, asked, tickVars, runVars,
                 dispatchVars>>

-----------------------------------------------------------------------------
(* The ticker *)

\* DueSchedules
IsDue(i) == i \in listed /\ sched[i].enabled /\ sched[i].nextRun <= now

\* run fires one tick before it looks at the ticker and stopCh.
TickBegin ==
  /\ ticker \in {"new", "idle"}
  /\ ticker' = "ticking"
  /\ due' = {i \in created : IsDue(i)}
  /\ UNCHANGED <<now, apiVars, stopped, runVars, dispatchVars>>

\* The schedule is running: continue.
TickSkip(i) ==
  /\ i \in due \intersect inflight
  /\ due' = due \ {i}
  /\ UNCHANGED <<now, apiVars, ticker, stopped, runVars, dispatchVars>>

\* Mutant: a schedule is started without a look at inflight.
TickStartAlways(i, r) ==
  /\ i \in due
  /\ rpc[r] = "free"
  /\ due' = due \ {i}
  /\ inflight' = inflight \union {i}
  /\ rpc' = [rpc EXCEPT ![r] = "start"]
  /\ rid' = [rid EXCEPT ![r] = i]
  /\ UNCHANGED <<now, apiVars, ticker, stopped, rnext, dispatchVars>>

TickStart(i, r) ==
  /\ i \in due \ inflight
  /\ rpc[r] = "free"
  /\ due' = due \ {i}
  /\ inflight' = inflight \union {i}
  /\ rpc' = [rpc EXCEPT ![r] = "start"]
  /\ rid' = [rid EXCEPT ![r] = i]
  /\ UNCHANGED <<now, apiVars, ticker, stopped, rnext, dispatchVars>>

TickEnd ==
  /\ ticker = "ticking" /\ due = {}
  /\ ticker' = "idle"
  /\ UNCHANGED <<now, apiVars, due, stopped, runVars, dispatchVars>>

Stop ==
  /\ ~stopped
  /\ stopped' = TRUE
  /\ UNCHANGED <<now, apiVars, ticker, due, runVars, dispatchVars>>

TickerExit ==
  /\ ticker = "idle" /\ stopped
  /\ ticker' = "exited"
  /\ UNCHANGED <<now, apiVars, due, stopped, runVars, dispatchVars>>

-----------------------------------------------------------------------------
(* runOne *)

RunGoto(r, from, to) ==
  /\ rpc[r] = from
  /\ rpc' = [rpc EXCEPT ![r] = to]

\* GetSchedule: nothing to do for a schedule that was deleted.
RunGone(r) ==
  /\ rid[r] \notin listed
  /\ RunGoto(r, "start", "end")
  /\ UNCHANGED <<now, apiVars, tickVars, inflight, rid, rnext, dispatchVars>>

\* The clock and the interval are read before UpdateSchedule takes the lock.
RunStart(r) ==
  /\ rid[r] \in listed
  /\ RunGoto(r, "start", "advance")
  /\ rnext' = [rnext EXCEPT ![r] = now + sched[rid[r]].interval]
  /\ UNCHANGED <<now, apiVars, tickVars, inflight, rid, dispatchVars>>

\* Mutant: NextRun is not advanced.
RunAdvanceNot(r) ==
  /\ RunGoto(r, "advance", "scan")
  /\ asked' = asked \ {rid[r]}
  /\ rnext' = [rnext EXCEPT ![r] = 0]
  /\ UNCHANGED <<now, created, listed, sched, redacting, tickVars, inflight, rid,
                 dispatchVars>>

\* UpdateSchedule does nothing to a schedule that was deleted meanwhile.
RunAdvance(r) ==
  /\ RunGoto(r, "advance", "scan")
  /\ sched' = IF rid[r] \in listed
                THEN [sched EXCEPT ![rid[r]] = Rescheduled(@, rnext[r])]
                ELSE sched
  /\ asked' = asked \ {rid[r]}
  /\ rnext' = [rnext EXCEPT ![r] = 0]
  /\ UNCHANGED <<now, created, listed, redacting, tickVars, inflight, rid,
                 dispatchVars>>

\* The scan returns within its 30 seconds and its outcome is recorded; the
\* webhook is the one configured by then.
RunScanned(r) ==
  /\ RunGoto(r, "scan", IF sched[rid[r]].hook THEN "acquire" ELSE "end")
  /\ UNCHANGED <<now, apiVars, tickVars, inflight, rid, rnext, dispatchVars>>

\* The run waits for a slot, with its schedule still in flight.
RunDispatch(r, d) ==
  /\ RunGoto(r, "acquire", "end")
  /\ sem < MaxDispatch
  /\ sem' = sem + 1
  /\ dpc[d] = "free"
  /\ dpc' = [dpc EXCEPT ![d] = "validate"]
  /\ did' = [did EXCEPT ![d] = rid[r]]
  /\ UNCHANGED <<now, apiVars, tickVars, inflight, rid, rnext, attempt, log>>

\* Mutant: the entry in inflight is not deleted.
RunEndInflight(r) ==
  /\ RunGoto(r, "end", "free")
  /\ rid' = [rid EXCEPT ![r] = NoId]
  /\ UNCHANGED <<now, apiVars, tickVars, inflight, rnext, dispatchVars>>

\* The deferred inflight.Delete
RunEnd(r) ==
  /\ RunGoto(r, "end", "free")
  /\ inflight' = inflight \ {rid[r]}
  /\ rid' = [rid EXCEPT ![r] = NoId]
  /\ UNCHANGED <<now, apiVars, tickVars, rnext, dispatchVars>>

-----------------------------------------------------------------------------
(* dispatchWebhook *)

Newest(seq, n) == IF Len(seq) > n THEN SubSeq(seq, Len(seq) - n + 1, Len(seq)) ELSE seq

\* Mutant: a delivery that cannot be made keeps its slot.
DispatchDoneKeepsSlot(d, status) ==
  /\ log' = Newest(Append(log, status), MaxLog)
  /\ sem' = IF status = "success" THEN sem - 1 ELSE sem
  /\ dpc' = [dpc EXCEPT ![d] = "free"]
  /\ did' = [did EXCEPT ![d] = NoId]
  /\ attempt' = [attempt EXCEPT ![d] = 1]
  /\ UNCHANGED <<now, apiVars, tickVars, runVars>>

\* logDelivery, and the deferred release of the slot.
DispatchDone(d, status) ==
  /\ log' = Newest(Append(log, status), MaxLog)
  /\ sem' = sem - 1
  /\ dpc' = [dpc EXCEPT ![d] = "free"]
  /\ did' = [did EXCEPT ![d] = NoId]
  /\ attempt' = [attempt EXCEPT ![d] = 1]
  /\ UNCHANGED <<now, apiVars, tickVars, runVars>>

DispatchInvalid(d) ==
  /\ dpc[d] = "validate"
  /\ DispatchDone(d, "failed")

\* The URL is valid; an empty one, if the webhook was removed, is not.
DispatchValid(d) ==
  /\ dpc[d] = "validate"
  /\ sched[did[d]].hook
  /\ dpc' = [dpc EXCEPT ![d] = "post"]
  /\ UNCHANGED <<now, apiVars, tickVars, runVars, sem, did, attempt, log>>

\* Every attempt reads the URL again; a POST to an empty one fails.
DispatchDelivered(d) ==
  /\ dpc[d] = "post"
  /\ sched[did[d]].hook
  /\ DispatchDone(d, "success")

\* A timeout or an answer other than 2xx: back off and try again.
DispatchRetry(d) ==
  /\ dpc[d] = "post"
  /\ attempt[d] < MaxAttempts
  /\ attempt' = [attempt EXCEPT ![d] = @ + 1]
  /\ UNCHANGED <<now, apiVars, tickVars, runVars, sem, dpc, did, log>>

DispatchGivesUp(d) ==
  /\ dpc[d] = "post"
  /\ attempt[d] = MaxAttempts
  /\ DispatchDone(d, "failed")

Tick ==
  /\ now < MaxTime
  /\ now' = now + 1
  /\ UNCHANGED <<apiVars, tickVars, runVars, dispatchVars>>

-----------------------------------------------------------------------------

ApiStep ==
  \E i \in Ids :
    \/ \E interval \in Intervals, hook \in BOOLEAN :
         \/ \E secret \in Secrets \union {FALSE} : Create(i, interval, hook, secret)
         \/ \E enabled \in BOOLEAN, sent \in {{}} \union {{secret} : secret \in Secrets} :
              Patch(i, enabled, interval, hook, sent)
    \/ Redact(i) \/ RunNow(i) \/ Delete(i)

TickerStep ==
  \/ TickBegin \/ TickEnd \/ TickerExit
  \/ \E i \in Ids : TickSkip(i) \/ \E r \in Runs : TickStart(i, r)

RunStep(r) ==
  \/ RunGone(r) \/ RunStart(r) \/ RunAdvance(r) \/ RunScanned(r) \/ RunEnd(r)
  \/ \E d \in Dispatches : RunDispatch(r, d)

DispatchStep(d) ==
  DispatchInvalid(d) \/ DispatchValid(d) \/ DispatchDelivered(d) \/ DispatchRetry(d)
  \/ DispatchGivesUp(d)

Next ==
  \/ ApiStep \/ TickerStep \/ Stop \/ Tick
  \/ \E r \in Runs : RunStep(r)
  \/ \E d \in Dispatches : DispatchStep(d)

Spec == Init /\ [][Next]_vars

\* The ticker goroutine, every run (its scan has a 30 second context) and
\* every delivery (each POST has a 10 second timeout) keep going.  A run that
\* waits for a slot gets one in turn: a Go channel serves its senders in order.
Fairness ==
  /\ WF_vars(TickerStep)
  /\ \A r \in Runs :
       /\ WF_vars(RunStep(r))
       /\ SF_vars(\E d \in Dispatches : RunDispatch(r, d))
  /\ \A d \in Dispatches : WF_vars(DispatchStep(d))

FairSpec == Spec /\ Fairness

-----------------------------------------------------------------------------
(* Properties *)

\* inflight holds exactly the schedules that run, each in one goroutine: a
\* slow scan, or one that waits for a dispatch slot, is not fired again by the
\* next tick, and no schedule stays blocked (scheduler.go:32-34, 94-110).
RunsAreExclusive ==
  /\ inflight = {rid[r] : r \in {r \in Runs : rpc[r] # "free"}}
  /\ \A r, q \in Runs : rpc[r] # "free" /\ rid[r] = rid[q] => r = q

\* The slots taken are those of the deliveries on their way, on every path out
\* of dispatchWebhook, so their number is bounded and none leaks
\* (scheduler.go:44-48, 149-156, 200-256).
SlotsMatchDeliveries ==
  sem = Cardinality({d \in Dispatches : dpc[d] # "free"})

\* A schedule that is due is run and gets a new date, unless it is disabled or
\* deleted or the scheduler is stopped; a delivery that waits for a slot delays
\* it at most (scheduler.go:74-157).
DueSchedulesRun ==
  \A i \in Ids :
    (i \in created /\ IsDue(i))
      ~> (~IsDue(i) \/ stopped)

\* A POST .../run on an enabled schedule leads to a scan that starts after it,
\* also when it arrives while the schedule is running and the run's own
\* UpdateSchedule overwrites the new date (schedules.go:249-264,
\* scheduler.go:116-122).  The handler does not look at Enabled: on a disabled
\* schedule, which is never due, it confirms a run that does not happen.
RequestedRunsHappen ==
  \A i \in Ids :
    (i \in asked /\ i \in listed)
      ~> (i \notin asked \/ i \notin listed \/ ~sched[i].enabled \/ stopped)

\* WebhookSecret is the "HMAC secret (kept on server, never returned in GET)"
\* (store.go:42), so a delivery for a schedule whose owner set one is signed.
\* redactSchedule empties the field of the stored object (schedules.go:354),
\* and postOnce then sends no signature (scheduler.go:270).
DeliveriesAreSigned ==
  \A d \in Dispatches :
    dpc[d] = "post" /\ sched[did[d]].hasSecret => sched[did[d]].secret
=============================================================================
