-------------------------- MODULE SchedulerProofs ---------------------------
(***************************************************************************)
(* Proofs about Scheduler, for every number of schedules, runs and         *)
(* deliveries: runs of a schedule are exclusive and no dispatch slot       *)
(* leaks.  The release of a slot is only well typed because the slots      *)
(* count the deliveries, and inflight only matches the runs because a free *)
(* goroutine has no schedule, so the invariant joins them.                 *)
(***************************************************************************)
EXTENDS Scheduler, FiniteSetTheorems, TLAPS

\* A goroutine has a schedule exactly while it is there.
Owned ==
  /\ \A r \in Runs : IF rpc[r] = "free" THEN rid[r] = NoId ELSE rid[r] \in created
  /\ \A d \in Dispatches : dpc[d] # "free" => did[d] \in created

Sending == {d \in Dispatches : dpc[d] # "free"}

SafetyInv == TypeOK /\ Owned /\ RunsAreExclusive /\ SlotsMatchDeliveries

\* The initial state: nothing runs (scheduler.go:52-61).
LEMMA SafetyInit == Init => SafetyInv
<1> SUFFICES ASSUME Init PROVE SafetyInv
  OBVIOUS
<1> USE SchedulerAssumption DEF Init, SchedulerAssumption
<1>1. TypeOK
  <2>1. sched \in [created -> ScheduleValues]
    OBVIOUS
  <2>2. log \in Seq(Outcomes) /\ Len(log) <= MaxLog
    OBVIOUS
  <2>3. stopped \in BOOLEAN
    BY Zenon
  <2> QED
    BY <2>1, <2>2, <2>3 DEF TypeOK
<1>2. Owned /\ RunsAreExclusive
  BY DEF Owned, RunsAreExclusive
<1>3. SlotsMatchDeliveries
  <2>1. {d \in Dispatches : dpc[d] # "free"} = {}
    OBVIOUS
  <2> QED
    BY <2>1, FS_EmptySet DEF SlotsMatchDeliveries
<1> QED
  BY <1>1, <1>2, <1>3 DEF SafetyInv

-----------------------------------------------------------------------------
(***************************************************************************)
(* The dispatch slots.                                                     *)
(***************************************************************************)

\* A delivery on its way holds a slot, so a release never goes below zero.
LEMMA SlotIsHeld ==
  ASSUME SafetyInv, NEW d \in Dispatches, dpc[d] # "free"
  PROVE  sem >= 1
<1>1. IsFiniteSet(Sending)
  BY FS_Subset, SchedulerAssumption DEF SchedulerAssumption, Sending
<1>2. d \in Sending
  BY DEF Sending
<1>3. Cardinality(Sending) # 0 /\ Cardinality(Sending) \in Nat
  BY <1>1, <1>2, FS_EmptySet, FS_CardinalityType
<1> QED
  BY <1>3 DEF SafetyInv, SlotsMatchDeliveries, Sending

\* Taking a slot starts one delivery (scheduler.go:151-155).
LEMMA SlotTaken ==
  ASSUME SafetyInv, NEW r \in Runs, NEW d \in Dispatches, RunDispatch(r, d)
  PROVE  SlotsMatchDeliveries'
<1>1. IsFiniteSet(Sending)
  BY FS_Subset, SchedulerAssumption DEF SchedulerAssumption, Sending
<1>2. Sending' = Sending \union {d} /\ d \notin Sending
  BY DEF RunDispatch, Sending, SafetyInv, TypeOK
<1>3. Cardinality(Sending') = Cardinality(Sending) + 1
  BY <1>1, <1>2, FS_AddElement
<1> QED
  BY <1>3 DEF SafetyInv, SlotsMatchDeliveries, Sending, RunDispatch

\* The deferred receive ends one (scheduler.go:153).
LEMMA SlotReleased ==
  ASSUME SafetyInv, NEW d \in Dispatches, dpc[d] # "free", NEW status,
         DispatchDone(d, status)
  PROVE  SlotsMatchDeliveries'
<1>1. IsFiniteSet(Sending)
  BY FS_Subset, SchedulerAssumption DEF SchedulerAssumption, Sending
<1>2. Sending' = Sending \ {d} /\ d \in Sending
  BY DEF DispatchDone, Sending, SafetyInv, TypeOK
<1>3. Cardinality(Sending') = Cardinality(Sending) - 1
  BY <1>1, <1>2, FS_RemoveElement
<1> QED
  BY <1>3 DEF SafetyInv, SlotsMatchDeliveries, Sending, DispatchDone

\* Requests change schedules and nothing of what the scheduler keeps.
LEMMA ApiStepLeaves ==
  ASSUME ApiStep
  PROVE  UNCHANGED <<now, tickVars, runVars, dispatchVars>>
<1>1. ASSUME NEW i, NEW interval, NEW hook, NEW secret, Create(i, interval, hook, secret)
      PROVE  UNCHANGED <<now, tickVars, runVars, dispatchVars>>
  BY <1>1 DEF Create
<1>2. ASSUME NEW i, NEW enabled, NEW interval, NEW hook, NEW sent,
             Patch(i, enabled, interval, hook, sent)
      PROVE  UNCHANGED <<now, tickVars, runVars, dispatchVars>>
  BY <1>2 DEF Patch
<1>3. ASSUME NEW i, Redact(i) \/ RunNow(i) \/ Delete(i)
      PROVE  UNCHANGED <<now, tickVars, runVars, dispatchVars>>
  BY <1>3 DEF Redact, RunNow, Delete
<1> QED
  BY <1>1, <1>2, <1>3, Zenon DEF ApiStep

\* A delivery's steps other than its end leave the slots alone.
LEMMA SlotsNext ==
  ASSUME SafetyInv, [Next]_vars
  PROVE  SlotsMatchDeliveries'
<1>1. CASE UNCHANGED <<sem, dpc>>
  BY <1>1 DEF SafetyInv, SlotsMatchDeliveries
<1>2. CASE ApiStep \/ TickerStep \/ Stop \/ Tick \/ UNCHANGED vars
  <2>1. CASE ApiStep
    BY <1>1, <2>1, ApiStepLeaves DEF dispatchVars
  <2>2. CASE TickerStep
    BY <1>1, <2>2 DEF TickerStep, TickBegin, TickEnd, TickerExit, TickSkip, TickStart,
                      dispatchVars
  <2>3. CASE Stop \/ Tick \/ UNCHANGED vars
    BY <1>1, <2>3 DEF Stop, Tick, vars, dispatchVars
  <2> QED
    BY <1>2, <2>1, <2>2, <2>3
<1>3. ASSUME NEW r \in Runs, RunStep(r)
      PROVE  SlotsMatchDeliveries'
  <2>1. CASE RunGone(r) \/ RunStart(r) \/ RunAdvance(r) \/ RunScanned(r) \/ RunEnd(r)
    BY <1>1, <2>1 DEF RunGone, RunStart, RunAdvance, RunScanned, RunEnd, dispatchVars
  <2>2. ASSUME NEW d \in Dispatches, RunDispatch(r, d)
        PROVE  SlotsMatchDeliveries'
    BY <2>2, SlotTaken
  <2> QED
    BY <1>3, <2>1, <2>2 DEF RunStep
<1>4. ASSUME NEW d \in Dispatches, DispatchStep(d)
      PROVE  SlotsMatchDeliveries'
  <2>1. CASE DispatchInvalid(d) \/ DispatchDelivered(d) \/ DispatchGivesUp(d)
    <3>1. dpc[d] # "free" /\ \E status \in Outcomes : DispatchDone(d, status)
      BY <2>1 DEF DispatchInvalid, DispatchDelivered, DispatchGivesUp, Outcomes
    <3> QED
      BY <3>1, SlotReleased
  <2>2. CASE DispatchValid(d)
    <3>1. sem' = sem /\ Sending' = Sending
      BY <2>2 DEF DispatchValid, Sending, SafetyInv, TypeOK
    <3> QED
      BY <3>1 DEF SafetyInv, SlotsMatchDeliveries, Sending
  <2>3. CASE DispatchRetry(d)
    BY <1>1, <2>3 DEF DispatchRetry
  <2> QED
    BY <1>4, <2>1, <2>2, <2>3 DEF DispatchStep
<1> QED
  BY <1>2, <1>3, <1>4 DEF Next

-----------------------------------------------------------------------------
(***************************************************************************)
(* Runs and inflight.                                                      *)
(***************************************************************************)

\* Schedules are created and never forgotten: deleted ones stay objects.
LEMMA CreatedGrows ==
  ASSUME ApiStep
  PROVE  created \subseteq created'
<1>1. ASSUME NEW i, NEW interval, NEW hook, NEW secret, Create(i, interval, hook, secret)
      PROVE  created \subseteq created'
  BY <1>1 DEF Create
<1>2. ASSUME NEW i, NEW enabled, NEW interval, NEW hook, NEW sent,
             Patch(i, enabled, interval, hook, sent)
      PROVE  created \subseteq created'
  BY <1>2 DEF Patch
<1>3. ASSUME NEW i, Redact(i) \/ RunNow(i) \/ Delete(i)
      PROVE  created \subseteq created'
  BY <1>3 DEF Redact, RunNow, Delete
<1> QED
  BY <1>1, <1>2, <1>3, Zenon DEF ApiStep

\* A run that moves on, and neither starts nor ends (scheduler.go:111-157).
LEMMA RunMoves ==
  ASSUME SafetyInv, NEW r \in Runs, rpc[r] # "free",
         NEW to \in RunPoints, rpc' = [rpc EXCEPT ![r] = to],
         UNCHANGED <<inflight, rid, created>>
  PROVE  /\ \A q \in Runs : (rpc'[q] = "free") <=> (rpc[q] = "free")
         /\ RunsAreExclusive'
<1>1. \A q \in Runs : (rpc'[q] = "free") <=> (rpc[q] = "free")
  BY DEF SafetyInv, TypeOK, RunPoints
<1>2. {q \in Runs : rpc'[q] # "free"} = {q \in Runs : rpc[q] # "free"}
  BY <1>1
<1> QED
  BY <1>1, <1>2 DEF SafetyInv, RunsAreExclusive

\* tick starts a run only for a schedule that is not in inflight
\* (scheduler.go:98-102).
LEMMA RunStarts ==
  ASSUME SafetyInv, NEW i \in Ids, NEW r \in Runs, TickStart(i, r)
  PROVE  RunsAreExclusive'
<1> USE DEF SafetyInv, TypeOK, TickStart
<1>1. i \in created /\ i \notin inflight /\ i # NoId
  BY SchedulerAssumption DEF SchedulerAssumption
<1>2. /\ rpc'[r] # "free" /\ rid'[r] = i
      /\ \A q \in Runs \ {r} : rpc'[q] = rpc[q] /\ rid'[q] = rid[q]
  OBVIOUS
<1>3. \A q \in Runs : rid[q] # i
  BY <1>1 DEF Owned, RunsAreExclusive
<1>4. inflight' = {rid'[q] : q \in {q \in Runs : rpc'[q] # "free"}}
  BY <1>2 DEF RunsAreExclusive
<1>5. \A q, v \in Runs : rpc'[q] # "free" /\ rid'[q] = rid'[v] => q = v
  BY <1>2, <1>3 DEF RunsAreExclusive
<1> QED
  BY <1>4, <1>5 DEF RunsAreExclusive

\* The deferred delete takes out this run's schedule and no other's
\* (scheduler.go:109).
LEMMA RunEnds ==
  ASSUME SafetyInv, NEW r \in Runs, RunEnd(r)
  PROVE  RunsAreExclusive'
<1> USE DEF SafetyInv, TypeOK, RunEnd, RunGoto
<1>1. /\ rpc[r] # "free" /\ rpc'[r] = "free" /\ rid'[r] = NoId
      /\ \A q \in Runs \ {r} : rpc'[q] = rpc[q] /\ rid'[q] = rid[q]
  OBVIOUS
<1>2. \A q \in Runs \ {r} : rid[q] # rid[r]
  BY <1>1 DEF RunsAreExclusive
<1>3. inflight' = {rid'[q] : q \in {q \in Runs : rpc'[q] # "free"}}
  BY <1>1, <1>2 DEF RunsAreExclusive
<1>4. \A q \in Runs : rpc'[q] # "free" => rid'[q] # NoId
  BY <1>1, SchedulerAssumption DEF Owned, SchedulerAssumption
<1>5. \A q, v \in Runs : rpc'[q] # "free" /\ rid'[q] = rid'[v] => q = v
  BY <1>1, <1>4 DEF RunsAreExclusive
<1> QED
  BY <1>3, <1>5 DEF RunsAreExclusive

\* Every step keeps the runs exclusive, and each goroutine its schedule.
LEMMA RunsNext ==
  ASSUME SafetyInv, [Next]_vars
  PROVE  Owned' /\ RunsAreExclusive'
<1>1. ASSUME UNCHANGED runVars
      PROVE  RunsAreExclusive'
  BY <1>1 DEF runVars, SafetyInv, RunsAreExclusive
<1>2. ASSUME UNCHANGED <<runVars, dispatchVars>>, created \subseteq created'
      PROVE  Owned'
  BY <1>2 DEF runVars, dispatchVars, SafetyInv, Owned
<1>3. CASE ApiStep
  BY <1>1, <1>2, <1>3, ApiStepLeaves, CreatedGrows
<1>4. CASE Stop \/ Tick \/ UNCHANGED vars
  BY <1>1, <1>2, <1>4 DEF Stop, Tick, vars, apiVars
<1>5. CASE TickerStep
  <2>1. CASE TickBegin \/ TickEnd \/ TickerExit \/ \E i \in Ids : TickSkip(i)
    BY <1>1, <1>2, <2>1 DEF TickBegin, TickEnd, TickerExit, TickSkip, apiVars
  <2>2. ASSUME NEW i \in Ids, NEW r \in Runs, TickStart(i, r)
        PROVE  Owned' /\ RunsAreExclusive'
    <3>1. Owned'
      BY <2>2 DEF TickStart, SafetyInv, TypeOK, Owned, apiVars, dispatchVars
    <3> QED
      BY <2>2, <3>1, RunStarts
  <2> QED
    BY <1>5, <2>1, <2>2 DEF TickerStep
<1>6. ASSUME NEW r \in Runs, RunStep(r)
      PROVE  Owned' /\ RunsAreExclusive'
  <2>1. CASE RunGone(r) \/ RunStart(r) \/ RunAdvance(r) \/ RunScanned(r)
    <3>1. /\ rpc[r] # "free" /\ \E to \in RunPoints : rpc' = [rpc EXCEPT ![r] = to]
          /\ UNCHANGED <<inflight, rid, created, dpc, did>>
      BY <2>1 DEF RunGone, RunStart, RunAdvance, RunScanned, RunGoto, RunPoints, apiVars,
                  dispatchVars
    <3>2. (\A q \in Runs : (rpc'[q] = "free") <=> (rpc[q] = "free")) /\ RunsAreExclusive'
      BY <3>1, RunMoves
    <3> QED
      BY <3>1, <3>2 DEF SafetyInv, Owned
  <2>2. ASSUME NEW d \in Dispatches, RunDispatch(r, d)
        PROVE  Owned' /\ RunsAreExclusive'
    <3>1. /\ rpc[r] # "free" /\ "end" \in RunPoints /\ rpc' = [rpc EXCEPT ![r] = "end"]
          /\ UNCHANGED <<inflight, rid, created>>
      BY <2>2 DEF RunDispatch, RunGoto, RunPoints, apiVars
    <3>2. (\A q \in Runs : (rpc'[q] = "free") <=> (rpc[q] = "free")) /\ RunsAreExclusive'
      BY <3>1, RunMoves
    <3>3. \A e \in Dispatches : dpc'[e] # "free" => did'[e] \in created
      BY <2>2, <3>1 DEF RunDispatch, SafetyInv, TypeOK, Owned
    <3> QED
      BY <3>1, <3>2, <3>3 DEF SafetyInv, Owned
  <2>3. CASE RunEnd(r)
    <3>1. Owned'
      BY <2>3 DEF RunEnd, RunGoto, SafetyInv, TypeOK, Owned, apiVars, dispatchVars
    <3> QED
      BY <2>3, <3>1, RunEnds
  <2> QED
    BY <1>6, <2>1, <2>2, <2>3 DEF RunStep
<1>7. ASSUME NEW d \in Dispatches, DispatchStep(d)
      PROVE  Owned' /\ RunsAreExclusive'
  <2>1. /\ UNCHANGED <<runVars, created>>
        /\ \A e \in Dispatches : dpc'[e] # "free" => dpc[e] # "free" /\ did'[e] = did[e]
    BY <1>7 DEF DispatchStep, DispatchInvalid, DispatchValid, DispatchDelivered,
                DispatchRetry, DispatchGivesUp, DispatchDone, SafetyInv, TypeOK, apiVars
  <2> QED
    BY <1>1, <2>1 DEF SafetyInv, Owned, runVars
<1> QED
  BY <1>3, <1>4, <1>5, <1>6, <1>7 DEF Next

-----------------------------------------------------------------------------
(***************************************************************************)
(* Type correctness.                                                       *)
(***************************************************************************)

\* What a request or a run makes of a schedule is a schedule.
LEMMA ChangedTyped ==
  ASSUME NEW sch \in ScheduleValues
  PROVE  /\ \A date \in Nat : Rescheduled(sch, date) \in ScheduleValues
         /\ Redacted(sch) \in ScheduleValues
         /\ \A enabled, hook \in BOOLEAN, interval \in Intervals : \A sent :
              Patched(sch, enabled, interval, hook, sent) \in ScheduleValues
<1>1. ASSUME NEW date \in Nat
      PROVE  Rescheduled(sch, date) \in ScheduleValues
  BY DEF Rescheduled, ScheduleValues
<1>2. Redacted(sch) \in ScheduleValues
  BY DEF Redacted, ScheduleValues
<1>3. ASSUME NEW enabled \in BOOLEAN, NEW hook \in BOOLEAN,
             NEW interval \in Intervals, NEW sent
      PROVE  Patched(sch, enabled, interval, hook, sent) \in ScheduleValues
  <2>1. ASSUME NEW secret \in BOOLEAN, NEW hasSecret \in BOOLEAN
        PROVE  [sch EXCEPT !.enabled = enabled, !.interval = interval, !.hook = hook,
                           !.secret = secret, !.hasSecret = hasSecret] \in ScheduleValues
    BY DEF ScheduleValues
  <2>2. sch.secret \in BOOLEAN /\ sch.hasSecret \in BOOLEAN
    BY DEF ScheduleValues
  <2>3. (TRUE \in sent) \in BOOLEAN
    OBVIOUS
  <2>4. CASE sent = {}
    <3>1. Patched(sch, enabled, interval, hook, sent)
            = [sch EXCEPT !.enabled = enabled, !.interval = interval, !.hook = hook,
                          !.secret = sch.secret, !.hasSecret = sch.hasSecret]
      BY <2>4 DEF Patched, ScheduleValues
    <3> QED
      BY <2>1, <2>2, <3>1
  <2>5. CASE sent # {}
    <3>1. Patched(sch, enabled, interval, hook, sent)
            = [sch EXCEPT !.enabled = enabled, !.interval = interval, !.hook = hook,
                          !.secret = (TRUE \in sent), !.hasSecret = (TRUE \in sent)]
      BY <2>5, Zenon DEF Patched
    <3> QED
      BY <2>1, <2>3, <3>1, Zenon
  <2> QED
    BY <2>4, <2>5
<1> QED
  BY <1>1, <1>2, <1>3

\* A change of one schedule, given as the value it gets.
LEMMA SchedTyped ==
  ASSUME TypeOK, NEW i \in created, NEW value \in ScheduleValues
  PROVE  [sched EXCEPT ![i] = value] \in [created -> ScheduleValues]
BY DEF TypeOK

\* Requests keep the schedules well typed (schedules.go:59-264).
LEMMA ApiTypes ==
  ASSUME SafetyInv, ApiStep
  PROVE  TypeOK'
<1> USE SchedulerAssumption DEF SchedulerAssumption, SafetyInv, TypeOK
<1>1. ASSUME NEW i \in Ids, NEW interval \in Intervals, NEW hook \in BOOLEAN,
             NEW secret \in BOOLEAN, Create(i, interval, hook, secret)
      PROVE  TypeOK'
  <2>1. NewSchedule(interval, hook, secret) \in ScheduleValues
    BY DEF NewSchedule, ScheduleValues
  <2>2. created \subseteq created' /\ created' \in SUBSET Ids
    BY <1>1 DEF Create
  <2>3. sched' \in [created' -> ScheduleValues]
    BY <1>1, <2>1 DEF Create
  <2>4. listed' \in SUBSET created' /\ redacting' \in SUBSET created'
    BY <1>1, <2>2 DEF Create
  <2> QED
    BY <1>1, <2>2, <2>3, <2>4 DEF Create, tickVars, runVars, dispatchVars
<1>2. ASSUME NEW i \in Ids, NEW enabled \in BOOLEAN, NEW interval \in Intervals,
             NEW hook \in BOOLEAN, NEW sent, Patch(i, enabled, interval, hook, sent)
      PROVE  TypeOK'
  <2>1. i \in created
    BY <1>2 DEF Patch
  <2>2. sched' \in [created -> ScheduleValues]
    <3>1. Patched(sched[i], enabled, interval, hook, sent) \in ScheduleValues
      BY <2>1, ChangedTyped
    <3> QED
      BY <1>2, <2>1, <3>1, SchedTyped DEF Patch
  <2>3. redacting' \in SUBSET created /\ asked' \in SUBSET created
    BY <1>2, <2>1 DEF Patch
  <2> QED
    BY <1>2, <2>2, <2>3 DEF Patch, tickVars, runVars, dispatchVars
<1>3. ASSUME NEW i \in Ids, Redact(i)
      PROVE  TypeOK'
  <2>1. i \in created
    BY <1>3 DEF Redact
  <2>2. sched' \in [created -> ScheduleValues]
    <3>1. Redacted(sched[i]) \in ScheduleValues
      BY <2>1, ChangedTyped
    <3> QED
      BY <1>3, <2>1, <3>1, SchedTyped DEF Redact
  <2> QED
    BY <1>3, <2>2 DEF Redact, tickVars, runVars, dispatchVars
<1>4. ASSUME NEW i \in Ids, RunNow(i)
      PROVE  TypeOK'
  <2>1. i \in created
    BY <1>4 DEF RunNow
  <2>2. sched' \in [created -> ScheduleValues]
    <3>1. sched[i] \in ScheduleValues /\ now \in Nat
      BY <2>1
    <3>2. Rescheduled(sched[i], now) \in ScheduleValues
      BY <3>1, ChangedTyped
    <3> QED
      BY <1>4, <2>1, <3>2, SchedTyped DEF RunNow
  <2> QED
    BY <1>4, <2>1, <2>2 DEF RunNow, tickVars, runVars, dispatchVars
<1>5. ASSUME NEW i \in Ids, Delete(i)
      PROVE  TypeOK'
  BY <1>5 DEF Delete, tickVars, runVars, dispatchVars
<1> HIDE DEF SafetyInv, TypeOK
<1> QED
  BY <1>1, <1>2, <1>3, <1>4, <1>5, Zenon DEF ApiStep

\* The ticker's steps, Stop and the clock (scheduler.go:69-104).
LEMMA TickerTypes ==
  ASSUME SafetyInv, TickerStep \/ Stop \/ Tick
  PROVE  TypeOK'
<1> USE SchedulerAssumption DEF SchedulerAssumption, SafetyInv, TypeOK
<1>1. CASE TickBegin \/ TickEnd \/ TickerExit
  BY <1>1 DEF TickBegin, TickEnd, TickerExit, apiVars, runVars, dispatchVars
<1>2. ASSUME NEW i \in Ids, TickSkip(i)
      PROVE  TypeOK'
  BY <1>2 DEF TickSkip, apiVars, runVars, dispatchVars
<1>3. ASSUME NEW i \in Ids, NEW r \in Runs, TickStart(i, r)
      PROVE  TypeOK'
  BY <1>3 DEF TickStart, apiVars, dispatchVars, RunPoints
<1>4. CASE Stop
  <2>1. stopped' \in BOOLEAN
    BY <1>4, Zenon DEF Stop
  <2> QED
    BY <1>4, <2>1 DEF Stop, apiVars, runVars, dispatchVars
<1>5. CASE Tick
  BY <1>5 DEF Tick, apiVars, tickVars, runVars, dispatchVars
<1> QED
  BY <1>1, <1>2, <1>3, <1>4, <1>5 DEF TickerStep

\* The steps of a run (scheduler.go:108-157).
LEMMA RunTypes ==
  ASSUME SafetyInv, NEW r \in Runs, RunStep(r)
  PROVE  TypeOK'
<1> USE SchedulerAssumption DEF SchedulerAssumption, SafetyInv, TypeOK, RunGoto, RunPoints
<1>1. CASE RunGone(r) \/ RunScanned(r)
  BY <1>1 DEF RunGone, RunScanned, apiVars, tickVars, dispatchVars
<1>2. CASE RunStart(r)
  <2>1. sched[rid[r]].interval \in Nat
    BY <1>2 DEF RunStart, ScheduleValues
  <2> QED
    BY <1>2, <2>1 DEF RunStart, apiVars, tickVars, dispatchVars
<1>3. CASE RunAdvance(r)
  <2>1. sched' \in [created -> ScheduleValues]
    <3>1. rid[r] \in created
      BY <1>3 DEF RunAdvance, Owned
    <3>2. Rescheduled(sched[rid[r]], rnext[r]) \in ScheduleValues
      BY <3>1, ChangedTyped
    <3> QED
      BY <1>3, <3>1, <3>2, SchedTyped DEF RunAdvance
  <2> QED
    BY <1>3, <2>1 DEF RunAdvance, tickVars, dispatchVars
<1>4. ASSUME NEW d \in Dispatches, RunDispatch(r, d)
      PROVE  TypeOK'
  <2>1. rid[r] \in created
    BY <1>4 DEF RunDispatch, Owned
  <2> QED
    BY <1>4, <2>1 DEF RunDispatch, apiVars, tickVars
<1>5. CASE RunEnd(r)
  BY <1>5 DEF RunEnd, apiVars, tickVars, dispatchVars
<1> QED
  BY <1>1, <1>2, <1>3, <1>4, <1>5 DEF RunStep

\* The steps of a delivery (scheduler.go:200-299).
LEMMA DispatchTypes ==
  ASSUME SafetyInv, NEW d \in Dispatches, DispatchStep(d)
  PROVE  TypeOK'
<1> USE SchedulerAssumption DEF SchedulerAssumption, SafetyInv, TypeOK
<1>1. ASSUME NEW status \in Outcomes, dpc[d] # "free", DispatchDone(d, status)
      PROVE  TypeOK'
  <2>1. sem' \in 0..MaxDispatch
    BY <1>1, SlotIsHeld DEF DispatchDone
  <2>2. log' \in Seq(Outcomes) /\ Len(log') <= MaxLog
    <3> DEFINE longer == Append(log, status)
    <3>1. longer \in Seq(Outcomes) /\ Len(longer) = Len(log) + 1 /\ Len(log) \in Nat
      OBVIOUS
    <3>2. CASE Len(longer) > MaxLog
      BY <1>1, <3>1, <3>2 DEF DispatchDone, Newest
    <3>3. CASE ~(Len(longer) > MaxLog)
      BY <1>1, <3>1, <3>3 DEF DispatchDone, Newest
    <3> QED
      BY <3>2, <3>3
  <2> QED
    BY <1>1, <2>1, <2>2 DEF DispatchDone, apiVars, tickVars, runVars
<1>2. CASE DispatchInvalid(d) \/ DispatchDelivered(d) \/ DispatchGivesUp(d)
  BY <1>1, <1>2 DEF DispatchInvalid, DispatchDelivered, DispatchGivesUp, Outcomes
<1>3. CASE DispatchValid(d)
  BY <1>3 DEF DispatchValid, apiVars, tickVars, runVars
<1>4. CASE DispatchRetry(d)
  BY <1>4 DEF DispatchRetry, apiVars, tickVars, runVars
<1> QED
  BY <1>2, <1>3, <1>4 DEF DispatchStep

-----------------------------------------------------------------------------

\* The invariant is inductive.
LEMMA SafetyNext == SafetyInv /\ [Next]_vars => SafetyInv'
<1> SUFFICES ASSUME SafetyInv, [Next]_vars PROVE SafetyInv'
  OBVIOUS
<1>1. TypeOK'
  <2>1. CASE UNCHANGED vars
    BY <2>1 DEF SafetyInv, TypeOK, vars, apiVars, tickVars, runVars, dispatchVars
  <2> QED
    BY <2>1, ApiTypes, TickerTypes, RunTypes, DispatchTypes DEF Next
<1> QED
  BY <1>1, RunsNext, SlotsNext DEF SafetyInv

LEMMA SafetyInvariant == Spec => []SafetyInv
BY SafetyInit, SafetyNext, PTL DEF Spec

\* The scheduler's state is well typed in every reachable state; that a
\* release never makes the number of slots negative is part of it
\* (scheduler.go:52-61, 149-156).
THEOREM SchedulerTypeCorrect == Spec => []TypeOK
<1>1. SafetyInv => TypeOK
  BY DEF SafetyInv
<1> QED
  BY <1>1, SafetyInvariant, PTL

\* However many schedules, ticks and requests there are, no schedule runs
\* twice at once and inflight holds exactly those that run
\* (scheduler.go:94-110).
THEOREM RunsAreExclusiveHolds == Spec => []RunsAreExclusive
<1>1. SafetyInv => RunsAreExclusive
  BY DEF SafetyInv
<1> QED
  BY <1>1, SafetyInvariant, PTL

\* However many deliveries there are, the slots taken are exactly those of the
\* deliveries on their way (scheduler.go:149-156, 200-256).
THEOREM SlotsMatchDeliveriesHolds == Spec => []SlotsMatchDeliveries
<1>1. SafetyInv => SlotsMatchDeliveries
  BY DEF SafetyInv
<1> QED
  BY <1>1, SafetyInvariant, PTL
=============================================================================
