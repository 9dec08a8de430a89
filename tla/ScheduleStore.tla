--------------------------- MODULE ScheduleStore ----------------------------
(***************************************************************************)
(* Persistence of schedules and of the webhook delivery log: store.go and  *)
(* store_api.go of internal/scheduler, with WriteFileAtomic of fsutil.     *)
(*                                                                         *)
(* A mutator changes the maps under the store's lock and, after unlocking, *)
(* AddSchedule and LogDelivery put a token into dirtyCh.  The save loop    *)
(* takes the token and writes the file (temporary file, then rename) while *)
(* it holds the read lock, which keeps mutators out.  One writer does not  *)
(* take the lock: the API's redactSchedule, which empties the secret of a  *)
(* stored schedule, also while a save reads it.  The process may crash at  *)
(* any step and is then restarted from the file.                           *)
(***************************************************************************)
EXTENDS Naturals, FiniteSets

CONSTANTS
  Ids,         \* schedule ids
  Values,      \* what a schedule can hold beside its webhook secret
  Absent,      \* no schedule under this id
  Callers,     \* goroutines that mutate the store: handlers, scheduled runs
  MaxLogged,   \* bound on the delivery records written
  MaxFailures  \* bound on the saves that fail

ASSUME StoreAssumption ==
  /\ Absent \notin Values
  /\ MaxLogged \in Nat
  /\ MaxFailures \in Nat

VARIABLES
  mem,       \* store.schedules and store.log
  tmp,       \* what is marshalled for the temporary file
  disk,      \* the JSON file; a missing file reads as the empty content
  dirty,     \* dirtyCh holds its one token
  cpc,       \* each caller: "idle", or "mark" between its unlock and markDirty
  saver,     \* program point of saveLoop
  close,     \* how far Close has come
  process,   \* "up", "exited" when main has returned, "crashed"
  failures,  \* how many saves have failed
  used,      \* the ids drawn so far (history: ids are random and never reused)
  forgot,    \* a save has failed and none has succeeded since (history)
  redacted   \* the schedules redacted since this save began (history)

vars == <<mem, tmp, disk, dirty, cpc, saver, close, process, failures, used,
          forgot, redacted>>

\* secrets has the schedules whose WebhookSecret is not empty.  The log is
\* trimmed to the newest maxDeliveryLog records, so how many were ever logged
\* says what is in it.
Content ==
  [schedules : [Ids -> Values \union {Absent}], secrets : SUBSET Ids,
   logged : 0..MaxLogged]
EmptyContent == [schedules |-> [i \in Ids |-> Absent], secrets |-> {}, logged |-> 0]

TypeOK ==
  /\ mem \in Content
  /\ tmp \in Content
  /\ disk \in Content
  /\ dirty \in BOOLEAN
  /\ cpc \in [Callers -> {"idle", "mark"}]
  /\ saver \in {"select", "drain", "lock", "write", "exited"}
  /\ close \in {"no", "signalled", "write", "done"}
  /\ process \in {"up", "exited", "crashed"}
  /\ failures \in 0..MaxFailures
  /\ used \in SUBSET Ids
  /\ forgot \in BOOLEAN
  /\ redacted \in SUBSET Ids

Init ==
  /\ mem = EmptyContent
  /\ tmp = EmptyContent
  /\ disk = EmptyContent
  /\ dirty = FALSE
  /\ cpc = [c \in Callers |-> "idle"]
  /\ saver = "select"
  /\ close = "no"
  /\ process = "up"
  /\ failures = 0
  /\ used = {}
  /\ forgot = FALSE
  /\ redacted = {}

-----------------------------------------------------------------------------
(* Mutators.  save holds the read lock, so none of the store's own can run *)
(* meanwhile.                                                              *)

\* Mutant: save does not hold the lock while it writes.
NeverLocked == FALSE

Locked == saver = "write" \/ close = "write"

\* A content in which schedule i holds v, with or without a secret.
With(i, v, secret) ==
  [mem EXCEPT !.schedules[i] = v,
              !.secrets = IF secret THEN @ \union {i} ELSE @ \ {i}]

\* A mutation that marks the store dirty once it has unlocked.
MutateAndMark(c, content) ==
  /\ process = "up"
  /\ cpc[c] = "idle" /\ ~Locked
  /\ mem' = content
  /\ cpc' = [cpc EXCEPT ![c] = "mark"]
  /\ UNCHANGED <<tmp, disk, dirty, saver, close, process, failures, forgot, redacted>>

\* A mutation that does not.
Mutate(content) ==
  /\ process = "up"
  /\ ~Locked
  /\ mem' = content
  /\ UNCHANGED <<tmp, disk, dirty, cpc, saver, close, process, failures, used,
                 forgot, redacted>>

\* Mutant: a new schedule does not mark the store dirty.
AddScheduleUnmarked(c, i, v, secret) ==
  /\ i \notin used
  /\ used' = used \union {i}
  /\ cpc[c] = "idle"
  /\ process = "up" /\ ~Locked
  /\ mem' = With(i, v, secret)
  /\ UNCHANGED <<tmp, disk, dirty, cpc, saver, close, process, failures, forgot, redacted>>

AddSchedule(c, i, v, secret) ==
  /\ i \notin used
  /\ used' = used \union {i}
  /\ MutateAndMark(c, With(i, v, secret))

LogDelivery(c) ==
  /\ mem.logged < MaxLogged
  /\ MutateAndMark(c, [mem EXCEPT !.logged = @ + 1])
  /\ UNCHANGED used

\* The mutator function of a PATCH, a run request or a run.
UpdateSchedule(i, v, secret) ==
  /\ mem.schedules[i] # Absent
  /\ Mutate(With(i, v, secret))

\* Mutant: a deleted schedule stays in the map as a tombstone.
DeleteScheduleSoftly(i) ==
  /\ mem.schedules[i] # Absent
  /\ Mutate(With(i, "deleted", FALSE))

DeleteSchedule(i) ==
  /\ mem.schedules[i] # Absent
  /\ Mutate(With(i, Absent, FALSE))

\* redactSchedule on the stored object, at the end of POST and PATCH and in GET,
\* without the lock and without a mark.  A save that is going on (marshalling
\* and writing are one point) has read the secret or reads it empty; a torn
\* read of the string ends in Crash.
Redact(i) ==
  /\ process = "up"
  /\ i \in mem.secrets
  /\ mem' = [mem EXCEPT !.secrets = @ \ {i}]
  /\ \/ UNCHANGED tmp
     \/ Locked /\ tmp' = [tmp EXCEPT !.secrets = @ \ {i}]
  /\ redacted' = IF Locked THEN redacted \union {i} ELSE redacted
  /\ UNCHANGED <<disk, dirty, cpc, saver, close, process, failures, used, forgot>>

\* The non-blocking send: a token that is already there stands for this one.
MarkDirty(c) ==
  /\ process = "up"
  /\ cpc[c] = "mark"
  /\ dirty' = TRUE
  /\ cpc' = [cpc EXCEPT ![c] = "idle"]
  /\ UNCHANGED <<mem, tmp, disk, saver, close, process, failures, used, forgot, redacted>>

-----------------------------------------------------------------------------
(* saveLoop *)

SaverGoto(from, to) ==
  /\ process = "up"
  /\ saver = from
  /\ saver' = to

SaverTake ==
  /\ dirty
  /\ dirty' = FALSE
  /\ SaverGoto("select", "drain")
  /\ UNCHANGED <<mem, tmp, disk, cpc, close, process, failures, used, forgot, redacted>>

SaverDrain ==
  /\ dirty
  /\ dirty' = FALSE
  /\ SaverGoto("drain", "drain")
  /\ UNCHANGED <<mem, tmp, disk, cpc, close, process, failures, used, forgot, redacted>>

\* Mutant: the loop goes back to its select instead of on to the save.
SaverDrainedGivesUp ==
  /\ ~dirty
  /\ SaverGoto("drain", "select")
  /\ UNCHANGED <<mem, tmp, disk, dirty, cpc, close, process, failures, used, forgot, redacted>>

SaverDrained ==
  /\ ~dirty
  /\ SaverGoto("drain", "lock")
  /\ UNCHANGED <<mem, tmp, disk, dirty, cpc, close, process, failures, used, forgot, redacted>>

\* RLock; marshalling and the write of the temporary file begin.
SaverLock ==
  /\ tmp' = mem
  /\ redacted' = {}
  /\ SaverGoto("lock", "write")
  /\ UNCHANGED <<mem, disk, dirty, cpc, close, process, failures, used, forgot>>

\* The rename makes the new file visible at once; RUnlock.
SaverRename ==
  /\ disk' = tmp
  /\ forgot' = FALSE
  /\ SaverGoto("write", "select")
  /\ UNCHANGED <<mem, tmp, dirty, cpc, close, process, failures, used, redacted>>

\* The error is ignored and the file is as it was.
SaverFails ==
  /\ failures < MaxFailures
  /\ failures' = failures + 1
  /\ forgot' = TRUE
  /\ SaverGoto("write", "select")
  /\ UNCHANGED <<mem, tmp, disk, dirty, cpc, close, process, used, redacted>>

\* select takes the closed stopCh, also when a token is waiting.
SaverExit ==
  /\ close # "no"
  /\ SaverGoto("select", "exited")
  /\ UNCHANGED <<mem, tmp, disk, dirty, cpc, close, process, failures, used, forgot, redacted>>

-----------------------------------------------------------------------------
(* Close, and the end of the process *)

CloseGoto(from, to) ==
  /\ process = "up"
  /\ close = from
  /\ close' = to

CloseSignal ==
  /\ CloseGoto("no", "signalled")
  /\ UNCHANGED <<mem, tmp, disk, dirty, cpc, saver, process, failures, used, forgot, redacted>>

\* doneCh is closed: the last save begins.
CloseLock ==
  /\ saver = "exited"
  /\ tmp' = mem
  /\ redacted' = {}
  /\ CloseGoto("signalled", "write")
  /\ UNCHANGED <<mem, disk, dirty, cpc, saver, process, failures, used, forgot>>

\* Mutant: Close only waits for the save loop.
CloseWithoutSave ==
  /\ CloseGoto("write", "done")
  /\ UNCHANGED <<mem, tmp, disk, dirty, cpc, saver, process, failures, used, forgot, redacted>>

CloseRename ==
  /\ CloseGoto("write", "done")
  /\ disk' = tmp
  /\ forgot' = FALSE
  /\ UNCHANGED <<mem, tmp, dirty, cpc, saver, process, failures, used, redacted>>

CloseFails ==
  /\ CloseGoto("write", "done")
  /\ failures < MaxFailures
  /\ failures' = failures + 1
  /\ forgot' = TRUE
  /\ UNCHANGED <<mem, tmp, disk, dirty, cpc, saver, process, used, redacted>>

\* main returns.  It never stops the scheduler, so scheduled runs may still
\* change the store between the last save and this.
Exit ==
  /\ process = "up"
  /\ close = "done"
  /\ process' = "exited"
  /\ UNCHANGED <<mem, tmp, disk, dirty, cpc, saver, close, failures, used, forgot, redacted>>

Crash ==
  /\ process = "up"
  /\ process' = "crashed"
  /\ UNCHANGED <<mem, tmp, disk, dirty, cpc, saver, close, failures, used, forgot, redacted>>

\* NewStore loads the file and starts a save loop.
Restart ==
  /\ process \in {"exited", "crashed"}
  /\ process' = "up"
  /\ mem' = disk
  /\ dirty' = FALSE
  /\ cpc' = [c \in Callers |-> "idle"]
  /\ saver' = "select"
  /\ close' = "no"
  /\ forgot' = FALSE
  /\ UNCHANGED <<tmp, disk, failures, used, redacted>>

SaverStep ==
  SaverTake \/ SaverDrain \/ SaverDrained \/ SaverLock \/ SaverRename \/ SaverFails
  \/ SaverExit
CloseStep == CloseLock \/ CloseRename \/ CloseFails

Next ==
  \/ \E c \in Callers :
       \/ \E i \in Ids, v \in Values, secret \in BOOLEAN : AddSchedule(c, i, v, secret)
       \/ LogDelivery(c)
       \/ MarkDirty(c)
  \/ \E i \in Ids, v \in Values, secret \in BOOLEAN : UpdateSchedule(i, v, secret)
  \/ \E i \in Ids : DeleteSchedule(i) \/ Redact(i)
  \/ SaverStep
  \/ CloseSignal \/ CloseStep \/ Exit
  \/ Crash \/ Restart

Spec == Init /\ [][Next]_vars

\* Goroutines that can run do run; a caller that mutated gets to mark.
Fairness ==
  /\ \A c \in Callers : WF_vars(MarkDirty(c))
  /\ WF_vars(SaverStep)
  /\ WF_vars(CloseStep)

FairSpec == Spec /\ Fairness

-----------------------------------------------------------------------------
(* Properties *)

\* Something that a marking mutation wrote is not in the file yet.
Unsaved ==
  \/ mem.logged # disk.logged
  \/ \E i \in Ids : mem.schedules[i] # Absent /\ disk.schedules[i] = Absent

\* A save is on its way: a mark is about to be set, is set, or was taken by a
\* save loop that has not written yet, or Close is going to write.
SavePending ==
  \/ dirty
  \/ \E c \in Callers : cpc[c] = "mark"
  \/ saver \in {"drain", "lock", "write"}
  \/ close \in {"signalled", "write"}

\* No mark is lost between the unlock of a mutator, the one-token channel, the
\* drain loop and the save: as long as saves succeed and Close has not
\* returned, what AddSchedule and LogDelivery wrote is in the file or on its
\* way there (store_api.go:50-81, 86-101, 182-196).
NoMarkLost ==
  process = "up" /\ close # "done" /\ ~forgot /\ Unsaved => SavePending

\* A content is what memory holds, but for secrets of schedules that were
\* redacted while the save was reading them.
IsMemory(content) ==
  /\ content.schedules = mem.schedules
  /\ content.logged = mem.logged
  /\ mem.secrets \subseteq content.secrets
  /\ content.secrets \subseteq mem.secrets \union redacted

\* When Close returns without an error the file holds everything, updates and
\* deletions that nobody marked included, although mutators go on while Close
\* waits for the save loop, and redactions even while it saves
\* (store_api.go:40-46, schedules.go:350-355).
CloseFlushes ==
  [][close # "done" /\ close' = "done" /\ ~forgot' => IsMemory(disk')]_vars

\* Whatever happens to the process, the file is replaced as a whole, and by the
\* content of one instant up to the one field that is written without the lock:
\* a save never mixes two states of anything else, never leaves a part of one,
\* and a secret that it has beyond memory's was redacted under it
\* (store.go:117-137, fsutil.go:22-39, schedules.go:350-355).
FileIsASnapshot == [][disk' # disk => IsMemory(disk') /\ mem' = mem]_vars

\* An added schedule reaches the file, unless it is deleted, a save fails, or
\* the store is closed or the process ends first (store_api.go:50-101).
AddedReachesDisk ==
  \A i \in Ids :
    (process = "up" /\ mem.schedules[i] # Absent)
      ~> \/ disk.schedules[i] # Absent \/ mem.schedules[i] = Absent
         \/ failures > 0 \/ close = "done" \/ process # "up"

\* The store "keeps a debounced async save loop so callers don't pay for JSON
\* marshalling on every mutation" (store_api.go:11-13): every mutation, not
\* only an addition, is saved in the background.  UpdateSchedule and
\* DeleteSchedule never mark the store dirty (store_api.go:112-133).  Secrets,
\* which redactSchedule changes behind the store's back, are left aside.
MutationsReachDisk ==
  (process = "up" /\ mem.schedules # disk.schedules)
    ~> (mem.schedules = disk.schedules \/ close = "done" \/ process # "up")
=============================================================================
