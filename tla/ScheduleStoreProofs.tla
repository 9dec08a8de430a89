------------------------ MODULE ScheduleStoreProofs -------------------------
(***************************************************************************)
(* The safety properties of ScheduleStore for any ids, values and callers. *)
(* What makes them inductive is the lock: while a save is between its      *)
(* marshalling and its rename, what was marshalled is what is in memory,   *)
(* but for the secrets that are redacted without the lock meanwhile.       *)
(***************************************************************************)
EXTENDS ScheduleStore, TLAPS

\* save holds the read lock from the marshalling on.
MarshalledIsCurrent == Locked => IsMemory(tmp)

StoreInv == TypeOK /\ MarshalledIsCurrent /\ NoMarkLost

-----------------------------------------------------------------------------
(* Typing *)

LEMMA EmptyContentTyped == EmptyContent \in Content
BY StoreAssumption DEF StoreAssumption, EmptyContent, Content

LEMMA ScheduleSet ==
  ASSUME mem \in Content, NEW i \in Ids, NEW v \in Values \union {Absent},
         NEW secret \in BOOLEAN
  PROVE  LET new == With(i, v, secret)
         IN  /\ new \in Content
             /\ new.logged = mem.logged
             /\ new.schedules[i] = v
             /\ \A k \in Ids \ {i} : new.schedules[k] = mem.schedules[k]
BY DEF Content, With

LEMMA RecordLogged ==
  ASSUME mem \in Content, mem.logged < MaxLogged
  PROVE  [mem EXCEPT !.logged = @ + 1] \in Content
BY StoreAssumption DEF StoreAssumption, Content

LEMMA StoreInvInit == Init => StoreInv
<1> SUFFICES ASSUME Init PROVE StoreInv
  OBVIOUS
<1>1. TypeOK
  <2>1. dirty \in BOOLEAN /\ forgot \in BOOLEAN
    BY Zenon DEF Init
  <2> QED
    BY <2>1, EmptyContentTyped, StoreAssumption DEF Init, TypeOK, StoreAssumption
<1>2. MarshalledIsCurrent /\ NoMarkLost
  BY DEF Init, MarshalledIsCurrent, Locked, NoMarkLost, Unsaved
<1> QED
  BY <1>1, <1>2 DEF StoreInv

-----------------------------------------------------------------------------
(* Mutators *)

\* A mutation that marks: the caller owes the mark.
LEMMA MarkingKeepsInv ==
  ASSUME StoreInv, NEW c \in Callers, NEW content \in Content,
         MutateAndMark(c, content), used' \in SUBSET Ids
  PROVE  StoreInv'
<1>1. TypeOK'
  BY DEF StoreInv, TypeOK, MutateAndMark
<1>2. MarshalledIsCurrent'
  BY DEF MutateAndMark, MarshalledIsCurrent, Locked
<1>3. cpc'[c] = "mark"
  BY DEF MutateAndMark, StoreInv, TypeOK
<1>4. NoMarkLost'
  BY <1>3 DEF NoMarkLost, SavePending
<1> QED
  BY <1>1, <1>2, <1>4 DEF StoreInv

\* A mutation that does not mark adds nothing that a mark would stand for.
LEMMA SilentMutationKeepsInv ==
  ASSUME StoreInv, NEW i \in Ids, NEW v \in Values \union {Absent},
         NEW secret \in BOOLEAN, mem.schedules[i] # Absent, Mutate(With(i, v, secret))
  PROVE  StoreInv'
<1>1. mem \in Content
  BY DEF StoreInv, TypeOK
<1>2. /\ mem' \in Content /\ mem'.logged = mem.logged
      /\ \A k \in Ids \ {i} : mem'.schedules[k] = mem.schedules[k]
  BY <1>1, ScheduleSet DEF Mutate
<1>3. TypeOK'
  BY <1>2 DEF StoreInv, TypeOK, Mutate
<1>4. MarshalledIsCurrent'
  BY DEF Mutate, MarshalledIsCurrent, Locked
<1>5. Unsaved' => Unsaved
  BY <1>2 DEF Unsaved, Mutate
<1>6. NoMarkLost'
  BY <1>5 DEF NoMarkLost, SavePending, StoreInv, Mutate
<1> QED
  BY <1>3, <1>4, <1>6 DEF StoreInv

\* A redaction changes no schedule but its secret, and what a save has marshalled
\* stays what memory holds up to the redactions.
LEMMA RedactKeepsInv ==
  ASSUME StoreInv, NEW i \in Ids, Redact(i)
  PROVE  StoreInv'
<1>1. mem \in Content /\ tmp \in Content /\ redacted \in SUBSET Ids
  BY DEF StoreInv, TypeOK
<1>2. /\ mem' \in Content
      /\ mem'.schedules = mem.schedules /\ mem'.logged = mem.logged
      /\ mem'.secrets = mem.secrets \ {i}
  BY <1>1 DEF Redact, Content
<1>3. /\ tmp' \in Content
      /\ tmp'.schedules = tmp.schedules /\ tmp'.logged = tmp.logged
      /\ tmp'.secrets = tmp.secrets \/ tmp'.secrets = tmp.secrets \ {i}
  BY <1>1 DEF Redact, Content
<1>4. TypeOK'
  <2>1. redacted' \in SUBSET Ids
    BY <1>1 DEF Redact
  <2>2. dirty' \in BOOLEAN /\ forgot' \in BOOLEAN
    BY Zenon DEF Redact, StoreInv, TypeOK
  <2> QED
    BY <1>2, <1>3, <2>1, <2>2 DEF StoreInv, TypeOK, Redact
<1>5. MarshalledIsCurrent'
  <2> SUFFICES ASSUME Locked' PROVE IsMemory(tmp)'
    BY DEF MarshalledIsCurrent
  <2>1. Locked /\ redacted' = redacted \union {i}
    BY DEF Locked, Redact
  <2>2. IsMemory(tmp)
    BY <2>1 DEF StoreInv, MarshalledIsCurrent
  <2> QED
    BY <1>2, <1>3, <2>1, <2>2 DEF IsMemory
<1>6. Unsaved' => Unsaved
  BY <1>2 DEF Unsaved, Redact
<1>7. NoMarkLost'
  BY <1>6 DEF NoMarkLost, SavePending, StoreInv, Redact
<1> QED
  BY <1>4, <1>5, <1>7 DEF StoreInv

LEMMA AddScheduleKeepsInv ==
  ASSUME StoreInv, NEW c \in Callers, NEW i \in Ids, NEW v \in Values,
         NEW secret \in BOOLEAN, AddSchedule(c, i, v, secret)
  PROVE  StoreInv'
<1>1. With(i, v, secret) \in Content
  BY ScheduleSet DEF StoreInv, TypeOK
<1>2. used' \in SUBSET Ids
  BY DEF AddSchedule, StoreInv, TypeOK
<1> QED
  BY <1>1, <1>2, MarkingKeepsInv DEF AddSchedule

LEMMA LogDeliveryKeepsInv ==
  ASSUME StoreInv, NEW c \in Callers, LogDelivery(c)
  PROVE  StoreInv'
<1>1. mem \in Content /\ used \in SUBSET Ids
  BY DEF StoreInv, TypeOK
<1>2. [mem EXCEPT !.logged = @ + 1] \in Content
  BY <1>1, RecordLogged DEF LogDelivery
<1> QED
  BY <1>1, <1>2, MarkingKeepsInv DEF LogDelivery

LEMMA MarkDirtyKeepsInv ==
  ASSUME StoreInv, NEW c \in Callers, MarkDirty(c)
  PROVE  StoreInv'
<1>1. dirty' = TRUE
  BY DEF MarkDirty
<1>2. dirty' \in BOOLEAN /\ forgot' \in BOOLEAN
  BY <1>1, Zenon DEF MarkDirty, StoreInv, TypeOK
<1>3. TypeOK'
  BY <1>2 DEF StoreInv, TypeOK, MarkDirty
<1>4. MarshalledIsCurrent' /\ NoMarkLost'
  BY <1>1 DEF MarkDirty, StoreInv, MarshalledIsCurrent, IsMemory, Locked, NoMarkLost, SavePending
<1> QED
  BY <1>3, <1>4 DEF StoreInv

-----------------------------------------------------------------------------
(* saveLoop and Close *)

\* A step of the save loop or of Close on its way to the write, or past it: a
\* save stays pending.
LEMMA SaverOnItsWay ==
  ASSUME StoreInv,
         SaverTake \/ SaverDrain \/ SaverDrained \/ SaverLock \/ SaverExit
           \/ CloseSignal \/ CloseLock
  PROVE  StoreInv'
<1>1. /\ UNCHANGED <<mem, disk, cpc, process, failures, used, forgot>>
      /\ tmp' \in {tmp, mem}
      /\ redacted' \in {redacted, {}}
      /\ saver' \in {"drain", "lock", "write", "exited", saver}
      /\ close' \in {"signalled", "write", close}
  BY DEF SaverTake, SaverDrain, SaverDrained, SaverLock, SaverExit, CloseSignal,
         CloseLock, SaverGoto, CloseGoto
<1>2. dirty' \in BOOLEAN
  <2>1. dirty' = FALSE \/ dirty' = dirty
    BY DEF SaverTake, SaverDrain, SaverDrained, SaverLock, SaverExit, CloseSignal, CloseLock
  <2> QED
    BY <2>1, Zenon DEF StoreInv, TypeOK
<1>3. TypeOK'
  BY <1>1, <1>2 DEF StoreInv, TypeOK
<1>4. MarshalledIsCurrent'
  BY DEF SaverTake, SaverDrain, SaverDrained, SaverLock, SaverExit, CloseSignal,
         CloseLock, SaverGoto, CloseGoto, StoreInv, MarshalledIsCurrent, IsMemory, Locked
<1>5. close' # "done" => SavePending'
  BY DEF SaverTake, SaverDrain, SaverDrained, SaverLock, SaverExit, CloseSignal,
         CloseLock, SaverGoto, CloseGoto, SavePending, StoreInv, TypeOK
<1>6. NoMarkLost'
  BY <1>5 DEF NoMarkLost
<1> QED
  BY <1>3, <1>4, <1>6 DEF StoreInv

\* The rename makes the file what memory is, up to redactions under the save.
LEMMA RenameWritesMemory ==
  ASSUME StoreInv, SaverRename \/ CloseRename
  PROVE  disk' = tmp /\ IsMemory(disk') /\ mem' = mem
BY DEF SaverRename, CloseRename, SaverGoto, CloseGoto, StoreInv, MarshalledIsCurrent, Locked

LEMMA RenameKeepsInv ==
  ASSUME StoreInv, SaverRename \/ CloseRename
  PROVE  StoreInv'
<1>1. forgot' \in BOOLEAN /\ dirty' \in BOOLEAN
  BY Zenon DEF SaverRename, CloseRename, StoreInv, TypeOK
<1>2. TypeOK'
  BY <1>1, RenameWritesMemory
  DEF StoreInv, TypeOK, SaverRename, CloseRename, SaverGoto, CloseGoto
<1>3. MarshalledIsCurrent'
  BY DEF SaverRename, CloseRename, SaverGoto, CloseGoto, StoreInv, MarshalledIsCurrent,
         IsMemory, Locked
<1>4. ~Unsaved'
  BY RenameWritesMemory DEF Unsaved, IsMemory
<1>5. NoMarkLost'
  BY <1>4 DEF NoMarkLost
<1> QED
  BY <1>2, <1>3, <1>5 DEF StoreInv

LEMMA FailureKeepsInv ==
  ASSUME StoreInv, SaverFails \/ CloseFails
  PROVE  StoreInv'
<1>1. forgot' = TRUE
  BY DEF SaverFails, CloseFails
<1>2. forgot' \in BOOLEAN /\ dirty' \in BOOLEAN
  BY <1>1, Zenon DEF SaverFails, CloseFails, StoreInv, TypeOK
<1>3. failures' \in 0..MaxFailures
  BY StoreAssumption DEF SaverFails, CloseFails, StoreInv, TypeOK, StoreAssumption
<1>4. TypeOK'
  BY <1>2, <1>3 DEF StoreInv, TypeOK, SaverFails, CloseFails, SaverGoto, CloseGoto
<1>5. MarshalledIsCurrent' /\ NoMarkLost'
  BY <1>1 DEF SaverFails, CloseFails, SaverGoto, CloseGoto, StoreInv, MarshalledIsCurrent,
              IsMemory, Locked, NoMarkLost
<1> QED
  BY <1>4, <1>5 DEF StoreInv

-----------------------------------------------------------------------------
(* The process, and the step *)

LEMMA EndKeepsInv ==
  ASSUME StoreInv, Exit \/ Crash
  PROVE  StoreInv'
<1>1. /\ UNCHANGED <<mem, tmp, disk, dirty, cpc, saver, close, failures, used, forgot,
                   redacted>>
      /\ process' \in {"exited", "crashed"}
  BY DEF Exit, Crash
<1>2. TypeOK'
  BY <1>1 DEF StoreInv, TypeOK
<1> QED
  BY <1>1, <1>2 DEF StoreInv, MarshalledIsCurrent, IsMemory, Locked, NoMarkLost

LEMMA RestartKeepsInv ==
  ASSUME StoreInv, Restart
  PROVE  StoreInv'
<1>1. dirty' \in BOOLEAN /\ forgot' \in BOOLEAN
  BY Zenon DEF Restart
<1>2. TypeOK'
  BY <1>1 DEF StoreInv, TypeOK, Restart
<1>3. ~Unsaved' /\ ~Locked'
  BY DEF Restart, Unsaved, Locked
<1> QED
  BY <1>2, <1>3 DEF StoreInv, MarshalledIsCurrent, NoMarkLost

LEMMA StoreInvNext == StoreInv /\ [Next]_vars => StoreInv'
<1> SUFFICES ASSUME StoreInv, [Next]_vars PROVE StoreInv'
  OBVIOUS
<1>1. ASSUME NEW c \in Callers, NEW i \in Ids, NEW v \in Values, NEW secret \in BOOLEAN,
             AddSchedule(c, i, v, secret)
      PROVE  StoreInv'
  BY <1>1, AddScheduleKeepsInv
<1>2. ASSUME NEW c \in Callers, LogDelivery(c) \/ MarkDirty(c)
      PROVE  StoreInv'
  BY <1>2, LogDeliveryKeepsInv, MarkDirtyKeepsInv
<1>3. ASSUME NEW i \in Ids, NEW v \in Values, NEW secret \in BOOLEAN,
             UpdateSchedule(i, v, secret)
      PROVE  StoreInv'
  BY <1>3, SilentMutationKeepsInv DEF UpdateSchedule
<1>4. ASSUME NEW i \in Ids, DeleteSchedule(i) \/ Redact(i)
      PROVE  StoreInv'
  BY <1>4, SilentMutationKeepsInv, RedactKeepsInv DEF DeleteSchedule
<1>5. CASE SaverStep
  BY <1>5, SaverOnItsWay, RenameKeepsInv, FailureKeepsInv DEF SaverStep
<1>6. CASE CloseSignal \/ CloseStep
  BY <1>6, SaverOnItsWay, RenameKeepsInv, FailureKeepsInv DEF CloseStep
<1>7. CASE Exit \/ Crash
  BY <1>7, EndKeepsInv
<1>8. CASE Restart
  BY <1>8, RestartKeepsInv
<1>9. CASE UNCHANGED vars
  BY <1>9 DEF StoreInv, TypeOK, MarshalledIsCurrent, IsMemory, Locked, NoMarkLost, Unsaved,
              SavePending, vars
<1> QED
  BY <1>1, <1>2, <1>3, <1>4, <1>5, <1>6, <1>7, <1>8, <1>9 DEF Next

LEMMA StoreInvHolds == Spec => []StoreInv
BY StoreInvInit, StoreInvNext, PTL DEF Spec

-----------------------------------------------------------------------------
(* The properties *)

\* Every variable keeps its type; a count of log records or failures stays within
\* its bound.
THEOREM StoreTypeCorrect == Spec => []TypeOK
<1>1. StoreInv => TypeOK
  BY DEF StoreInv
<1> QED
  BY <1>1, StoreInvHolds, PTL

\* What AddSchedule and LogDelivery wrote is in the file or on its way there, as
\* long as saves succeed (store_api.go:50-101, 182-196).
THEOREM NoMarkIsLost == Spec => []NoMarkLost
<1>1. StoreInv => NoMarkLost
  BY DEF StoreInv
<1> QED
  BY <1>1, StoreInvHolds, PTL

\* The steps that write the file are the renames.
LEMMA OnlyRenamesWrite ==
  ASSUME StoreInv, [Next]_vars, disk' # disk
  PROVE  SaverRename \/ CloseRename
BY DEF Next, AddSchedule, LogDelivery, MutateAndMark, UpdateSchedule, DeleteSchedule, Mutate,
       Redact, MarkDirty, SaverStep, SaverTake, SaverDrain, SaverDrained, SaverLock, SaverFails,
       SaverExit, CloseSignal, CloseStep, CloseLock, CloseFails, Exit, Crash, Restart, vars

\* A save replaces the file as a whole by what memory holds, up to secrets that
\* are redacted without the lock while it reads them, also when the process ends
\* at any point (store.go:117-137, fsutil.go:22-39, schedules.go:350-355).
THEOREM FileIsAlwaysASnapshot == Spec => FileIsASnapshot
<1>1. StoreInv /\ [Next]_vars => [disk' # disk => IsMemory(disk') /\ mem' = mem]_vars
  BY OnlyRenamesWrite, RenameWritesMemory
<1> QED
  BY <1>1, StoreInvHolds, PTL DEF Spec, FileIsASnapshot

\* Close returns with everything in the file, up to secrets redacted during its
\* save, unless the save failed (store_api.go:40-46).
THEOREM CloseAlwaysFlushes == Spec => CloseFlushes
<1>1. ASSUME StoreInv, [Next]_vars, close # "done", close' = "done", ~forgot'
      PROVE  IsMemory(disk')
  <2>1. CloseRename \/ CloseFails
    BY <1>1
    DEF Next, AddSchedule, LogDelivery, MutateAndMark, UpdateSchedule, DeleteSchedule, Mutate,
        Redact, MarkDirty, SaverStep, SaverTake, SaverDrain, SaverDrained, SaverLock, SaverRename,
        SaverFails, SaverExit, CloseSignal, CloseStep, CloseLock, CloseGoto, Exit, Crash,
        Restart, vars
  <2>2. ~CloseFails
    BY <1>1 DEF CloseFails
  <2> QED
    BY <1>1, <2>1, <2>2, RenameWritesMemory
<1>2. StoreInv /\ [Next]_vars =>
        [close # "done" /\ close' = "done" /\ ~forgot' => IsMemory(disk')]_vars
  BY <1>1
<1> QED
  BY <1>2, StoreInvHolds, PTL DEF Spec, CloseFlushes
=============================================================================
