------------------------------ MODULE UserStore -----------------------------
(***************************************************************************)
(* The user store of internal/auth/auth.go: the request counters, the      *)
(* monthly scan quota, and the loop that writes both to the users file.    *)
(*                                                                         *)
(* Every access to a user is one critical section of s.mu, with one        *)
(* exception: save collects pointers under the lock and marshals the users *)
(* after releasing it, field by field, while requests change them.  The    *)
(* file is overwritten in place.  The process may crash at any step.       *)
(***************************************************************************)
EXTENDS Naturals

CONSTANTS
  Keys,         \* API keys; every user has one
  EnvKeys,      \* the keys configured by the environment
  Admins,       \* the keys of admin users
  Absent,       \* no user under this key
  Requests,     \* request goroutines
  Limit,        \* QuotaForTier of every user that is not an admin
  Zone,         \* the server's local time: "UTC", or "ahead" of or "behind" it
  MaxRequests,  \* bound on the requests of one user
  MaxScans,     \* bound on the scans of an admin in one period
  MaxMonth,     \* bound on the months that pass
  MaxFailures   \* bound on the saves that fail

ASSUME UserStoreAssumption ==
  /\ EnvKeys \subseteq Keys
  /\ Limit \in Nat /\ MaxScans \in Nat /\ Limit <= MaxScans
  /\ Zone \in {"UTC", "ahead", "behind"}
  /\ MaxRequests \in Nat
  /\ MaxMonth \in Nat \ {0}
  /\ MaxFailures \in Nat

VARIABLES
  month,     \* the month, in UTC
  edge,      \* local time is in the next (ahead) or still the last (behind) month
  users,     \* s.users
  dirty,     \* s.dirty
  rpc, rkey, \* each request: "idle" or "handle", and its user
  persist,   \* program point of persistLoop
  last,      \* its save is the one that Stop asked for
  stopping,  \* Stop has closed stopCh
  image,     \* what save has marshalled so far
  toRead,    \* the users it has not come to
  reading,   \* the user it has read in part
  disk,      \* the users file
  process,   \* "up", "exited", "crashed", or "refused" to start
  failures,  \* how many saves have failed
  failed,    \* a save has failed and none has succeeded since (history)
  late,      \* a request has changed a user since the last save began (history)
  granted,   \* the scans granted to each user under its MonthReset (history; ends with lost)
  lost       \* a restart has not restored what was in memory (history)

clockVars == <<month, edge>>
requestVars == <<rpc, rkey>>
saveVars == <<persist, last, image, toRead, reading>>
fileVars == <<disk, failures, failed>>
vars == <<clockVars, users, dirty, requestVars, saveVars, stopping, fileVars,
          process, late, granted, lost>>

\* reset is the month at whose start MonthReset is; 0 is the zero time.
User == [requests : 0..MaxRequests, scans : 0..MaxScans, reset : 0..(MaxMonth + 2)]
Fresh == [requests |-> 0, scans |-> 0, reset |-> 0]
UserMap == [Keys -> User \union {Absent}]
NoUsers == [k \in Keys |-> Absent]

ASSUME AbsentAssumption == Absent \notin User

\* "empty" also stands for a file that does not exist; "torn" is cut short.
File(state, content) == [state |-> state, users |-> content]
Files == [state : {"empty", "torn", "whole"}, users : UserMap]

TypeOK ==
  /\ month \in 1..MaxMonth /\ edge \in BOOLEAN
  /\ users \in UserMap
  /\ dirty \in BOOLEAN
  /\ rpc \in [Requests -> {"idle", "handle"}]
  /\ rkey \in [Requests -> Keys \union {Absent}]
  /\ persist \in {"wait", "read", "scans", "reset", "write", "exited"}
  /\ stopping \in BOOLEAN /\ last \in BOOLEAN
  /\ image \in UserMap
  /\ toRead \in SUBSET Keys /\ reading \in SUBSET Keys
  /\ disk \in Files
  /\ process \in {"up", "exited", "crashed", "refused"}
  /\ failures \in 0..MaxFailures
  /\ failed \in BOOLEAN /\ late \in BOOLEAN /\ lost \in BOOLEAN
  /\ granted \in [Keys -> Nat]

\* NewStore: the users of the file, and those of the environment it lacks.
Loaded(file) ==
  [k \in Keys |->
     IF file.state = "whole" /\ file.users[k] # Absent THEN file.users[k]
     ELSE IF k \in EnvKeys THEN Fresh ELSE Absent]

Init ==
  /\ month = 1 /\ edge = FALSE
  /\ disk = File("whole", [k \in Keys |-> IF k \in EnvKeys THEN Absent ELSE Fresh])
  /\ users = Loaded(disk)
  /\ dirty = FALSE
  /\ rpc = [q \in Requests |-> "idle"]
  /\ rkey = [q \in Requests |-> Absent]
  /\ persist = "wait" /\ stopping = FALSE /\ last = FALSE
  /\ image = NoUsers /\ toRead = {} /\ reading = {}
  /\ process = "up"
  /\ failures = 0 /\ failed = FALSE /\ late = FALSE /\ lost = FALSE
  /\ granted = [k \in Keys |-> 0]

-----------------------------------------------------------------------------
(* Requests *)

\* The change of a user's record that ends a critical section, with the scans
\* it grants.
SetUser(k, u, scans) ==
  /\ users' = [users EXCEPT ![k] = u]
  /\ late' = (late \/ (last /\ u # users[k]))
  /\ granted' = [granted EXCEPT ![k] =
                   IF lost THEN 0
                   ELSE (IF u.reset = users[k].reset THEN @ ELSE 0) + scans]

\* Mutant: a counted request does not mark the store dirty.
RecordUsageClean(q, k) ==
  /\ process = "up" /\ rpc[q] = "idle"
  /\ users[k] # Absent
  /\ users[k].requests < MaxRequests
  /\ SetUser(k, [users[k] EXCEPT !.requests = @ + 1], 0)
  /\ rpc' = [rpc EXCEPT ![q] = "handle"]
  /\ rkey' = [rkey EXCEPT ![q] = k]
  /\ UNCHANGED <<clockVars, dirty, saveVars, stopping, fileVars, process, lost>>

\* The middleware has authenticated the user and the rate limiter let the
\* request pass; otherwise nothing is recorded.
RecordUsage(q, k) ==
  /\ process = "up" /\ rpc[q] = "idle"
  /\ users[k] # Absent
  /\ users[k].requests < MaxRequests
  /\ SetUser(k, [users[k] EXCEPT !.requests = @ + 1], 0)
  /\ dirty' = TRUE
  /\ rpc' = [rpc EXCEPT ![q] = "handle"]
  /\ rkey' = [rkey EXCEPT ![q] = k]
  /\ UNCHANGED <<clockVars, saveVars, stopping, fileVars, process, lost>>

LocalMonth == IF ~edge THEN month ELSE IF Zone = "ahead" THEN month + 1 ELSE month - 1

\* Mutant: the date is a year ahead, not a month.
NextMonthStartNextYear == LocalMonth + 12

\* The month after the local one, taken as a date in UTC.
nextMonthStart == LocalMonth + 1

\* maybeResetLocked.  The zero time is past, too.
Elapsed(u) == month >= u.reset
Current(u) ==
  IF Elapsed(u) THEN [u EXCEPT !.scans = 0, !.reset = nextMonthStart] ELSE u

Done(q) ==
  /\ rpc' = [rpc EXCEPT ![q] = "idle"]
  /\ rkey' = [rkey EXCEPT ![q] = Absent]

AtLimitOffByOne(k) == k \notin Admins /\ Current(users[k]).scans > Limit
AtLimit(k) == k \notin Admins /\ Current(users[k]).scans >= Limit

\* CheckAndIncrementQuota reserves a scan ...
ScanGranted(q) ==
  LET k == rkey[q] IN
  /\ process = "up" /\ rpc[q] = "handle"
  /\ ~AtLimit(k)
  /\ Current(users[k]).scans < MaxScans
  /\ SetUser(k, [Current(users[k]) EXCEPT !.scans = @ + 1], 1)
  /\ dirty' = TRUE
  /\ Done(q)
  /\ UNCHANGED <<clockVars, saveVars, stopping, fileVars, process, lost>>

\* A look at the user that may start a new period.
QuotaSeen(q) ==
  LET k == rkey[q] IN
  /\ process = "up" /\ rpc[q] = "handle"
  /\ SetUser(k, Current(users[k]), 0)
  /\ dirty' = (dirty \/ Elapsed(users[k]))
  /\ Done(q)
  /\ UNCHANGED <<clockVars, saveVars, stopping, fileVars, process, lost>>

\* ... or returns ErrQuotaExceeded.
ScanRefused(q) == rpc[q] = "handle" /\ AtLimit(rkey[q]) /\ QuotaSeen(q)

\* Any other request leaves the quota alone.
OtherRequest(q) ==
  /\ process = "up" /\ rpc[q] = "handle"
  /\ Done(q)
  /\ UNCHANGED <<clockVars, users, dirty, saveVars, stopping, fileVars, process, late,
                 granted, lost>>

-----------------------------------------------------------------------------
(* persistLoop *)

SaveBegins(isLast) ==
  /\ persist' = "read"
  /\ last' = isLast
  /\ image' = NoUsers
  /\ toRead' = {k \in Keys : users[k] # Absent}
  /\ reading' = {}

\* The ticker fires; a store that is not dirty is left alone.
PersistTick ==
  /\ process = "up" /\ persist = "wait" /\ dirty
  /\ dirty' = FALSE
  /\ SaveBegins(FALSE)
  /\ UNCHANGED <<clockVars, users, requestVars, stopping, fileVars, process, late,
                 granted, lost>>

\* Mutant: the loop ends without a last save.
PersistStopAtOnce ==
  /\ process = "up" /\ persist = "wait" /\ stopping
  /\ persist' = "exited"
  /\ UNCHANGED <<clockVars, users, dirty, requestVars, last, image, toRead, reading,
                 stopping, fileVars, process, late, granted, lost>>

\* stopCh is closed: the last save, dirty or not.
PersistStop ==
  /\ process = "up" /\ persist = "wait" /\ stopping
  /\ SaveBegins(TRUE)
  /\ UNCHANGED <<clockVars, users, dirty, requestVars, stopping, fileVars, process, late,
                 granted, lost>>

\* json.MarshalIndent, without the lock: of each user RequestCount first ...
ReadRequests(k) ==
  /\ process = "up" /\ persist = "read"
  /\ k \in toRead
  /\ image' = [image EXCEPT ![k] = [Fresh EXCEPT !.requests = users[k].requests]]
  /\ toRead' = toRead \ {k} /\ reading' = {k}
  /\ persist' = "scans"
  /\ UNCHANGED <<clockVars, users, dirty, requestVars, last, stopping, fileVars,
                 process, late, granted, lost>>

\* ... then ScanCount ...
ReadScans(k) ==
  /\ process = "up" /\ persist = "scans"
  /\ k \in reading
  /\ image' = [image EXCEPT ![k].scans = users[k].scans]
  /\ persist' = "reset"
  /\ UNCHANGED <<clockVars, users, dirty, requestVars, last, toRead, reading,
                 stopping, fileVars, process, late, granted, lost>>

\* ... then MonthReset.
ReadReset(k) ==
  /\ process = "up" /\ persist = "reset"
  /\ k \in reading
  /\ image' = [image EXCEPT ![k].reset = users[k].reset]
  /\ reading' = {}
  /\ persist' = "read"
  /\ UNCHANGED <<clockVars, users, dirty, requestVars, last, toRead, stopping,
                 fileVars, process, late, granted, lost>>

\* os.WriteFile truncates the file ...
SaveTruncate ==
  /\ process = "up" /\ persist = "read"
  /\ toRead = {}
  /\ persist' = "write"
  /\ disk' = File("empty", NoUsers)
  /\ UNCHANGED <<clockVars, users, dirty, requestVars, last, image, toRead, reading,
                 stopping, failures, failed, process, late, granted, lost>>

SaveEnds ==
  /\ persist' = IF last THEN "exited" ELSE "wait"
  /\ image' = NoUsers

\* Mutant: dirty is cleared after the save.
SaveWriteClears ==
  /\ process = "up" /\ persist = "write"
  /\ disk' = File("whole", image)
  /\ dirty' = FALSE
  /\ failed' = FALSE
  /\ SaveEnds
  /\ UNCHANGED <<clockVars, users, requestVars, last, toRead, reading, stopping,
                 failures, process, late, granted, lost>>

\* ... and writes it.
SaveWrite ==
  /\ process = "up" /\ persist = "write"
  /\ disk' = File("whole", image)
  /\ failed' = FALSE
  /\ SaveEnds
  /\ UNCHANGED <<clockVars, users, dirty, requestVars, last, toRead, reading,
                 stopping, failures, process, late, granted, lost>>

\* The file cannot be opened, or the disk is full.  The error is ignored.
SaveFails ==
  /\ process = "up"
  /\ \/ persist = "read" /\ toRead = {} /\ disk' = disk
     \/ persist = "write" /\ disk' \in {disk, File("torn", NoUsers)}
  /\ failures < MaxFailures
  /\ failures' = failures + 1
  /\ failed' = TRUE
  /\ SaveEnds
  /\ UNCHANGED <<clockVars, users, dirty, requestVars, last, toRead, reading,
                 stopping, process, late, granted, lost>>

-----------------------------------------------------------------------------
(* Shutdown, crash and restart *)

\* main calls Stop when the HTTP server has shut down or has not within 30
\* seconds: a request that waits for its scan may still be there.
Stop ==
  /\ process = "up" /\ ~stopping
  /\ stopping' = TRUE
  /\ UNCHANGED <<clockVars, users, dirty, requestVars, saveVars, fileVars, process, late,
                 granted, lost>>

\* What ends with the process.  users stays, to see what a restart has lost.
Ends ==
  /\ dirty' = FALSE
  /\ rpc' = [q \in Requests |-> "idle"]
  /\ rkey' = [q \in Requests |-> Absent]
  /\ persist' = "wait" /\ last' = FALSE /\ stopping' = FALSE
  /\ image' = NoUsers /\ toRead' = {} /\ reading' = {}
  /\ failed' = FALSE /\ late' = FALSE
  /\ UNCHANGED <<clockVars, users, failures, granted, lost>>

Exit ==
  /\ process = "up" /\ persist = "exited"
  /\ process' = "exited"
  /\ disk' = disk
  /\ Ends

\* A crash in the middle of the write leaves nothing or a part.
Crash ==
  /\ process = "up"
  /\ process' = "crashed"
  /\ disk' \in IF persist = "write" THEN {disk, File("torn", NoUsers)} ELSE {disk}
  /\ Ends

Restart ==
  /\ process \in {"exited", "crashed"}
  /\ disk.state # "torn"
  /\ process' = "up"
  /\ users' = Loaded(disk)
  /\ lost' = (lost \/ users' # users)
  /\ UNCHANGED <<clockVars, dirty, requestVars, saveVars, stopping, fileVars, late,
                 granted>>

\* A file that cannot be parsed ends the process.
RestartRefused ==
  /\ process \in {"exited", "crashed"}
  /\ disk.state = "torn"
  /\ process' = "refused"
  /\ UNCHANGED <<clockVars, users, dirty, requestVars, saveVars, stopping, fileVars, late,
                 granted, lost>>

-----------------------------------------------------------------------------
(* Time *)

\* Local time enters another month before (ahead) or after (behind) UTC does.
NextLocalMonth ==
  /\ Zone # "UTC" /\ edge = (Zone = "behind")
  /\ edge' = ~edge
  /\ UNCHANGED <<month, users, dirty, requestVars, saveVars, stopping, fileVars, process,
                 late, granted, lost>>

NextMonth ==
  /\ month < MaxMonth
  /\ edge = (Zone = "ahead")
  /\ month' = month + 1
  /\ edge' = (Zone = "behind")
  /\ UNCHANGED <<users, dirty, requestVars, saveVars, stopping, fileVars, process, late,
                 granted, lost>>

-----------------------------------------------------------------------------

RequestStep(q) ==
  \/ \E k \in Keys : RecordUsage(q, k)
  \/ ScanGranted(q) \/ ScanRefused(q) \/ QuotaSeen(q) \/ OtherRequest(q)

PersistStep ==
  \/ PersistTick \/ PersistStop
  \/ \E k \in Keys : ReadRequests(k) \/ ReadScans(k) \/ ReadReset(k)
  \/ SaveTruncate \/ SaveWrite \/ SaveFails

Next ==
  \/ \E q \in Requests : RequestStep(q)
  \/ PersistStep
  \/ Stop \/ Exit \/ Crash \/ Restart \/ RestartRefused
  \/ NextLocalMonth \/ NextMonth

Spec == Init /\ [][Next]_vars

\* The loop's goroutine runs when it can, its ticker fires every 30 seconds,
\* and main returns once Stop has.  Nobody has to send requests or call Stop.
Fairness == WF_vars(PersistStep) /\ WF_vars(Exit)

FairSpec == Spec /\ Fairness

-----------------------------------------------------------------------------
(* Properties *)

\* Until its MonthReset has passed, a user who is not an admin is granted at most
\* as many scans as its tier allows, however its requests interleave with each
\* other and with the clocks, and across restarts that lose nothing
\* (auth.go:307-352).  The period is known by its date, the one Quota shows the
\* client (auth.go:285-305); it is not the calendar month.
PeriodQuotaHolds ==
  ~lost => \A k \in Keys \ Admins :
             users[k] # Absent /\ ~Elapsed(users[k]) => granted[k] <= Limit

\* Persisted(k): the file has the user as it is in memory.
Persisted(k) == disk.state = "whole" /\ disk.users[k] = users[k]

\* A store that is not dirty and not being saved is in the file, but for users
\* of the environment that have not done anything yet: a change made while
\* save marshals without the lock is saved by the next round
\* (auth.go:404-441).
NoUpdateLost ==
  process = "up" /\ persist = "wait" /\ ~dirty /\ ~failed =>
    \A k \in Keys : users[k] # Absent /\ users[k] # Fresh => Persisted(k)

\* When the loop ends after Stop the file has everything, unless a request
\* changed a user during the last save or the save failed (auth.go:422-456).
StopFlushes ==
  [][persist # "exited" /\ persist' = "exited" /\ ~late' /\ ~failed'
       => \A k \in Keys : users[k] # Absent => Persisted(k)']_vars

\* A counted request is in the file sooner or later, unless a save fails or
\* the process ends first (auth.go:261-272, 422-441).
UsageReachesDisk ==
  \A k \in Keys : \A n \in 1..MaxRequests :
    (process = "up" /\ users[k] # Absent /\ users[k].requests = n)
      ~> \/ disk.state = "whole" /\ disk.users[k] # Absent /\ disk.users[k].requests >= n
         \/ failures > 0 \/ process # "up"
=============================================================================
