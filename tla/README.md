# A TLA+ verification of stackly

stackly is a Go server that opens a web page in a headless browser, detects the
technologies it uses, and offers that as an HTTP API with background jobs, live
progress over WebSocket, scheduled re-scans with webhooks, API keys with quotas,
a result cache and report export. This directory models the parts of it in which
goroutines share state, checks them with TLC and proves the central invariants
with TLAPS.

`PROJECT.json` has the details that change with every edit: which definition
stands for which lines (`map`), the runs, a mutant for every checked property, the
findings and the hazards. This file explains the whole.

## The system

| Part | Source | State | Operations |
|---|---|---|---|
| Scan job queue | `internal/queue/queue.go` | `jobs` map (at most 1000), `pending` channel (100), workers, `stopCh` | `Enqueue`, `worker`/`processJob`, `cleanupLocked` by ticker or by `Enqueue`, `Stop` |
| Page scan | `internal/scanner` | one browser context and one result per scan, shared by up to five goroutines | `ScanURL`: `detect`, `ExtractEmails`, `crawlForEmails`, `enrichResult`; progress through a callback |
| Progress hub | `internal/ws/hub.go`, `handler.go` | per job: subscribers, replay buffer; per connection: `Send` channel | `Publish`, `Subscribe`, `Unsubscribe`, the connection handler's select |
| Schedule store | `internal/scheduler/store*.go`, `internal/fsutil` | maps of schedules and deliveries, `dirtyCh` (one token), JSON file | `AddSchedule`, `UpdateSchedule`, `DeleteSchedule`, `LogDelivery`, `saveLoop`, `Close`, load |
| Scheduler | `internal/scheduler/scheduler.go` | `inflight`, `dispatchSem` (10 slots), `stopCh` | `tick`, `runOne`, `dispatchWebhook` (3 attempts), `Stop` |
| Schedule API | `internal/api/schedules.go` | none of its own; keeps pointers into the store | POST, GET, PATCH, DELETE, `POST .../run` |
| Users, quota, rate limit | `internal/auth` | users, monthly counters, token buckets, user file | `Middleware` with `RecordUsage`, `CheckAndIncrementQuota`, `Quota`, `allow`, `persistLoop`, `save`, `Stop` |
| Result cache | `internal/cache` | entries with expiry, counters, cache file | `Get`, `Set`, evict, `Clear`, save and load |
| Scan API | `internal/api/server.go`, `quota.go` | none of its own | `handleScan`, `waitForJob`, `handleResults`, readers |
| Reports, fingerprints, metrics, CLI, web page, extension | the remaining directories | none shared, or read-only, or never read back | formatting, look-ups, counters |

How the parts interact. A request to scan goes from the API through the quota to
`Enqueue`; a worker receives the job from the channel, asks the cache, scans and
publishes every step to the hub, which fans it out to the connections of that
job. Clients poll `GetJob` or listen. Independently the scheduler's ticker starts
one goroutine per due schedule, which scans on its own (it does not use the
queue), and starts a webhook delivery. The schedule API changes the same schedule
objects at any time: `GetSchedule` and `AddSchedule` hand out the stored pointer.

What is hard in this code:

- *interleavings*: several workers on one channel, cleanup from two places,
  `Publish` sending after it has unlocked, mutators marking after they have
  unlocked, a ticker that looks at `inflight` while runs leave it;
- *limits*: a map and a channel of different size, replay and send buffers that
  drop from different ends, dispatch slots held while a run is in flight;
- *order*: terminal events before statuses, replay before live events;
- *unlocked reads and writes*: handlers read a job's fields through a pointer while
  a worker writes them, two goroutines append to one slice;
- *failure*: a crash in a save, a save that fails, a delivery or a query that times out;
- *shutdown*: `Stop` and `Close` while handlers, workers and saves go on;
- *liveness*: queued jobs, due schedules and streams that must end.

`hazards` in `PROJECT.json` lists each of them at its line with the properties that
would catch it, or with the reason why none does: in several places the code itself
lets the hazard happen, and the observations below say so.

## The modules

| Module | Models | Used by |
|---|---|---|
| `JobQueue` | queue.go, and the control flow of `ScanURL` with its progress events | `MCJobQueue`, `JobQueueProofs` |
| `ScanBoard` | the abstract promise of the queue | refined by `JobQueue` |
| `JobQueueProofs` | proofs about `JobQueue` | |
| `Hub` | hub.go and handler.go, for one job | `MCHub`, `HubProofs` |
| `HubProofs` | proofs about `Hub` | |
| `ScheduleStore` | store.go, store_api.go, `WriteFileAtomic`, `redactSchedule`, the store's part of shutdown | `MCScheduleStore`, `ScheduleStoreProofs` |
| `ScheduleStoreProofs` | proofs about `ScheduleStore` | |
| `Scheduler` | scheduler.go and the handlers of schedules.go | `MCScheduler`, `SchedulerProofs` |
| `SchedulerProofs` | proofs about `Scheduler` | |
| `UserStore` | the user store, the monthly quota and their persistence in auth.go | `MCUserStore`, `UserStoreProofs` |
| `UserStoreProofs` | proofs about `UserStore` | |
| `ResultCache` | cache.go with the workers that use it | `MCResultCache`, `ResultCacheProofs` |
| `ResultCacheProofs` | proofs about `ResultCache` | |
| `RateLimiter` | authentication and the token buckets of auth.go | extended by `ScanApi` |
| `ScanApi` | the middleware, `handleScan`, `waitForJob`, `handleResults`, `handleReports`, over the queue that `ScanBoard` promises | `MCScanApi`, `ScanApiProofs` |
| `ScanApiProofs` | proofs about `RateLimiter` and `ScanApi` | |
| `PageAnalysis` | `detect`, `GetImplied`, `FindContactPages`, `ExtractEmails` as operators, and reference definitions | extended by `PageScan` |
| `PageScan` | one call of `ScanURL` with its goroutines | `MCPageScan`, `PageScanProofs` |
| `PageScanProofs` | proofs about `PageAnalysis` and `PageScan` | |

The grain of atomicity is the same everywhere: a critical section of a mutex is
one action, a channel operation is one action, and everything that happens
outside a lock is a step of its own, at a program point kept in a variable
(`wpc`, `hpc`, `cpc`, `saver`, `close`, `rpc`, `dpc`, `save`, `point`, `gpc`).

**JobQueue.** `jobs` is the key set of the map; `status` and `createdAt` also keep
jobs that were evicted, because a worker holds a pointer to its job. `processJob`
takes the lock twice and publishes up to seven times, so it is a chain of
actions: `WorkerReceive`, `WorkerStart` (marks running), `AnnounceRunning`,
`CacheHit`/`CacheMiss`, the progress events of the scan, `PublishFailed` or
`PublishCompleted`, and `Finish...`. A scan may fail in the browser (`ScanFails`), and
returns without the last events when it does not search or find e-mail addresses
(`ScanReturns`). `Enqueue` is
`EnqueueAccepted`, `EnqueueRejected` and, once `Stop` has closed the channel,
`EnqueueAfterStop`, whose send panics with the job already in the map. Eviction
takes an oldest finished job; where two are equally old Go's sort may put either
first, and so may the model. `Stop` is three actions: close `stopCh`, close
`pending`, and the return from `wg.Wait`.

**Hub.** The maps are per job and jobs share nothing but the mutex, so the module
is the slice of one job. `PublishRecord` is the critical section and leaves the
snapshot `recipients`; `PublishSend` sends to one of them, drops the event if the
buffer is full, and crashes the process if the channel is closed, which `CloseSend`
may have done in between. `Subscribe` copies the replay buffer; `Unsubscribe` by
the last subscriber deletes it.

**ScheduleStore.** `mem` and `disk` are contents; `tmp` is what was marshalled. A
save holds the read lock from marshalling to rename (`SaverLock`, `SaverRename`), so
`Locked` keeps mutators out. One writer does not take the lock: `redactSchedule`
empties the secret of a stored schedule (`Redact`). While a save is marshalling, the
content being written may or may not get the empty field, so `Redact` chooses, and
`redacted` remembers which secrets it is about. `AddSchedule` and `LogDelivery` leave
their caller at point `mark`, between its unlock and `markDirty`. `Close` may run at any
time and mutators may go on meanwhile, as handlers can during shutdown. `Crash` is
possible at every step and `Restart` loads the file.

**Scheduler.** `sched` holds the objects, deleted ones too, since a run that
already has the pointer goes on using it. The ticker's snapshot `due` is stale by
the time it is used. `RunStart` reads the clock and the interval, `RunAdvance` writes
the date later under the lock, and both may be separated by a `Patch`, `RunNow` or
`Delete`. `Redact` is `redactSchedule` on the stored object: the end of POST and PATCH
and the whole of GET. A delivery reads the URL again at validation and at every
attempt, so a `Patch` in between shows. The result of a scan, the payload and the
signature's bytes are left out. `asked` is a history variable: a run was requested
and no scan has begun since.

**UserStore.** `users` maps a key to its counters and the month at whose start they
are reset. Every handler is a critical section of `s.mu`: `RecordUsage` in the
middleware, then `ScanGranted`, `ScanRefused`, `QuotaSeen` or neither in the handler. The
months pass in UTC and, a little earlier or later, in local time (`edge`), because
`maybeResetLocked` compares with the one and `nextMonthStart` reads the other. `save`
holds the lock only while it collects pointers, so its marshalling is a sequence of
reads, one for each field of each user (`ReadRequests`, `ReadScans`, `ReadReset`), between
which requests go on, and the file may have a scan without its request;
`os.WriteFile` truncates and then writes, and a crash in between leaves an empty or
a torn file, with which `NewStore` starts afresh or refuses to start. `granted` and
`lost` are history variables: the scans granted to a user since its reset date was
set, and whether a restart has come back with other users than there were. The rate limiter's answer is a
free choice here; `RateLimiter` has it.

**ResultCache.** `entries` and `disk` map a page to an entry; the key of a URL drops
its trailing slashes (`urlKey`). A worker is idle, scans, or is inside `Set`. `Set` and
`Clear` hold the lock while they save, so from `PersistMarshal` to the end of the write
nobody else comes in, but a crash does: `os.WriteFile` truncates first, and `load`
ignores a file that does not parse, so a truncated file is an empty one. Where two
entries are equally old Go's map order decides which is evicted, and the model
takes either. History variables say how old the last hit was (`age`), how many times
the cache was cleared, and which of the clears has reached the file.

**RateLimiter.** `authenticate` takes the first valid credential of a request, and the
bucket is the user's or, without one, the address's. The code's floating-point
tokens are counted in fractions of `1/Window`, which makes a refill a whole number.
A JWT may come with another tier than the one before, so the rate is an argument of
every request. `since` is a history variable: how many requests of a client were
admitted at or after each time.

**ScanApi.** A request goes through `Unauthorized`, `RateLimited` or `Admitted`, then, by
its kind, through the quota and `Enqueue` or through `GetJob`. `listed` and `status`
change only by actions of `ScanBoard`, which `JobQueue` is proved to implement.
`GetJob` returns a pointer, so the handlers read status and result at separate steps,
without the lock, while `StoreStatus` and `StoreResult` write them under it
(`storing`). `waitForJob` is a loop of `Poll` and `Peek` that may time out; the `GetJob`
after it (`Again`) finds the job, or nil if it was forgotten meanwhile (`ReadNil`). Left
out are answers that no property tells apart: 405 for another method, 400 for a
request without an id, and the 500 of `serveReportPDF` when the PDF cannot be made.

**PageAnalysis and PageScan.** Text is abstracted to what is compared: what a rule looks
at is the set of patterns it contains, a link is the page it leads to and the tests
it passes, addresses are numbers in alphabetical order. The loops of the code are
folds, the exchange sort of the contact pages included (`ExchangePass` is its inner
loop), and `sort.Strings` is `Sorted`; `ImpliedIsExact` and `ContactPagesAreBest` say what
they are for. `PageScan` is the control of one scan. `mergeUnique` looks the address up and then
appends; the append reads the slice and stores it, and the store takes two steps
because a slice is three words. `torn` records that another goroutine accessed the
slice between them: what the list holds after that is not defined, and no property
speaks of it. Each DNS query
walks through the endpoints and sends exactly one result to a channel with room for
all of them.

## What the runs check

Passing runs:

- `jobqueue`: three submissions, two workers, a map of two and a channel of one,
  clock up to 2, symmetric in jobs and workers. The map is bounded; every job has
  one owner and its status says where it is; only results are forgotten; an
  `ErrQueueFull` means that nothing could be evicted; the events of a job are in
  order, an announced outcome is the one the job then has for ever, and no job fails
  without being announced; the queue implements `ScanBoard`.
- `jobqueue_live`: two jobs and two workers under fairness. Jobs in the channel and
  jobs started finish, and `Stop` returns.
- `hub`: two connections, three events, buffers of two. Neither the replay buffer nor a
  channel ever holds more than its size; a stream without drops is a
  contiguous run of events up to the newest; late joiners get what they are owed
  as long as no subscriber has left; streams end.
- `schedule_store`: two schedules, two mutators, redactions at any time, one save that
  may fail, crashes. No mark is lost; the file is always the content of one instant,
  but for secrets that were redacted under the save; `Close` writes everything; an
  added schedule reaches the file.
- `scheduler`: one schedule whose next run may wait for the slot of its last delivery,
  two attempts, clock up to 2, under fairness. `inflight` is exactly what runs, no slot
  leaks, a due schedule is run, and a requested run of an enabled schedule happens.
- `user_store`: a user with two requests at a time and a limit of one scan, over
  the end of a month on a server behind UTC, with one save that may fail, crashes
  and restarts. Until the user's `MonthReset` has passed no more scans are granted than
  the limit (`PeriodQuotaHolds`; it holds for `Zone = "UTC"` and `"ahead"` as well); a store
  that is not dirty is in the file although `save` marshals without the lock; the last
  save of `Stop` writes everything; a counted request reaches the file.
- `result_cache`: two workers and two pages for a cache of one, a time to live of 2
  and a clock up to 4, one clear, one save that may fail, crashes and restarts. The
  cache and its file are bounded; a hit is no older than the time to live and one
  scan; what was cleared stays cleared once a save has succeeded; between saves the
  file and the memory have the same valid entries.
- `scan_api`: two requests of a user with a quota of one, of a JWT or of an address,
  one request per window of two ticks, a queue for one job. In every span of time a
  client is let through at most one burst and what its rate brings; an answer
  after a wait is whole; every scan is counted before it is submitted.
- `page_scan`: sixteen pages that differ in what they show and one that has to be
  crawled, every list of at most four of seven links, three contact pages of which two
  are tried, a cap of two addresses, two record types with two endpoints. Implied
  technologies and contact pages are what the reference definitions say; when the
  scan returns its goroutines have ended, every part has an answer or an error and
  DNS an error only if no type was answered; the scan ends.

Runs in which TLC finds a counterexample (`findings` quotes the lines):

- `publish_never_panics`: `Publish` may send on a channel that `Unsubscribe` has closed.
- `mutations_reach_disk`: updates and deletions do not mark the store dirty.
- `deliveries_are_signed`: redacting the answer empties the stored secret.

### Observations

Behaviour of the code, all of it in the models, that disagrees with a comment or would
surprise a reader. The properties are stated so that they do not depend on it; none of
them says that it is right.

- A job that is accepted while the channel is full is in the map and never sent
  again, although `queue.go:388` has an error for a queue at capacity.
  `QueuedJobsFinish` is about jobs in the channel.
- A cache hit ends a job without a terminal event (`queue.go:239-253`), so its listeners
  wait until their timer ends the stream. `queue.go:262` has "Tell subscribers the
  scan finished (success or fail)", and `hub.go:3-5` says that clients get events until
  the job is in a terminal state. `AnnouncedOutcomeIsFinal` is about what is announced.
- After `Stop` has closed the channel, `Enqueue` panics with the job already in the map,
  where it stays pending.
- The last subscriber to leave deletes the replay buffer, in the middle of a scan too;
  who reconnects has nothing to catch up with.
- `POST .../run` is confirmed for a disabled schedule, which does not run before
  somebody enables it.
- `redactSchedule` writes to stored schedules without the lock (`schedules.go:350-355`),
  although the store's comment says "All access goes through the mutex". A save may
  therefore write a secret that memory no longer has, or an empty one of a schedule
  the rest of which is older.
- A save of the schedule store that fails is not tried again: the mark is consumed.
  `store_api.go:65-66` says "just retry on next tick", and there is no tick.
- On a server whose local time is behind UTC, `nextMonthStart` (`auth.go:354-359`) gives
  a date that is past in the first hours of a month, so every request resets the
  counter until local time is in the new month too, and far more scans are granted in
  a calendar month than the tier allows. Its comment says that the time zone does not
  matter, and `quota_test.go:106-107` expects a date in the future. `PeriodQuotaHolds` is
  about the time until the date that was set.
- The users file may have a scan that it has no request for, since its fields are
  read one after the other without the lock.
- A scan that the full queue turns away stays counted; `EveryScanIsPaid` is about the
  scans that are submitted.
- A job may be forgotten between the end of a wait and the `GetJob` after it.
  `handleScan` and `makeCompact` then dereference nil, and `handleResults` answers
  `null`. `WaitedAnswersAreWhole` says that such a job had at least finished.
- `handleResults` waits for a pending job, not for one that is running.
- Without a wait, the status may be read after it was set and the result before: a
  report then says 422 for a scan that is about to be stored.
- A scan that is on its way when the cache is cleared stores its result afterwards,
  and of two scans of one page the one that began earlier may be stored later.
- A crash while the cache file is written loses the entries: `load` ignores what does
  not parse.
- `normalizeURL` removes trailing slashes and nothing else of what its comment lists.
- The unlocked merge (`scanner.go:353`, `373`) may list an address twice, exceed the cap
  by one, or lose an address that the other goroutine overwrites, even where no two
  accesses overlap, and where they do the list is not defined. `scanner.go:315` says
  "deduped" and `385-387` "cap 20". `ReturnedResultIsWhole` says nothing of the addresses.
- `excludes` of a fingerprint (`docs/FINGERPRINT_FORMAT.md:116-119`) is loaded and never
  looked at: `detect` reports a technology that another one it reports excludes. No
  reference definition says what `detect` should report.

### Bounds

Jobs, connections, events, ids, attempts, log entries and the clock are bounded
by constants. Each is chosen so that the limit it meets is exceeded: three jobs
for a map of two and a channel of one, so that rejection, eviction and the full
channel occur; three events for buffers of two; two runs for one slot; a log of
one. Two workers, two mutators and two connections are enough for every pairwise
race, and no code path looks at more than two of them at once. The clock exceeds
the TTL (1) so that results expire before and after others finish. Clients send
webhook secrets only in `deliveries_are_signed`, the one property that depends on
them. In `scheduler` the second goroutine is there for a second run of the same
schedule, which must not happen; several schedules share only the slots, and the
theorems have any number of them. In `user_store` one user is enough, since users
share nothing but the lock and the file; two requests meet a limit of one, two
months have one boundary, and the bound on a counter (`MaxScans`) is one more than the
limit, so that a count beyond it would show. In `result_cache` the second page is one too many and the
clock is twice the time to live, so that entries expire in memory and in the file.
In `scan_api` two requests are one more than the rate, the quota and the queue allow;
the clock brings one refill. In `page_scan` both goroutines may find two addresses,
twice the cap, and there are more links than pages that are tried.
Symmetry is used in `jobqueue`, `result_cache` and `scan_api`, which check no liveness.

Deadlock is not checked where the system may really stop (all submissions made
and the queue stopped; every connection closed; a stopped scheduler without
schedules; a server that refuses its torn users file; every request answered; the
scan returned; the clock of the cache at its bound). `schedule_store` does check it.

### Fairness

Go runs every goroutine that can run, so weak fairness is assumed of workers,
handlers, the save loop, the ticker, runs and deliveries. It includes the end of a
scan, because `processJob` gives the browser a context of 60 seconds and `runOne`
one of 30, and the end of a delivery attempt, because its HTTP client has a
timeout of 10. A goroutine that waits to send on a channel is served in turn, so a
run waiting for a dispatch slot has strong fairness. Nothing is assumed of clients,
of the clock, of `Stop`, `Close` or a crash: they may happen or not. The cleanup
goroutine is assumed to notice `stopCh`, since its ticker is ready once in five
minutes only. In `UserStore` the save loop is fair, its ticker fires every 30
seconds, and `main` returns once `Stop` has; requests and `Stop` are not assumed. In
`PageScan` every goroutine is fair: the page load has the context of its caller, the
fetches 5 and 6 seconds, the queries 8, the dial 5, so each of them ends.

## What is proved

For all constants that satisfy the modules' assumptions (any sets of jobs,
schedules, runs and users, finite sets of workers, deliveries and API requests,
positive capacities). Every invariant below was first checked by TLC on the instance of its
run:

`JobQueueProofs`
- `TypeCorrect`: `Spec => []TypeOK`. Not inductive alone: a worker's steps use
  `wjob[w]` as a job, so `TypeInv` adds that a worker that holds a job has one.
- `SingleOwnerHolds`: `SingleOwner` is inductive with `TypeInv`. The eighteen worker
  steps are reduced by `WorkerStepKinds` to six kinds (receive, exit, start, publish,
  branch, finish), and each kind has a lemma. The argument: a job enters the channel
  once, when its status is `none`; it leaves it to one worker; and its status changes
  only in the hands of that worker.
- `JobsBoundedHolds`: the map is finite and bounded. `SizeAfterInsert` says that what
  `Enqueue` inserts into has room for one more.
- `ActiveJobsAreListedHolds`: from `CleanupForgetsFinished`, the lemma that cleanup
  only deletes, and only finished jobs.
- `QueueImplementsBoard`: `Spec => ImplementsBoard`. `BoardStep` maps every step to a
  step of the board or a stutter, from `SafetyInv`. The one hard step is
  `WorkerStart`: the board allows as many running jobs as workers, so `FreeSlot` shows
  by a cardinality argument that a worker that is not running a job leaves a slot.
- `RejectionsAreJustified`: `Enqueue` answers `ErrQueueFull` only when nothing could be
  evicted. Among the finished jobs of a full map one is oldest (`LeastNatural`, from
  the library's well-founded order of the naturals), so `cleanupLocked` can delete it.
- `EventsAreOrdered` and `AnnouncedOutcomesAreFinal`. Neither is inductive: what may be
  published next depends on how far the worker is. `EventsInv` says it for each program
  point how far the events of the worker's job are, or that its outcome has been told
  (`HeardAt`), and for each status of a job what was heard of it (`HeardOf`): nothing of
  one that was not submitted, its own outcome and no other of one that has finished,
  or, after a cache hit, none.

`HubProofs`
- `HubTypeCorrect`, with the bounds of the buffers (`Newest` keeps `ReplaySize` events, a
  full channel drops) and `Connections`: a subscriber's handler is in its loop or about to
  leave it, one that has not come yet has received nothing and is no recipient, and
  there are recipients only of an event that was published.
- `StreamsAreSuffixes` and `FirstListenersGetReplay`, from `StreamInv`, which adds
  `ReplayIsRecent`: the replay buffer is a suffix of the published events and, as long as
  nobody has left, the newest ones, as many as fit. Only then does a copy of it continue without a gap into the live events. The stream
  of a connection is what it has received, has waiting and is about to be sent, so
  that `PublishRecord` extends every stream at once (`StreamGoesOn`) and `PublishSend` and
  the handler's receive leave it as it is (`EventSent`, `EventWritten`). The lemmas `From...`
  and `Newest...` say what `SubSeq` and `Append` do to suffixes of a sequence.

`ScheduleStoreProofs`
- `StoreTypeCorrect`, `NoMarkIsLost`, `FileIsAlwaysASnapshot` and `CloseAlwaysFlushes`, from
  `StoreInv`. Beside the types and `NoMarkLost` it needs `MarshalledIsCurrent`: from
  marshalling to rename the marshalled content is what memory has (`IsMemory`), because
  the save holds the read lock and `Locked` keeps mutators out, but for the secrets
  that `Redact`, which no lock keeps out, has emptied meanwhile (`RedactKeepsInv`).
  `FileIsASnapshot` and `CloseFlushes` are action properties and follow for each step.

`SchedulerProofs`
- `SchedulerTypeCorrect`, `RunsAreExclusiveHolds`, `SlotsMatchDeliveriesHolds`, from one
  inductive invariant `SafetyInv`: typing, `RunsAreExclusive`, `SlotsMatchDeliveries` and
  `Owned` (a goroutine has a schedule exactly while it exists). They depend on each
  other: a release of a slot is well typed only because slots count deliveries;
  leaving `inflight` keeps the sets equal only because no other run has the schedule.

`UserStoreProofs`
- `UserStoreTypeCorrect`, from `StoreInv`, which adds that a request that is handled has a
  user (`RequestsHaveUsers`), that save reads only users there are and one at a time
  (`MarshalsUsers`), and that nothing runs in a process that has ended (`Down`).
- `PeriodQuotaAlwaysHolds`: for any users, requests, limit and time zone. The property
  speaks of `granted`, which the program does not have. `QuotaInv` ties it to the
  program's counter (`Covered`): `ScanCount` is at most the limit, and while the user's
  period has not elapsed `granted` is at most `ScanCount`. `CurrentUser` says what
  `maybeResetLocked` leaves.
- `NoUpdateIsLost` and `StopAlwaysFlushes`, from `SaveInv`. `save` marshals the users one by
  one without the lock, so the image is of no single instant. `ImageIsCurrent` says
  what is true instead: as long as no request has set `dirty` again (`Undisturbed`), every
  user that is already in the image is there as it is in memory, but for the fields
  of the one that is half read.

`ScanApiProofs`
- `LimiterBoundsAdmission`: `LimiterSpec => []AdmissionBounded`. The property speaks of the
  present, and a step of the clock would break it as an induction hypothesis: the
  bucket does not change while the bound grows. `LimiterInv` speaks of the last fill: for
  every time `t` up to it, what was admitted since `t` and the tokens that are left are
  within one burst and the refill from `t` to the last fill, and nothing was admitted
  after it. A request moves the last fill and the tokens together (`RefillBounded`), also
  a refused one. It is assumed that one of the rates is the highest.
- `ApiBoundsAdmission`: the same of `ScanApi`, because each of its steps is a step of the
  limiter or leaves it alone (`ApiStepIsLimiterStep`).
- `ApiTypeCorrect`, from `ApiInv`: the limiter's invariant, the types, and `JobsAreKnown`: a
  handler past `GetJob` or `Enqueue` has a job, without which its reads of `status` would
  have no type. `OthersKeep` is the lemma that a request changes nothing of another.
- `WaitedAnswersHold`, from `WaitInv`. `QueueInv` describes the moment between the two writes
  that end a job: only the job that is being stored may be completed without a
  result. `Settled` says that a request whose wait saw a final status and that has called
  `GetJob` again is past that moment, because `GetJob` takes the lock; `JobGoesOn`, that no
  step takes a final status back or lists a forgotten job again. Without the second
  `GetJob` the answer could be torn: that is the mutant of the run.
- `ScansArePaid`, from `PaidInv`: for every user the requests past the quota (`Paid`) are no
  more than were counted. `WhoPays` shows that `QuotaTaken` is the only step that adds one
  to them, and adds one. The scans that were submitted are among them; the count is of a
  finite set of requests.

`ResultCacheProofs`
- `CacheIsBounded`, `CacheServesFresh`, `CacheStaysCleared` and `CacheFileMirrors`, from one
  inductive invariant `CacheInv`. It says of each of the three copies (in memory,
  marshalled, in the file) that it is sound: small enough, made of scans that were
  stored within `ScanLimit` of their begin, and not older than the last `Clear` that the
  copy has seen. The marshalled copy has seen what memory has seen only while it is
  being written, which is what makes a failed or interrupted save harmless.
  `EvictionIsEnough` is the lemma that evicting one entry after an insertion suffices;
  `AgreeLater`, that caches with the same valid entries keep having them as time passes.
  That a scan ends within `ScanLimit` is the model's guard of the clock (`ScansInTime`),
  which stands for the deadlines of the scan's contexts.

`PageScanProofs`, for any pages, texts, links, fingerprints, caps, record types and
endpoints. It is assumed that the caps and the number of endpoints are positive, that
the text of a page has finitely many addresses and that links, fingerprints, rules and
implications come as slices (finite sequences).
- `ReturnedResultsAreWhole`, from two invariants of independent goroutines. `EnrichInv`:
  each record type is in exactly one place, as a query at an endpoint, as an answer
  in the channel or among the received ones (`OncePerType`), so that `QueryDNS` has room
  to send (`ChannelHasRoom`, by counting), gets one answer of each type and reports an
  error exactly if none was answered. `CrawlInv` is about the crawl: its goroutines run
  only while `ScanURL` waits for them, each with a list of addresses without
  repetitions and within the cap, which is not empty while it appends.
- `LoopsAreExact`: the loops compute what the reference definitions say. The implied
  technologies are exactly those that detected ones imply and that were not detected
  (`ImpliedHolds`); the contact pages are the best candidates, each link counted where it
  was first seen (`CandidatesListed`, `ContactPagesHold`), which needs that the exchange
  sort leaves a permutation in descending order of score (`SortRanks`).
- `PageScanTypeCorrect`: the types of the whole state, `AnalysisTyped` for what the
  analysis leaves in it, with the two invariants. The addresses of a text are listed in
  ascending order, each once (`ExtractedAddresses`): the place of an address is the
  number of smaller ones.

  The theorems about loops need induction, and the library's induction rule takes a
  predicate as a parameter. The proofs use sets instead: the passes at which a claim
  fails are a set of numbers, a set that is not empty has a least element (`LeastOf`),
  and a claim that holds at first and is kept by each pass has none (`EveryPass`). A fold
  is unrolled into the function of its intermediate values (`IterationExists`, `RunOfChain`),
  one lemma `...Run` for each loop, and the claims about a loop are then claims about
  that function.

Only model-checked: all liveness (`QueuedJobsFinish`, `StartedJobsFinish`, `StopReturns`,
`StreamEnds`, `AddedReachesDisk`, `DueSchedulesRun`, `RequestedRunsHappen`, `UsageReachesDisk`,
`ScanEnds`): the prover does not reason about fairness. The three runs that expect a
violation refute a statement on an instance and have nothing to prove. The type
invariants of `JobQueue` and `Scheduler` are proved and not in a run.

## What is not modelled

- URL validation: a pure predicate that asks the resolver; its outcome is a free
  choice (`DispatchInvalid`, `BadRequest`).
- Rendering of reports, the fingerprint database, metrics, the command-line scanner
  and the web page: formatting, read-only data or counters that nothing reads back.
- What regular expressions, JSON and the browser extract from a page, and the parsing
  of DNS, WHOIS and TLS answers: inputs of `PageScan`.
- Reading functions (`ListJobs`, `Stats`, lists of the API): they change nothing; what
  they may see is what the invariants say.
- The cache's counters of hits and misses, which are increased under the read lock and
  may lose counts, and `CleanupExpired`, which has no caller.
- The user agent recorded for a job, which is that of the latest scan, not of its own.
- The quota of schedules per owner, which is read before it is used, so that two
  requests at once exceed it.
- A corrupt schedule file at start, which ends the process.

## Plan

Done: `JobQueue` and `ScanBoard`, `Hub`, `ScheduleStore`, `Scheduler`, `UserStore`,
`ResultCache`, `RateLimiter`, `ScanApi`, `PageAnalysis`, `PageScan`, and the proofs above.

Every invariant and every action property that a passing run checks is also a theorem.
What is left is outside the modules: the hazards without a property (each has its
reason in `PROJECT.json`), of which the quota of schedules per owner and the failed saves
that nothing retries would be the next to model.

## How to run

    tlc -config MCJobQueue.cfg MCJobQueue       # each .cfg with its MC module
    tlapm JobQueueProofs.tla
    tlapm SchedulerProofs.tla
    tlapm UserStoreProofs.tla
    tlapm HubProofs.tla
    tlapm ScheduleStoreProofs.tla
    tlapm ScanApiProofs.tla
    tlapm ResultCacheProofs.tla
    tlapm PageScanProofs.tla
