---------------------------- MODULE ResultCache -----------------------------
(***************************************************************************)
(* The result cache of internal/cache/cache.go as the workers of the queue *)
(* and the API use it: a worker looks a URL up, scans it on a miss and     *)
(* stores the result; DELETE /api/cache clears everything.  Set and Clear  *)
(* save the whole cache to its file before they release the lock, so the   *)
(* save is a sequence of steps during which no other caller comes in, and  *)
(* a crash at any of them leaves the file as it then is.                   *)
(*                                                                         *)
(* The counters of hits and misses, which only Stats reads, are left out.  *)
(***************************************************************************)
EXTENDS Naturals, FiniteSets, Functions

CONSTANTS
  Pages,       \* URLs without their trailing slashes
  Workers,     \* the workers of the queue
  TTL,         \* c.ttl, in ticks of the clock (24h in the code)
  MaxSize,     \* c.maxSize (5000 in the code)
  ScanLimit,   \* the longest scan, in ticks (60s, and 8s for the enrichment)
  MaxTime,     \* bound on the clock
  MaxClears,   \* bound on the calls of Clear
  MaxFailures  \* bound on the saves that fail

ASSUME ResultCacheAssumption ==
  /\ TTL \in Nat /\ MaxSize \in Nat \ {0} /\ ScanLimit \in Nat
  /\ MaxTime \in Nat /\ MaxClears \in Nat /\ MaxFailures \in Nat

VARIABLES
  now,       \* time.Now()
  up,        \* whether the process runs
  entries,   \* c.entries: from some pages to their entries
  save,      \* the step of persistLocked that comes next, while c.mu is held
  image,     \* the entries persistLocked has marshalled
  disk,      \* what load makes of the file; nothing while it is truncated
  wpc,       \* each worker's program point
  wpage,     \* the key of the URL each worker scans
  wbegan,    \* when its scan began
  failures,  \* how many saves have failed
  failed,    \* whether the last save failed
  clears,    \* history: how often Clear has been called
  seen,      \* history: the last Clear that what is in memory has seen
  cleared,   \* history: the last Clear that a good save has seen
  age        \* history: how old the last result served from the cache was

vars == <<now, up, entries, save, image, disk, wpc, wpage, wbegan, failures,
          failed, clears, seen, cleared, age>>
worker == <<wpc, wpage, wbegan>>
history == <<clears, seen, cleared, age>>

\* A URL as far as urlKey looks at it: its page and the slashes at its end.
Urls == [page : Pages, slashes : {0, 1}]

urlKey(url) == url.page

\* CacheEntry.  at is CachedAt, and ExpiresAt is at + TTL.  began (when the scan
\* of the result began) and epoch (the number of Clears before the Set) are
\* history.
CacheEntry == [at : 0..MaxTime, began : 0..MaxTime, epoch : 0..MaxClears]

NoEntries == [p \in {} |-> p]

\* now.After(ExpiresAt) and now.Before(ExpiresAt): an entry that expires now is
\* neither.
After(e) == e.at + TTL < now
Before(e) == now < e.at + TTL

Valid(cache) == Restrict(cache, {p \in DOMAIN cache : Before(cache[p])})

TypeOK ==
  /\ now \in 0..MaxTime
  /\ up \in BOOLEAN
  /\ \A cache \in {entries, image, disk} :
       /\ DOMAIN cache \subseteq Pages
       /\ \A p \in DOMAIN cache : cache[p] \in CacheEntry
  /\ save \in {"none", "marshal", "truncate", "write"}
  /\ wpc \in [Workers -> {"idle", "scan", "set"}]
  /\ wpage \in [Workers -> Pages]
  /\ wbegan \in [Workers -> 0..MaxTime]
  /\ failures \in 0..MaxFailures
  /\ failed \in BOOLEAN
  /\ clears \in 0..MaxClears
  /\ seen \in 0..clears
  /\ cleared \in 0..seen
  /\ age \in 0..MaxTime

Init ==
  /\ now = 0
  /\ up = TRUE
  /\ entries = NoEntries
  /\ save = "none"
  /\ image = NoEntries
  /\ disk = NoEntries
  /\ wpc = [w \in Workers |-> "idle"]
  /\ wpage \in [Workers -> Pages]
  /\ wbegan = [w \in Workers |-> 0]
  /\ failures = 0
  /\ failed = FALSE
  /\ clears = 0
  /\ seen = 0
  /\ cleared = 0
  /\ age = 0

-----------------------------------------------------------------------------
(* A worker: Get, the scan, Set *)

Hit(p) == p \in DOMAIN entries /\ ~After(entries[p])

\* Get waits for the writers' lock; the worker finishes its job with the entry.
GetHit(w, url) ==
  /\ up /\ save = "none"
  /\ wpc[w] = "idle"
  /\ Hit(urlKey(url))
  /\ age' = now - entries[urlKey(url)].began
  /\ UNCHANGED <<now, up, entries, save, image, disk, worker, failures, failed,
                 clears, seen, cleared>>

GetMiss(w, url) ==
  /\ up /\ save = "none"
  /\ wpc[w] = "idle"
  /\ ~Hit(urlKey(url))
  /\ wpc' = [wpc EXCEPT ![w] = "scan"]
  /\ wpage' = [wpage EXCEPT ![w] = urlKey(url)]
  /\ wbegan' = [wbegan EXCEPT ![w] = now]
  /\ UNCHANGED <<now, up, entries, save, image, disk, failures, failed, history>>

\* A failed scan is not stored.
ScanFails(w) ==
  /\ up
  /\ wpc[w] = "scan"
  /\ wpc' = [wpc EXCEPT ![w] = "idle"]
  /\ UNCHANGED <<now, up, entries, save, image, disk, wpage, wbegan, failures,
                 failed, history>>

\* The oldest entries; Go's map order chooses among them.
Oldest(cache) ==
  {p \in DOMAIN cache : \A q \in DOMAIN cache : cache[p].at <= cache[q].at}

\* Mutant: only expired entries are evicted.
EvictOnlyExpired(cache) ==
  {Restrict(cache, {p \in DOMAIN cache : ~After(cache[p])})}

\* evictOldest: what it may leave of a cache that is too large.
evictOldest(cache) ==
  LET kept == Restrict(cache, {p \in DOMAIN cache : ~After(cache[p])})
  IN IF Cardinality(DOMAIN kept) > MaxSize
       THEN {Restrict(kept, DOMAIN kept \ {p}) : p \in Oldest(kept)}
       ELSE {kept}

WithEntry(p, e) ==
  [q \in DOMAIN entries \union {p} |-> IF q = p THEN e ELSE entries[q]]

\* Set, up to the save: it takes the lock, and processJob holds q.mu as well.
Set(w) ==
  LET cache == WithEntry(wpage[w],
                 [at |-> now, began |-> wbegan[w], epoch |-> clears])
  IN /\ up /\ save = "none"
     /\ wpc[w] = "scan"
     /\ entries' \in IF Cardinality(DOMAIN cache) > MaxSize
                       THEN evictOldest(cache) ELSE {cache}
     /\ wpc' = [wpc EXCEPT ![w] = "set"]
     /\ save' = "marshal"
     /\ UNCHANGED <<now, up, image, disk, wpage, wbegan, failures, failed, history>>

\* Mutant: only expired entries are removed, as CleanupExpired does.
ClearExpired ==
  /\ up /\ save = "none"
  /\ clears < MaxClears
  /\ entries' = Restrict(entries, {p \in DOMAIN entries : ~After(entries[p])})
  /\ clears' = clears + 1
  /\ seen' = clears + 1
  /\ save' = "marshal"
  /\ UNCHANGED <<now, up, image, disk, worker, failures, failed, cleared, age>>

\* Mutant: the cleared cache is not saved.
ClearUnsaved ==
  /\ up /\ save = "none"
  /\ clears < MaxClears
  /\ entries' = NoEntries
  /\ clears' = clears + 1
  /\ seen' = clears + 1
  /\ UNCHANGED <<now, up, save, image, disk, worker, failures, failed, cleared, age>>

\* Clear, up to the save, called by handleCacheClear.
Clear ==
  /\ up /\ save = "none"
  /\ clears < MaxClears
  /\ entries' = NoEntries
  /\ clears' = clears + 1
  /\ seen' = clears + 1
  /\ save' = "marshal"
  /\ UNCHANGED <<now, up, image, disk, worker, failures, failed, cleared, age>>

-----------------------------------------------------------------------------
(* persistLocked and load *)

\* Entries that have expired are not written.
PersistMarshal ==
  /\ up /\ save = "marshal"
  /\ image' = Valid(entries)
  /\ save' = "truncate"
  /\ UNCHANGED <<now, up, entries, disk, worker, failures, failed, history>>

\* os.WriteFile empties the file first ...
PersistTruncate ==
  /\ up /\ save = "truncate"
  /\ disk' = NoEntries
  /\ save' = "write"
  /\ UNCHANGED <<now, up, entries, image, worker, failures, failed, history>>

\* The end of persistLocked and of its caller, which releases the lock.
Unlock ==
  /\ save' = "none"
  /\ wpc' = [w \in Workers |-> IF wpc[w] = "set" THEN "idle" ELSE wpc[w]]
  /\ UNCHANGED <<wpage, wbegan>>

\* ... and then writes it.
PersistWrite ==
  /\ up /\ save = "write"
  /\ disk' = image
  /\ Unlock
  /\ failed' = FALSE
  /\ cleared' = seen
  /\ UNCHANGED <<now, up, entries, image, failures, clears, seen, age>>

\* The file cannot be opened or written; the error is ignored.
PersistFails ==
  /\ up /\ save \in {"truncate", "write"}
  /\ failures < MaxFailures
  /\ failures' = failures + 1
  /\ failed' = TRUE
  /\ Unlock
  /\ UNCHANGED <<now, up, entries, image, disk, history>>

Crash ==
  /\ up
  /\ up' = FALSE
  /\ entries' = NoEntries
  /\ image' = NoEntries
  /\ save' = "none"
  /\ wpc' = [w \in Workers |-> "idle"]
  /\ UNCHANGED <<now, disk, wpage, wbegan, failures, failed, history>>

\* Mutant: an entry is renewed when it is loaded.
LoadedAnew == [p \in DOMAIN Valid(disk) |-> [disk[p] EXCEPT !.at = now]]

\* NewCache with load: a file that does not parse is ignored.
Loaded == Valid(disk)

Restart ==
  /\ ~up
  /\ up' = TRUE
  /\ entries' = Loaded
  /\ failed' = FALSE
  /\ seen' = cleared
  /\ UNCHANGED <<now, save, image, disk, worker, failures, clears, cleared, age>>

\* The context of a scan ends it in time, and its end is stored at once.
ScansInTime == \A w \in Workers : wpc[w] = "scan" => now < wbegan[w] + ScanLimit

Tick ==
  /\ now < MaxTime
  /\ ScansInTime
  /\ now' = now + 1
  /\ UNCHANGED <<up, entries, save, image, disk, worker, failures, failed, history>>

Next ==
  \/ \E w \in Workers, url \in Urls : GetHit(w, url) \/ GetMiss(w, url)
  \/ \E w \in Workers : ScanFails(w) \/ Set(w)
  \/ Clear
  \/ PersistMarshal \/ PersistTruncate \/ PersistWrite \/ PersistFails
  \/ Crash \/ Restart
  \/ Tick

Spec == Init /\ [][Next]_vars
-----------------------------------------------------------------------------
(* Properties *)

\* The cache and its file never hold more than maxSize results although every
\* Set inserts first and evicts at most one valid entry afterwards
\* (cache.go:86-91, 101-126).
CacheBounded ==
  \A cache \in {entries, image, disk} :
    IsFiniteSet(DOMAIN cache) /\ Cardinality(DOMAIN cache) <= MaxSize

\* A result served from the cache is the outcome of a scan that began at most
\* TTL and one scan ago, also when it has been through the file and a restart in
\* between (cache.go:61, 209, 238; queue.go:238-250, 307).
HitsAreFresh == age <= TTL + ScanLimit

\* What was cleared stays cleared: once a save has succeeded after a Clear, no
\* entry from before that Clear is in memory or in the file, whatever fails or
\* crashes later (cache.go:167-173, 222-241).
ClearedStaysCleared ==
  \A cache \in {entries, image, disk} :
    \A p \in DOMAIN cache : cache[p].epoch >= cleared

\* Between saves a restart loses nothing: unless the last save failed, the file
\* and the memory hold the same entries that are still valid
\* (cache.go:93-95, 171-173, 206-218).
FileMirrorsMemory ==
  up /\ save = "none" /\ ~failed => Valid(entries) = Valid(disk)
=============================================================================
