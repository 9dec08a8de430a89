------------------------- MODULE ResultCacheProofs --------------------------
(***************************************************************************)
(* The four invariants of ResultCache for any pages, workers, sizes and    *)
(* times.  The inductive invariant says of each of the three copies of the *)
(* cache (in memory, marshalled, in the file) that it is sound: bounded,   *)
(* made of scans that were stored in time, and not older than a Clear that *)
(* the copy has seen.                                                      *)
(***************************************************************************)
EXTENDS ResultCache, FiniteSetTheorems, TLAPS

\* An entry that was stored by the given time, in time after its scan began, and
\* not before the given Clear.
SoundEntry(e, epoch, time) ==
  /\ e \in CacheEntry
  /\ e.at <= time
  /\ e.began <= e.at /\ e.at <= e.began + ScanLimit
  /\ epoch <= e.epoch

Small(cache) == IsFiniteSet(DOMAIN cache) /\ Cardinality(DOMAIN cache) <= MaxSize

Sound(cache, epoch, time) ==
  /\ Small(cache)
  /\ DOMAIN cache \subseteq Pages
  /\ \A p \in DOMAIN cache : SoundEntry(cache[p], epoch, time)

\* The entries that are valid at a time; Valid(cache) is ValidAt(cache, now).
ValidAt(cache, time) == Restrict(cache, {p \in DOMAIN cache : time < cache[p].at + TTL})

Writing == save \in {"truncate", "write"}

Scalars ==
  /\ now \in 0..MaxTime
  /\ up \in BOOLEAN /\ failed \in BOOLEAN
  /\ save \in {"none", "marshal", "truncate", "write"}
  /\ ~up => save = "none"
  /\ clears \in 0..MaxClears /\ seen \in 0..clears /\ cleared \in 0..seen
  /\ failures \in 0..MaxFailures

WorkersInTime ==
  /\ wpc \in [Workers -> {"idle", "scan", "set"}]
  /\ wpage \in [Workers -> Pages]
  /\ wbegan \in [Workers -> 0..MaxTime]
  /\ \A w \in Workers :
       wpc[w] = "scan" => wbegan[w] <= now /\ now <= wbegan[w] + ScanLimit

Copies ==
  /\ Sound(entries, seen, now)
  /\ Sound(image, IF Writing THEN seen ELSE cleared, now)
  /\ Sound(disk, cleared, now)

Mirrored ==
  /\ up /\ save = "none" /\ ~failed => ValidAt(entries, now) = ValidAt(disk, now)
  /\ Writing => ValidAt(image, now) = ValidAt(entries, now)

Fresh == age \in 0..MaxTime /\ HitsAreFresh

CacheInv == Scalars /\ WorkersInTime /\ Copies /\ Mirrored /\ Fresh

-----------------------------------------------------------------------------
(* Sound caches *)

LEMMA Bounds ==
  /\ TTL \in Nat /\ MaxSize \in Nat \ {0} /\ ScanLimit \in Nat
  /\ MaxTime \in Nat /\ MaxClears \in Nat /\ MaxFailures \in Nat
BY ResultCacheAssumption DEF ResultCacheAssumption

LEMMA EmptyIsSound ==
  ASSUME NEW epoch, NEW time
  PROVE  Sound(NoEntries, epoch, time)
<1>1. DOMAIN NoEntries = {}
  BY DEF NoEntries
<1>2. Small(NoEntries)
  BY <1>1, Bounds, FS_EmptySet DEF Small
<1> QED
  BY <1>1, <1>2 DEF Sound

LEMMA SmallRestrict ==
  ASSUME NEW cache, Small(cache), NEW S \in SUBSET DOMAIN cache
  PROVE  Small(Restrict(cache, S)) /\ DOMAIN Restrict(cache, S) = S
<1>1. DOMAIN Restrict(cache, S) = S
  BY DEF Restrict
<1>2. /\ IsFiniteSet(S) /\ Cardinality(S) <= Cardinality(DOMAIN cache)
      /\ Cardinality(S) \in Nat /\ Cardinality(DOMAIN cache) \in Nat
  BY FS_Subset, FS_CardinalityType DEF Small
<1> QED
  BY <1>1, <1>2, Bounds DEF Small

LEMMA SoundRestrict ==
  ASSUME NEW cache, NEW epoch, NEW time, Sound(cache, epoch, time),
         NEW S \in SUBSET DOMAIN cache
  PROVE  Sound(Restrict(cache, S), epoch, time)
<1>1. \A p \in S : Restrict(cache, S)[p] = cache[p]
  BY DEF Restrict
<1>2. Small(Restrict(cache, S)) /\ DOMAIN Restrict(cache, S) = S
  BY SmallRestrict DEF Sound
<1> QED
  BY <1>1, <1>2 DEF Sound

LEMMA SoundValid ==
  ASSUME NEW cache, NEW epoch, NEW time, Sound(cache, epoch, time), NEW t
  PROVE  Sound(ValidAt(cache, t), epoch, time)
BY SoundRestrict DEF ValidAt

\* What has seen a Clear has seen the earlier ones, and what is sound stays sound.
LEMMA SoundWeaker ==
  ASSUME NEW cache, NEW epoch \in Nat, NEW earlier \in Nat, earlier <= epoch,
         NEW time \in Nat, NEW later \in Nat, time <= later,
         Sound(cache, epoch, time)
  PROVE  Sound(cache, earlier, later)
<1> SUFFICES ASSUME NEW p \in DOMAIN cache
             PROVE  earlier <= cache[p].epoch /\ cache[p].at <= later
  BY DEF Sound, SoundEntry
<1>1. /\ cache[p].epoch \in Nat /\ epoch <= cache[p].epoch
      /\ cache[p].at \in Nat /\ cache[p].at <= time
  BY Bounds DEF Sound, SoundEntry, CacheEntry
<1> QED
  BY <1>1

LEMMA ValidTwice ==
  ASSUME NEW cache, NEW t
  PROVE  ValidAt(ValidAt(cache, t), t) = ValidAt(cache, t)
BY DEF ValidAt, Restrict

\* Caches whose valid entries agree agree later as well: entries only expire.
LEMMA AgreeLater ==
  ASSUME NEW f, NEW g, NEW e, NEW d, NEW t \in Nat, NEW later \in Nat, t <= later,
         Sound(f, e, t), Sound(g, d, t), ValidAt(f, t) = ValidAt(g, t)
  PROVE  ValidAt(f, later) = ValidAt(g, later)
<1> DEFINE V(h, time) == {p \in DOMAIN h : time < h[p].at + TTL}
<1>1. /\ \A p \in DOMAIN f : f[p].at \in Nat
      /\ \A p \in DOMAIN g : g[p].at \in Nat
  BY Bounds DEF Sound, SoundEntry, CacheEntry
<1>2. V(f, t) = V(g, t) /\ \A p \in V(f, t) : f[p] = g[p]
  <2>1. V(f, t) = DOMAIN ValidAt(f, t) /\ V(g, t) = DOMAIN ValidAt(g, t)
    BY DEF ValidAt, Restrict
  <2>2. /\ \A p \in V(f, t) : ValidAt(f, t)[p] = f[p]
        /\ \A p \in V(g, t) : ValidAt(g, t)[p] = g[p]
    BY DEF ValidAt, Restrict
  <2> QED
    BY <2>1, <2>2
<1>3. V(f, later) \subseteq V(f, t) /\ V(g, later) \subseteq V(g, t)
  BY <1>1, Bounds
<1>4. V(f, later) = V(g, later)
  BY <1>2, <1>3
<1> QED
  BY <1>2, <1>3, <1>4 DEF ValidAt, Restrict

-----------------------------------------------------------------------------
(* The steps *)

LEMMA CacheInvInit == Init => CacheInv
<1> SUFFICES ASSUME Init PROVE CacheInv
  OBVIOUS
<1>1. Scalars
  <2>1. up \in BOOLEAN /\ failed \in BOOLEAN
    BY Zenon DEF Init
  <2>2. /\ now \in 0..MaxTime /\ failures \in 0..MaxFailures
        /\ clears \in 0..MaxClears /\ seen \in 0..clears /\ cleared \in 0..seen
    BY Bounds DEF Init
  <2>3. save = "none"
    BY DEF Init
  <2> QED
    BY <2>1, <2>2, <2>3 DEF Scalars
<1>2. WorkersInTime
  BY Bounds DEF Init, WorkersInTime
<1>3. Fresh
  BY Bounds DEF Init, Fresh, HitsAreFresh
<1>4. Copies
  BY EmptyIsSound DEF Init, Copies
<1>5. Mirrored
  BY DEF Init, Mirrored, Writing
<1> QED
  BY <1>1, <1>2, <1>3, <1>4, <1>5 DEF CacheInv

stored == <<now, up, entries, save, image, disk, failures, failed, clears, seen, cleared>>

\* A lookup stores nothing.
LEMMA LookupKeepsInv ==
  ASSUME CacheInv, NEW w \in Workers, NEW url \in Urls,
         GetHit(w, url) \/ GetMiss(w, url)
  PROVE  CacheInv'
<1>1. UNCHANGED stored
  BY DEF GetHit, GetMiss, stored, history
<1>2. Scalars' /\ Copies' /\ Mirrored'
  BY <1>1 DEF CacheInv, Scalars, Copies, Mirrored, Writing, stored
<1>3. CASE GetHit(w, url)
  <2> DEFINE e == entries[urlKey(url)]
  <2>1. /\ e.at \in 0..MaxTime /\ e.began \in 0..MaxTime /\ e.at <= now
        /\ e.began <= e.at /\ e.at <= e.began + ScanLimit
    BY <1>3 DEF GetHit, Hit, CacheInv, Copies, Sound, SoundEntry, CacheEntry
  <2>2. ~(e.at + TTL < now) /\ age' = now - e.began
    BY <1>3 DEF GetHit, Hit, After
  <2>3. now \in 0..MaxTime
    BY DEF CacheInv, Scalars
  <2> HIDE DEF e
  <2>4. age' \in 0..MaxTime /\ age' <= TTL + ScanLimit
    BY <2>1, <2>2, <2>3, Bounds
  <2>5. WorkersInTime'
    BY <1>1, <1>3 DEF GetHit, CacheInv, WorkersInTime, worker, stored
  <2> QED
    BY <1>2, <2>4, <2>5 DEF CacheInv, Fresh, HitsAreFresh
<1>4. CASE GetMiss(w, url)
  <2>1. WorkersInTime'
    BY <1>1, <1>4, Bounds
    DEF GetMiss, CacheInv, WorkersInTime, Scalars, stored, urlKey, Urls
  <2>2. Fresh'
    BY <1>4 DEF GetMiss, history, CacheInv, Fresh, HitsAreFresh
  <2> QED
    BY <1>2, <2>1, <2>2 DEF CacheInv
<1> QED
  BY <1>3, <1>4

LEMMA ScanFailsKeepsInv ==
  ASSUME CacheInv, NEW w \in Workers, ScanFails(w)
  PROVE  CacheInv'
<1>1. UNCHANGED stored
  BY DEF ScanFails, stored, history
<1>2. Scalars' /\ Copies' /\ Mirrored'
  BY <1>1 DEF CacheInv, Scalars, Copies, Mirrored, Writing, stored
<1>3. WorkersInTime'
  BY <1>1 DEF ScanFails, CacheInv, WorkersInTime, stored
<1>4. Fresh'
  BY DEF ScanFails, history, CacheInv, Fresh, HitsAreFresh
<1> QED
  BY <1>2, <1>3, <1>4 DEF CacheInv

\* What evictOldest leaves of a cache that is one entry too large is small enough.
LEMMA EvictionIsEnough ==
  ASSUME NEW cache, IsFiniteSet(DOMAIN cache), Cardinality(DOMAIN cache) <= MaxSize + 1,
         NEW rest \in evictOldest(cache)
  PROVE  Small(rest) /\ \E S \in SUBSET DOMAIN cache : rest = Restrict(cache, S)
<1> DEFINE S == {p \in DOMAIN cache : ~After(cache[p])}
           kept == Restrict(cache, S)
<1>1. DOMAIN kept = S
  BY DEF Restrict
<1>2. /\ IsFiniteSet(S) /\ Cardinality(S) <= Cardinality(DOMAIN cache)
      /\ Cardinality(S) \in Nat /\ Cardinality(DOMAIN cache) \in Nat
  BY FS_Subset, FS_CardinalityType
<1>3. CASE Cardinality(DOMAIN kept) > MaxSize
  <2>1. PICK p \in Oldest(kept) : rest = Restrict(kept, DOMAIN kept \ {p})
    BY <1>3 DEF evictOldest
  <2>2. p \in S
    BY <1>1, <2>1 DEF Oldest
  <2>3. IsFiniteSet(S \ {p}) /\ Cardinality(S \ {p}) = Cardinality(S) - 1
    BY <1>2, <2>2, FS_RemoveElement
  <2>4. rest = Restrict(cache, S \ {p}) /\ DOMAIN rest = S \ {p}
    BY <1>1, <2>1 DEF Restrict
  <2>5. Small(rest)
    BY <1>2, <2>3, <2>4, Bounds DEF Small
  <2> QED
    BY <2>4, <2>5
<1>4. CASE ~(Cardinality(DOMAIN kept) > MaxSize)
  <2>1. rest = kept
    BY <1>4 DEF evictOldest
  <2>2. Small(rest)
    BY <1>1, <1>2, <1>4, <2>1, Bounds DEF Small
  <2> QED
    BY <2>1, <2>2
<1> QED
  BY <1>3, <1>4

\* Set makes the cache at most one entry larger, by a sound entry.
LEMMA SetStoresSound ==
  ASSUME CacheInv, NEW w \in Workers, Set(w)
  PROVE  Sound(entries', seen, now)
<1> DEFINE new == [at |-> now, began |-> wbegan[w], epoch |-> clears]
           cache == WithEntry(wpage[w], new)
<1>1. Sound(entries, seen, now)
  BY DEF CacheInv, Copies
<1>2. DOMAIN cache = DOMAIN entries \union {wpage[w]} /\ DOMAIN cache \subseteq Pages
  BY <1>1 DEF WithEntry, Sound, CacheInv, WorkersInTime
<1>3. IsFiniteSet(DOMAIN cache) /\ Cardinality(DOMAIN cache) <= MaxSize + 1
      /\ Cardinality(DOMAIN cache) \in Nat
  <2>1. /\ IsFiniteSet(DOMAIN entries) /\ Cardinality(DOMAIN entries) \in Nat
        /\ Cardinality(DOMAIN entries) <= MaxSize
    BY <1>1, FS_CardinalityType DEF Sound, Small
  <2>2. /\ IsFiniteSet(DOMAIN cache)
        /\ \/ Cardinality(DOMAIN cache) = Cardinality(DOMAIN entries)
           \/ Cardinality(DOMAIN cache) = Cardinality(DOMAIN entries) + 1
    BY <1>2, <2>1, FS_AddElement
  <2> HIDE DEF cache
  <2> QED
    BY <2>1, <2>2, Bounds
<1>4. SoundEntry(new, seen, now)
  <2>1. /\ now \in 0..MaxTime /\ clears \in 0..MaxClears /\ seen \in 0..clears
        /\ wbegan[w] \in 0..MaxTime /\ wbegan[w] <= now /\ now <= wbegan[w] + ScanLimit
    BY DEF CacheInv, Scalars, WorkersInTime, Set
  <2> QED
    BY <2>1, Bounds DEF SoundEntry, CacheEntry
<1>5. \A q \in DOMAIN cache : SoundEntry(cache[q], seen, now)
  <2> SUFFICES ASSUME NEW q \in DOMAIN cache PROVE SoundEntry(cache[q], seen, now)
    OBVIOUS
  <2> HIDE DEF new
  <2>1. cache[q] = IF q = wpage[w] THEN new ELSE entries[q]
    BY <1>2 DEF WithEntry
  <2>2. q # wpage[w] => q \in DOMAIN entries
    BY <1>2
  <2> HIDE DEF cache
  <2> QED
    BY <1>1, <1>4, <2>1, <2>2 DEF Sound
<1>6. CASE Cardinality(DOMAIN cache) > MaxSize
  <2>1. entries' \in evictOldest(cache)
    BY <1>6 DEF Set
  <2> HIDE DEF cache
  <2>2. Small(entries')
    BY <1>3, <2>1, EvictionIsEnough
  <2>3. PICK S \in SUBSET DOMAIN cache : entries' = Restrict(cache, S)
    BY <1>3, <2>1, EvictionIsEnough
  <2>4. DOMAIN entries' = S /\ \A q \in S : entries'[q] = cache[q]
    BY <2>3 DEF Restrict
  <2> QED
    BY <1>2, <1>5, <2>2, <2>4 DEF Sound
<1>7. CASE ~(Cardinality(DOMAIN cache) > MaxSize)
  <2>1. entries' = cache
    BY <1>7 DEF Set
  <2> HIDE DEF cache
  <2>2. Small(cache)
    BY <1>3, <1>7, Bounds DEF Small
  <2> QED
    BY <1>2, <1>5, <2>1, <2>2 DEF Sound
<1> QED
  BY <1>6, <1>7

LEMMA SetKeepsInv ==
  ASSUME CacheInv, NEW w \in Workers, Set(w)
  PROVE  CacheInv'
<1>1. /\ UNCHANGED <<now, up, image, disk, wpage, wbegan, failures, failed,
                     clears, seen, cleared, age>>
      /\ save = "none" /\ save' = "marshal" /\ up
      /\ wpc' = [wpc EXCEPT ![w] = "set"]
  BY DEF Set, history
<1>2. Scalars'
  BY <1>1 DEF CacheInv, Scalars
<1>3. WorkersInTime'
  BY <1>1 DEF CacheInv, WorkersInTime
<1>4. Copies'
  BY <1>1, SetStoresSound DEF CacheInv, Copies, Writing
<1>5. Mirrored' /\ Fresh'
  BY <1>1 DEF CacheInv, Mirrored, Writing, Fresh, HitsAreFresh
<1> QED
  BY <1>2, <1>3, <1>4, <1>5 DEF CacheInv

LEMMA ClearKeepsInv ==
  ASSUME CacheInv, Clear
  PROVE  CacheInv'
<1>1. /\ UNCHANGED <<now, up, image, disk, wpc, wpage, wbegan, failures, failed,
                     cleared, age>>
      /\ save = "none" /\ save' = "marshal" /\ up
      /\ entries' = NoEntries
      /\ clears < MaxClears /\ clears' = clears + 1 /\ seen' = clears + 1
  BY DEF Clear, worker
<1>2. Scalars'
  BY <1>1, Bounds DEF CacheInv, Scalars
<1>3. WorkersInTime'
  BY <1>1 DEF CacheInv, WorkersInTime
<1>4. Copies'
  BY <1>1, EmptyIsSound DEF CacheInv, Copies, Writing
<1>5. Mirrored' /\ Fresh'
  BY <1>1 DEF CacheInv, Mirrored, Writing, Fresh, HitsAreFresh
<1> QED
  BY <1>2, <1>3, <1>4, <1>5 DEF CacheInv

LEMMA PersistMarshalKeepsInv ==
  ASSUME CacheInv, PersistMarshal
  PROVE  CacheInv'
<1>1. /\ UNCHANGED <<now, up, entries, disk, wpc, wpage, wbegan, failures, failed,
                     clears, seen, cleared, age>>
      /\ save = "marshal" /\ save' = "truncate" /\ up
  BY DEF PersistMarshal, worker, history
<1>2. image' = ValidAt(entries, now)
  BY DEF PersistMarshal, Valid, Before, ValidAt
<1>3. Scalars'
  BY <1>1 DEF CacheInv, Scalars
<1>4. WorkersInTime'
  BY <1>1 DEF CacheInv, WorkersInTime
<1>5. Copies'
  <2>1. Sound(image', seen, now)
    BY <1>2, SoundValid DEF CacheInv, Copies
  <2> QED
    BY <1>1, <2>1 DEF CacheInv, Copies, Writing
<1>6. Mirrored'
  BY <1>1, <1>2, ValidTwice DEF Mirrored
<1>7. Fresh'
  BY <1>1 DEF CacheInv, Fresh, HitsAreFresh
<1> QED
  BY <1>3, <1>4, <1>5, <1>6, <1>7 DEF CacheInv

LEMMA PersistTruncateKeepsInv ==
  ASSUME CacheInv, PersistTruncate
  PROVE  CacheInv'
<1>1. /\ UNCHANGED <<now, up, entries, image, wpc, wpage, wbegan, failures, failed,
                     clears, seen, cleared, age>>
      /\ save = "truncate" /\ save' = "write" /\ up
      /\ disk' = NoEntries
  BY DEF PersistTruncate, worker, history
<1>2. Scalars'
  BY <1>1 DEF CacheInv, Scalars
<1>3. WorkersInTime'
  BY <1>1 DEF CacheInv, WorkersInTime
<1>4. Copies'
  BY <1>1, EmptyIsSound DEF CacheInv, Copies, Writing
<1>5. Mirrored' /\ Fresh'
  BY <1>1 DEF CacheInv, Mirrored, Writing, Fresh, HitsAreFresh
<1> QED
  BY <1>2, <1>3, <1>4, <1>5 DEF CacheInv

LEMMA UnlockKeepsWorkers ==
  ASSUME WorkersInTime, Unlock, UNCHANGED now
  PROVE  WorkersInTime'
BY DEF WorkersInTime, Unlock

LEMMA PersistWriteKeepsInv ==
  ASSUME CacheInv, PersistWrite
  PROVE  CacheInv'
<1>1. /\ UNCHANGED <<now, up, entries, image, failures, clears, seen, age>>
      /\ save = "write" /\ save' = "none" /\ up
      /\ disk' = image /\ cleared' = seen
  BY DEF PersistWrite, Unlock
<1>2. Scalars'
  <2>1. failed' \in BOOLEAN /\ up' \in BOOLEAN
    BY <1>1, Zenon DEF PersistWrite, CacheInv, Scalars
  <2>2. /\ now' \in 0..MaxTime /\ failures' \in 0..MaxFailures
        /\ clears' \in 0..MaxClears /\ seen' \in 0..clears'
    BY <1>1 DEF CacheInv, Scalars
  <2>3. cleared' \in 0..seen'
    BY <1>1, Bounds DEF CacheInv, Scalars
  <2> QED
    BY <1>1, <2>1, <2>2, <2>3 DEF Scalars
<1>3. WorkersInTime'
  BY <1>1, UnlockKeepsWorkers DEF CacheInv, PersistWrite
<1>4. Copies'
  BY <1>1 DEF CacheInv, Copies, Writing
<1>5. Mirrored'
  BY <1>1 DEF CacheInv, Mirrored, Writing
<1>6. Fresh'
  BY <1>1 DEF CacheInv, Fresh, HitsAreFresh
<1> QED
  BY <1>2, <1>3, <1>4, <1>5, <1>6 DEF CacheInv

LEMMA PersistFailsKeepsInv ==
  ASSUME CacheInv, PersistFails
  PROVE  CacheInv'
<1>1. /\ UNCHANGED <<now, up, entries, image, disk, clears, seen, cleared, age>>
      /\ Writing /\ save' = "none" /\ up
      /\ failures < MaxFailures /\ failures' = failures + 1
  BY DEF PersistFails, Unlock, Writing, history
<1>2. failed' = TRUE
  BY DEF PersistFails
<1>3. Scalars'
  <2>1. failed' \in BOOLEAN /\ up' \in BOOLEAN
    BY <1>1, <1>2, Zenon DEF CacheInv, Scalars
  <2>2. failures' \in 0..MaxFailures
    BY <1>1, Bounds DEF CacheInv, Scalars
  <2> QED
    BY <1>1, <2>1, <2>2 DEF CacheInv, Scalars
<1>4. WorkersInTime'
  BY <1>1, UnlockKeepsWorkers DEF CacheInv, PersistFails
<1>5. Copies'
  <2>1. now \in Nat /\ seen \in Nat /\ cleared \in Nat /\ cleared <= seen
    BY Bounds DEF CacheInv, Scalars
  <2>2. Sound(image, seen, now)
    BY <1>1 DEF CacheInv, Copies
  <2>3. Sound(image, cleared, now)
    BY <2>1, <2>2, SoundWeaker
  <2> QED
    BY <1>1, <2>3 DEF CacheInv, Copies, Writing
<1>6. Mirrored'
  BY <1>1, <1>2 DEF Mirrored, Writing
<1>7. Fresh'
  BY <1>1 DEF CacheInv, Fresh, HitsAreFresh
<1> QED
  BY <1>3, <1>4, <1>5, <1>6, <1>7 DEF CacheInv

LEMMA CrashKeepsInv ==
  ASSUME CacheInv, Crash
  PROVE  CacheInv'
<1>1. /\ UNCHANGED <<now, disk, wpage, wbegan, failures, failed, clears, seen,
                     cleared, age>>
      /\ save' = "none" /\ entries' = NoEntries /\ image' = NoEntries
      /\ wpc' = [w \in Workers |-> "idle"]
  BY DEF Crash, history
<1>2. up' = FALSE
  BY DEF Crash
<1>3. Scalars'
  <2>1. failed' \in BOOLEAN /\ up' \in BOOLEAN
    BY <1>1, <1>2, Zenon DEF CacheInv, Scalars
  <2> QED
    BY <1>1, <2>1 DEF CacheInv, Scalars
<1>4. WorkersInTime'
  BY <1>1 DEF CacheInv, WorkersInTime
<1>5. Copies'
  BY <1>1, EmptyIsSound DEF CacheInv, Copies, Writing
<1>6. Mirrored'
  BY <1>1, <1>2 DEF Mirrored, Writing
<1>7. Fresh'
  BY <1>1 DEF CacheInv, Fresh, HitsAreFresh
<1> QED
  BY <1>3, <1>4, <1>5, <1>6, <1>7 DEF CacheInv

LEMMA RestartKeepsInv ==
  ASSUME CacheInv, Restart
  PROVE  CacheInv'
<1>1. /\ UNCHANGED <<now, save, image, disk, wpc, wpage, wbegan, failures, clears,
                     cleared, age>>
      /\ save = "none" /\ seen' = cleared
  BY DEF Restart, worker, CacheInv, Scalars
<1>2. entries' = ValidAt(disk, now)
  BY DEF Restart, Loaded, Valid, Before, ValidAt
<1>3. Scalars'
  <2>1. failed' \in BOOLEAN /\ up' \in BOOLEAN
    BY Zenon DEF Restart
  <2>2. seen' \in 0..clears' /\ cleared' \in 0..seen'
    BY <1>1, Bounds DEF CacheInv, Scalars
  <2> QED
    BY <1>1, <2>1, <2>2 DEF CacheInv, Scalars
<1>4. WorkersInTime'
  BY <1>1 DEF CacheInv, WorkersInTime
<1>5. Copies'
  <2>1. Sound(entries', cleared, now)
    BY <1>2, SoundValid DEF CacheInv, Copies
  <2> QED
    BY <1>1, <2>1 DEF CacheInv, Copies, Writing
<1>6. Mirrored'
  BY <1>1, <1>2, ValidTwice DEF Mirrored, Writing
<1>7. Fresh'
  BY <1>1 DEF CacheInv, Fresh, HitsAreFresh
<1> QED
  BY <1>3, <1>4, <1>5, <1>6, <1>7 DEF CacheInv

LEMMA TickKeepsInv ==
  ASSUME CacheInv, Tick
  PROVE  CacheInv'
<1>1. /\ UNCHANGED <<up, entries, save, image, disk, wpc, wpage, wbegan, failures,
                     failed, clears, seen, cleared, age>>
      /\ now < MaxTime /\ now' = now + 1
  BY DEF Tick, worker, history
<1>2. /\ now \in Nat /\ now' \in Nat /\ now <= now' /\ now' \in 0..MaxTime
      /\ seen \in Nat /\ cleared \in Nat
  BY <1>1, Bounds DEF CacheInv, Scalars
<1>3. Scalars'
  BY <1>1, <1>2 DEF CacheInv, Scalars
<1>4. WorkersInTime'
  <2>1. \A w \in Workers : wpc'[w] = "scan" => wbegan'[w] <= now' /\ now' <= wbegan'[w] + ScanLimit
    BY <1>1, <1>2, Bounds DEF CacheInv, WorkersInTime, Tick, ScansInTime
  <2> QED
    BY <1>1, <2>1 DEF CacheInv, WorkersInTime
<1>5. Copies'
  <2> DEFINE epoch == IF Writing THEN seen ELSE cleared
  <2>1. epoch \in Nat /\ epoch' = epoch
    BY <1>1, <1>2 DEF Writing
  <2>2. Sound(entries, seen, now) /\ Sound(image, epoch, now) /\ Sound(disk, cleared, now)
    BY DEF CacheInv, Copies
  <2>3. seen <= seen /\ epoch <= epoch /\ cleared <= cleared
    BY <1>2, <2>1
  <2> HIDE DEF epoch
  <2>4. Sound(entries, seen, now') /\ Sound(image, epoch, now') /\ Sound(disk, cleared, now')
    BY <1>2, <2>1, <2>2, <2>3, SoundWeaker
  <2> QED
    BY <1>1, <2>1, <2>4 DEF Copies, Writing, epoch
<1>6. Mirrored'
  <2> DEFINE epoch == IF Writing THEN seen ELSE cleared
  <2>1. Sound(entries, seen, now) /\ Sound(image, epoch, now) /\ Sound(disk, cleared, now)
    BY DEF CacheInv, Copies
  <2>2. ValidAt(entries, now) = ValidAt(disk, now) => ValidAt(entries, now') = ValidAt(disk, now')
    BY <1>2, <2>1, AgreeLater
  <2>3. ValidAt(image, now) = ValidAt(entries, now) => ValidAt(image, now') = ValidAt(entries, now')
    BY <1>2, <2>1, AgreeLater
  <2> QED
    BY <1>1, <2>2, <2>3 DEF CacheInv, Mirrored, Writing
<1>7. Fresh'
  BY <1>1 DEF CacheInv, Fresh, HitsAreFresh
<1> QED
  BY <1>3, <1>4, <1>5, <1>6, <1>7 DEF CacheInv

LEMMA CacheInvNext == CacheInv /\ [Next]_vars => CacheInv'
<1> SUFFICES ASSUME CacheInv, [Next]_vars PROVE CacheInv'
  OBVIOUS
<1>1. CASE \E w \in Workers, url \in Urls : GetHit(w, url) \/ GetMiss(w, url)
  BY <1>1, LookupKeepsInv
<1>2. ASSUME NEW w \in Workers, ScanFails(w) PROVE CacheInv'
  BY <1>2, ScanFailsKeepsInv
<1>3. ASSUME NEW w \in Workers, Set(w) PROVE CacheInv'
  BY <1>3, SetKeepsInv
<1>4. CASE Clear
  BY <1>4, ClearKeepsInv
<1>5. CASE PersistMarshal
  BY <1>5, PersistMarshalKeepsInv
<1>6. CASE PersistTruncate
  BY <1>6, PersistTruncateKeepsInv
<1>7. CASE PersistWrite
  BY <1>7, PersistWriteKeepsInv
<1>8. CASE PersistFails
  BY <1>8, PersistFailsKeepsInv
<1>9. CASE Crash
  BY <1>9, CrashKeepsInv
<1>10. CASE Restart
  BY <1>10, RestartKeepsInv
<1>11. CASE Tick
  BY <1>11, TickKeepsInv
<1>12. CASE UNCHANGED vars
  <2>1. Scalars' /\ WorkersInTime' /\ Fresh'
    BY <1>12 DEF CacheInv, Scalars, WorkersInTime, Fresh, HitsAreFresh, vars
  <2>2. Copies' /\ Mirrored'
    BY <1>12 DEF CacheInv, Copies, Mirrored, Writing, vars
  <2> QED
    BY <2>1, <2>2 DEF CacheInv
<1> QED
  BY <1>1, <1>2, <1>3, <1>4, <1>5, <1>6, <1>7, <1>8, <1>9, <1>10, <1>11, <1>12 DEF Next

LEMMA CacheInvHolds == Spec => []CacheInv
BY CacheInvInit, CacheInvNext, PTL DEF Spec

-----------------------------------------------------------------------------
(* The invariants *)

\* The cache, what is being saved of it and its file never exceed maxSize.
THEOREM CacheIsBounded == Spec => []CacheBounded
<1>1. CacheInv => CacheBounded
  BY DEF CacheInv, Copies, Sound, Small, CacheBounded
<1> QED
  BY <1>1, CacheInvHolds, PTL

\* A hit is at most TTL and one scan old, also after a restart.
THEOREM CacheServesFresh == Spec => []HitsAreFresh
<1>1. CacheInv => HitsAreFresh
  BY DEF CacheInv, Fresh
<1> QED
  BY <1>1, CacheInvHolds, PTL

\* After a Clear and a good save no earlier entry comes back.
THEOREM CacheStaysCleared == Spec => []ClearedStaysCleared
<1>1. CacheInv => ClearedStaysCleared
  <2> SUFFICES ASSUME CacheInv PROVE ClearedStaysCleared
    OBVIOUS
  <2>1. now \in Nat /\ seen \in Nat /\ cleared \in Nat /\ cleared <= seen
        /\ cleared <= cleared /\ now <= now
    BY Bounds DEF CacheInv, Scalars
  <2>2. Sound(entries, cleared, now) /\ Sound(image, cleared, now) /\ Sound(disk, cleared, now)
    BY <2>1, SoundWeaker DEF CacheInv, Copies
  <2>3. ASSUME NEW cache, Sound(cache, cleared, now), NEW p \in DOMAIN cache
        PROVE  cache[p].epoch >= cleared
    <3>1. cleared <= cache[p].epoch /\ cache[p].epoch \in Nat
      BY <2>3, Bounds DEF Sound, SoundEntry, CacheEntry
    <3> QED
      BY <2>1, <3>1
  <2> QED
    BY <2>2, <2>3, Zenon DEF ClearedStaysCleared
<1> QED
  BY <1>1, CacheInvHolds, PTL

\* Unless the last save failed, a restart between saves loses nothing.
THEOREM CacheFileMirrors == Spec => []FileMirrorsMemory
<1>1. CacheInv => FileMirrorsMemory
  BY DEF CacheInv, Mirrored, FileMirrorsMemory, Valid, Before, ValidAt
<1> QED
  BY <1>1, CacheInvHolds, PTL
=============================================================================
