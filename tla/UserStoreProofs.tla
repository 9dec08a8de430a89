-------------------------- MODULE UserStoreProofs ---------------------------
(***************************************************************************)
(* The user store for every number of users, requests and months and in    *)
(* every time zone: its types, the quota of a period, and what a save      *)
(* leaves in the file although it marshals without the lock.               *)
(***************************************************************************)
EXTENDS UserStore, TLAPS

(***************************************************************************)
(* Types.  Whoever handles a request has its user, and save has the users  *)
(* it has still to read.                                                   *)
(***************************************************************************)
RequestsHaveUsers ==
  \A q \in Requests : rpc[q] = "handle" => rkey[q] \in Keys /\ users[rkey[q]] \in User

MarshalsUsers ==
  /\ \A k \in toRead \union reading : users[k] \in User
  /\ \A k \in reading : image[k] \in User
  /\ persist \notin {"scans", "reset"} => reading = {}
  /\ persist = "write" => toRead = {}
  /\ \A j, k \in reading : j = k

\* Nothing runs in a process that has ended.
Down ==
  process # "up" => /\ \A q \in Requests : rpc[q] = "idle"
                    /\ persist = "wait" /\ toRead = {} /\ reading = {}

StoreInv == TypeOK /\ RequestsHaveUsers /\ MarshalsUsers /\ Down

-----------------------------------------------------------------------------

LEMMA UserFields ==
  ASSUME NEW u \in User
  PROVE  /\ u.requests \in Nat /\ u.scans \in Nat /\ u.reset \in Nat
         /\ u.requests <= MaxRequests /\ u.scans <= MaxScans /\ u.reset <= MaxMonth + 2
         /\ u # Absent
<1>1. u.requests \in 0..MaxRequests /\ u.scans \in 0..MaxScans /\ u.reset \in 0..(MaxMonth + 2)
  BY DEF User
<1>2. u # Absent
  BY AbsentAssumption
<1> HIDE DEF User
<1> QED
  BY <1>1, <1>2, UserStoreAssumption DEF UserStoreAssumption

\* A record with counters in their range is a user.
LEMMA UserMade ==
  ASSUME NEW r \in Nat, NEW s \in Nat, NEW t \in Nat,
         r <= MaxRequests, s <= MaxScans, t <= MaxMonth + 2
  PROVE  [requests |-> r, scans |-> s, reset |-> t] \in User
<1>1. r \in 0..MaxRequests /\ s \in 0..MaxScans /\ t \in 0..(MaxMonth + 2)
  BY UserStoreAssumption DEF UserStoreAssumption
<1> QED
  BY <1>1 DEF User

LEMMA FreshUser == Fresh \in User
BY UserMade, UserStoreAssumption DEF Fresh, UserStoreAssumption

\* What maybeResetLocked leaves of a user.
LEMMA CurrentUser ==
  ASSUME TypeOK, NEW u \in User
  PROVE  /\ Current(u) \in User
         /\ Elapsed(u) => Current(u).scans = 0 /\ Current(u).reset = nextMonthStart
         /\ ~Elapsed(u) => Current(u) = u
<1>1. u.requests \in Nat /\ u.requests <= MaxRequests
  BY UserFields
<1>2. CASE Elapsed(u)
  <2> DEFINE t == nextMonthStart
             c == [requests |-> u.requests, scans |-> 0, reset |-> t]
  <2>1. t \in Nat /\ t <= MaxMonth + 2
    <3>1. month \in 1..MaxMonth
      BY DEF TypeOK
    <3> QED
      BY <3>1, UserStoreAssumption DEF nextMonthStart, LocalMonth, UserStoreAssumption
  <2> HIDE DEF t
  <2>2. c \in User
    BY <1>1, <2>1, UserMade, UserStoreAssumption DEF UserStoreAssumption
  <2>3. Current(u) = c
    BY <1>2 DEF Current, User, t
  <2>4. c.scans = 0 /\ c.reset = t
    OBVIOUS
  <2> HIDE DEF c
  <2> QED
    BY <1>2, <2>2, <2>3, <2>4 DEF t
<1>3. CASE ~Elapsed(u)
  BY <1>3 DEF Current
<1> QED
  BY <1>2, <1>3

\* A counted request is still a user's.
LEMMA OneMoreRequest ==
  ASSUME NEW u \in User, u.requests < MaxRequests
  PROVE  LET v == [u EXCEPT !.requests = @ + 1]
         IN  v \in User /\ v.scans = u.scans /\ v.reset = u.reset
<1> DEFINE v == [requests |-> u.requests + 1, scans |-> u.scans, reset |-> u.reset]
<1>1. [u EXCEPT !.requests = @ + 1] = v
  BY DEF User
<1>2. v \in User
  BY UserFields, UserMade, UserStoreAssumption DEF UserStoreAssumption
<1> QED
  BY <1>1, <1>2

LEMMA OneMoreScan ==
  ASSUME NEW u \in User, u.scans < MaxScans
  PROVE  LET v == [u EXCEPT !.scans = @ + 1]
         IN  v \in User /\ v.scans = u.scans + 1 /\ v.reset = u.reset
<1> DEFINE v == [requests |-> u.requests, scans |-> u.scans + 1, reset |-> u.reset]
<1>1. [u EXCEPT !.scans = @ + 1] = v
  BY DEF User
<1>2. v \in User
  BY UserFields, UserMade, UserStoreAssumption DEF UserStoreAssumption
<1> QED
  BY <1>1, <1>2

\* Every request step but OtherRequest gives its user k a new record u, with n
\* scans granted.
LEMMA RequestSteps ==
  ASSUME StoreInv, NEW q \in Requests, RequestStep(q), ~OtherRequest(q)
  PROVE  \E k \in Keys : \E u \in User : \E n \in {0, 1} :
           /\ users[k] \in User
           /\ SetUser(k, u, n)
           /\ rpc' \in [Requests -> {"idle", "handle"}]
           /\ rkey' \in [Requests -> Keys \union {Absent}]
           /\ \A p \in Requests : rpc'[p] = "handle" =>
                rkey'[p] = k \/ (rpc[p] = "handle" /\ rkey'[p] = rkey[p])
           /\ dirty' \in BOOLEAN /\ (dirty => dirty') /\ (dirty' \/ u = users[k])
           /\ \/ n = 0 /\ u.scans = users[k].scans /\ u.reset = users[k].reset
              \/ /\ u.reset = Current(users[k]).reset
                 /\ u.scans = Current(users[k]).scans + n
                 /\ n = 1 => ~AtLimit(k)
<1>0. /\ TypeOK /\ RequestsHaveUsers /\ dirty \in BOOLEAN
      /\ rpc \in [Requests -> {"idle", "handle"}]
      /\ rkey \in [Requests -> Keys \union {Absent}]
  BY DEF StoreInv, TypeOK
<1>1. ASSUME NEW k \in Keys, RecordUsage(q, k)
      PROVE  \E u \in User :
           /\ users[k] \in User
           /\ SetUser(k, u, 0)
           /\ rpc' \in [Requests -> {"idle", "handle"}]
           /\ rkey' \in [Requests -> Keys \union {Absent}]
           /\ \A p \in Requests : rpc'[p] = "handle" =>
                rkey'[p] = k \/ (rpc[p] = "handle" /\ rkey'[p] = rkey[p])
           /\ dirty'
           /\ u.scans = users[k].scans /\ u.reset = users[k].reset
  <2> DEFINE u == [users[k] EXCEPT !.requests = @ + 1]
  <2>1. users[k] \in User /\ users[k].requests < MaxRequests
    BY <1>0, <1>1 DEF RecordUsage, TypeOK, UserMap
  <2>2. u \in User /\ u.scans = users[k].scans /\ u.reset = users[k].reset
    BY <2>1, OneMoreRequest
  <2>3. SetUser(k, u, 0) /\ dirty'
    BY <1>1 DEF RecordUsage
  <2>4. /\ rpc' = [rpc EXCEPT ![q] = "handle"]
        /\ rkey' = [rkey EXCEPT ![q] = k]
    BY <1>1 DEF RecordUsage
  <2>5. /\ rpc' \in [Requests -> {"idle", "handle"}]
        /\ rkey' \in [Requests -> Keys \union {Absent}]
        /\ \A p \in Requests : rpc'[p] = "handle" =>
             rkey'[p] = k \/ (rpc[p] = "handle" /\ rkey'[p] = rkey[p])
    BY <1>0, <2>4
  <2> HIDE DEF u
  <2> QED
    BY <2>1, <2>2, <2>3, <2>5
<1> DEFINE k == rkey[q]
           c == Current(users[k])
<1>2. ASSUME rpc[q] = "handle", Done(q)
      PROVE  /\ k \in Keys /\ users[k] \in User /\ c \in User
             /\ ~Elapsed(users[k]) => c = users[k]
             /\ rpc' \in [Requests -> {"idle", "handle"}]
             /\ rkey' \in [Requests -> Keys \union {Absent}]
             /\ \A p \in Requests : rpc'[p] = "handle" =>
                  rkey'[p] = k \/ (rpc[p] = "handle" /\ rkey'[p] = rkey[p])
  <2>1. k \in Keys /\ users[k] \in User
    BY <1>0, <1>2 DEF RequestsHaveUsers
  <2>2. c \in User /\ (~Elapsed(users[k]) => c = users[k])
    BY <1>0, <2>1, CurrentUser
  <2>3. /\ rpc' \in [Requests -> {"idle", "handle"}]
        /\ rkey' \in [Requests -> Keys \union {Absent}]
        /\ \A p \in Requests : rpc'[p] = "handle" => rpc[p] = "handle" /\ rkey'[p] = rkey[p]
    BY <1>0, <1>2 DEF Done
  <2> QED
    BY <2>1, <2>2, <2>3
<1>3. ASSUME ScanGranted(q)
      PROVE  \E u \in User :
           /\ SetUser(k, u, 1) /\ ~AtLimit(k) /\ dirty'
           /\ u.reset = c.reset /\ u.scans = c.scans + 1
  <2> DEFINE u == [c EXCEPT !.scans = @ + 1]
  <2>1. /\ rpc[q] = "handle" /\ Done(q) /\ c.scans < MaxScans
        /\ SetUser(k, u, 1) /\ ~AtLimit(k) /\ dirty'
    BY <1>3 DEF ScanGranted
  <2>2. u \in User /\ u.scans = c.scans + 1 /\ u.reset = c.reset
    BY <1>2, <2>1, OneMoreScan
  <2> HIDE DEF u
  <2> QED
    BY <2>1, <2>2
<1>4. CASE ScanGranted(q)
  <2>1. rpc[q] = "handle" /\ Done(q)
    BY <1>4 DEF ScanGranted
  <2>2. PICK u \in User : /\ SetUser(k, u, 1) /\ ~AtLimit(k) /\ dirty'
                          /\ u.reset = c.reset /\ u.scans = c.scans + 1
    BY <1>3, <1>4
  <2>3. dirty' \in BOOLEAN
    BY <1>4 DEF ScanGranted
  <2> HIDE DEF k
  <2> QED
    BY <1>2, <2>1, <2>2, <2>3 DEF c
<1>5. CASE QuotaSeen(q)
  <2>1. /\ rpc[q] = "handle" /\ Done(q) /\ SetUser(k, c, 0)
        /\ dirty' = (dirty \/ Elapsed(users[k]))
    BY <1>5 DEF QuotaSeen
  <2>2. dirty' \in BOOLEAN /\ (dirty => dirty') /\ (dirty' \/ c = users[k])
    <3>1. Elapsed(users[k]) \in BOOLEAN
      BY DEF Elapsed
    <3> HIDE DEF c, k
    <3> QED
      BY <1>0, <1>2, <2>1, <3>1
  <2>3. c.scans = c.scans + 0
    BY <1>2, <2>1, UserFields
  <2> HIDE DEF k
  <2> QED
    BY <1>2, <2>1, <2>2, <2>3 DEF c
<1>6. CASE \E j \in Keys : RecordUsage(q, j)
  <2>1. PICK j \in Keys : RecordUsage(q, j)
    BY <1>6
  <2>2. dirty' \in BOOLEAN
    BY <2>1 DEF RecordUsage
  <2> QED
    BY <1>1, <2>1, <2>2
<1> QED
  BY <1>4, <1>5, <1>6 DEF RequestStep, ScanRefused

\* What no request step touches.
LEMMA RequestsLeave ==
  ASSUME NEW q \in Requests, RequestStep(q)
  PROVE  process = "up" /\ UNCHANGED <<clockVars, saveVars, stopping, fileVars, process, lost>>
BY DEF RequestStep, RecordUsage, ScanGranted, ScanRefused, QuotaSeen, OtherRequest

LEMMA StoreInvRequest ==
  ASSUME StoreInv, NEW q \in Requests, RequestStep(q)
  PROVE  StoreInv'
<1>0. /\ TypeOK /\ RequestsHaveUsers /\ MarshalsUsers
      /\ process = "up"
      /\ UNCHANGED <<clockVars, saveVars, stopping, fileVars, process, lost>>
  BY RequestsLeave DEF StoreInv
<1>1. CASE OtherRequest(q)
  <2>1. UNCHANGED <<users, dirty, late, granted>> /\ Done(q)
    BY <1>1 DEF OtherRequest
  <2>2. /\ rpc' \in [Requests -> {"idle", "handle"}]
        /\ rkey' \in [Requests -> Keys \union {Absent}]
        /\ \A p \in Requests : rpc'[p] = "handle" => rpc[p] = "handle" /\ rkey'[p] = rkey[p]
    BY <1>0, <2>1 DEF Done, TypeOK
  <2>3. TypeOK'
    BY <1>0, <2>1, <2>2 DEF TypeOK, clockVars, saveVars, fileVars
  <2>4. RequestsHaveUsers' /\ MarshalsUsers' /\ Down'
    BY <1>0, <2>1, <2>2 DEF RequestsHaveUsers, MarshalsUsers, Down, saveVars
  <2> QED
    BY <2>3, <2>4 DEF StoreInv
<1>2. CASE ~OtherRequest(q)
  <2>1. PICK k \in Keys, u \in User, n \in {0, 1} :
           /\ users[k] \in User
           /\ SetUser(k, u, n)
           /\ rpc' \in [Requests -> {"idle", "handle"}]
           /\ rkey' \in [Requests -> Keys \union {Absent}]
           /\ \A p \in Requests : rpc'[p] = "handle" =>
                rkey'[p] = k \/ (rpc[p] = "handle" /\ rkey'[p] = rkey[p])
           /\ dirty' \in BOOLEAN
    BY <1>2, RequestSteps
  <2>2. users' \in UserMap /\ users'[k] = u /\ \A j \in Keys \ {k} : users'[j] = users[j]
    BY <1>0, <2>1 DEF SetUser, TypeOK, UserMap
  <2>3. granted' \in [Keys -> Nat]
    <3> DEFINE g == IF lost THEN 0
                    ELSE (IF u.reset = users[k].reset THEN granted[k] ELSE 0) + n
    <3>1. granted \in [Keys -> Nat]
      BY <1>0 DEF TypeOK
    <3>2. g \in Nat
      BY <3>1
    <3>3. granted' = [granted EXCEPT ![k] = g]
      BY <2>1 DEF SetUser
    <3> HIDE DEF g
    <3> QED
      BY <3>1, <3>2, <3>3
  <2>4. late' \in BOOLEAN
    BY <1>0, <2>1 DEF SetUser, TypeOK
  <2>5. TypeOK'
    BY <1>0, <2>1, <2>2, <2>3, <2>4 DEF TypeOK, clockVars, saveVars, fileVars
  <2>6. RequestsHaveUsers' /\ MarshalsUsers' /\ Down'
    BY <1>0, <2>1, <2>2 DEF RequestsHaveUsers, MarshalsUsers, Down, TypeOK, saveVars
  <2> QED
    BY <2>5, <2>6 DEF StoreInv
<1> QED
  BY <1>1, <1>2

\* A step that leaves the users and their requests alone.
LEMMA StoreInvKept ==
  ASSUME StoreInv, TypeOK', UNCHANGED <<users, requestVars>>, MarshalsUsers', Down'
  PROVE  StoreInv'
BY DEF StoreInv, RequestsHaveUsers, requestVars

LEMMA NoUsersTyped == NoUsers \in UserMap
BY DEF NoUsers, UserMap

LEMMA FileTyped ==
  ASSUME NEW st \in {"empty", "torn", "whole"}, NEW m \in UserMap
  PROVE  File(st, m) \in Files /\ File(st, m).users = m /\ File(st, m).state = st
BY DEF File, Files

\* One field of the half-read user is read.
LEMMA FieldRead ==
  ASSUME TypeOK, MarshalsUsers, NEW k \in reading
  PROVE  /\ [image EXCEPT ![k].scans = users[k].scans]
              = [image EXCEPT ![k] = [image[k] EXCEPT !.scans = users[k].scans]]
         /\ [image EXCEPT ![k].reset = users[k].reset]
              = [image EXCEPT ![k] = [image[k] EXCEPT !.reset = users[k].reset]]
         /\ [image[k] EXCEPT !.scans = users[k].scans] \in User
         /\ [image[k] EXCEPT !.reset = users[k].reset] \in User
<1>1. k \in Keys /\ users[k] \in User /\ image[k] \in User
  BY DEF TypeOK, MarshalsUsers
<1>2. /\ users[k].scans \in 0..MaxScans /\ users[k].reset \in 0..(MaxMonth + 2)
  BY <1>1 DEF User
<1>3. /\ [image[k] EXCEPT !.scans = users[k].scans] \in User
      /\ [image[k] EXCEPT !.reset = users[k].reset] \in User
  BY <1>1, <1>2 DEF User
<1>4. /\ [image EXCEPT ![k].scans = users[k].scans]
           = [image EXCEPT ![k] = [image[k] EXCEPT !.scans = users[k].scans]]
      /\ [image EXCEPT ![k].reset = users[k].reset]
           = [image EXCEPT ![k] = [image[k] EXCEPT !.reset = users[k].reset]]
  BY Zenon DEF TypeOK, UserMap
<1> QED
  BY <1>3, <1>4

LEMMA StoreInvPersist ==
  ASSUME StoreInv, PersistStep
  PROVE  StoreInv'
<1>0. /\ process = "up" /\ UNCHANGED <<users, requestVars, granted, lost, process>>
      /\ UNCHANGED <<clockVars, stopping, late>>
      /\ TypeOK /\ MarshalsUsers /\ disk \in Files
  BY DEF StoreInv, TypeOK, PersistStep, PersistTick, PersistStop, ReadRequests, ReadScans,
         ReadReset, SaveTruncate, SaveWrite, SaveFails
<1>d. Down'
  BY <1>0 DEF Down
<1>1. CASE PersistTick \/ PersistStop
  <2>1. /\ persist' = "read" /\ last' \in BOOLEAN /\ dirty' \in BOOLEAN
        /\ image' = NoUsers /\ toRead' = {k \in Keys : users[k] # Absent} /\ reading' = {}
        /\ UNCHANGED fileVars
    BY <1>0, <1>1 DEF PersistTick, PersistStop, SaveBegins, TypeOK
  <2>2. TypeOK'
    BY <1>0, <2>1, NoUsersTyped DEF TypeOK, clockVars, requestVars, fileVars
  <2>3. MarshalsUsers'
    BY <1>0, <2>1 DEF MarshalsUsers, TypeOK, UserMap
  <2> QED
    BY <1>0, <1>d, <2>2, <2>3, StoreInvKept
<1>2. ASSUME NEW k \in Keys, ReadRequests(k)
      PROVE  StoreInv'
  <2> DEFINE r == [Fresh EXCEPT !.requests = users[k].requests]
  <2>1. users[k] \in User
    BY <1>0, <1>2 DEF ReadRequests, MarshalsUsers
  <2>2. r \in User
    <3>1. users[k].requests \in 0..MaxRequests
      BY <2>1 DEF User
    <3> QED
      BY <3>1, FreshUser DEF User
  <2>3. image' = [image EXCEPT ![k] = r]
    BY <1>2 DEF ReadRequests
  <2> HIDE DEF r
  <2>4. image' \in UserMap /\ image'[k] = r
    BY <1>0, <2>2, <2>3 DEF TypeOK, UserMap
  <2>5. /\ toRead' = toRead \ {k} /\ reading' = {k} /\ persist' = "scans"
        /\ UNCHANGED <<last, dirty, fileVars>>
    BY <1>2 DEF ReadRequests
  <2>6. TypeOK'
    BY <1>0, <2>4, <2>5 DEF TypeOK, clockVars, requestVars, fileVars
  <2>7. MarshalsUsers'
    BY <1>0, <2>1, <2>2, <2>4, <2>5 DEF MarshalsUsers, TypeOK
  <2> QED
    BY <1>0, <1>d, <2>6, <2>7, StoreInvKept
<1>3. ASSUME NEW k \in Keys, ReadScans(k) \/ ReadReset(k)
      PROVE  StoreInv'
  <2>1. /\ k \in reading
        /\ UNCHANGED <<last, dirty, toRead, fileVars>>
        /\ \/ /\ image' = [image EXCEPT ![k].scans = users[k].scans]
              /\ persist' = "reset" /\ reading' = reading
           \/ /\ image' = [image EXCEPT ![k].reset = users[k].reset]
              /\ persist' = "read" /\ reading' = {}
    BY <1>3 DEF ReadScans, ReadReset
  <2>2. PICK r \in User : image' = [image EXCEPT ![k] = r]
    BY <1>0, <2>1, FieldRead
  <2>3. /\ image' \in UserMap /\ image'[k] = r
        /\ \A j \in Keys \ {k} : image'[j] = image[j]
    BY <1>0, <2>2 DEF TypeOK, UserMap
  <2>4. TypeOK'
    BY <1>0, <2>1, <2>3 DEF TypeOK, clockVars, requestVars, fileVars
  <2>5. MarshalsUsers'
    BY <1>0, <2>1, <2>3 DEF MarshalsUsers, TypeOK
  <2> QED
    BY <1>0, <1>d, <2>4, <2>5, StoreInvKept
<1>4. CASE SaveTruncate \/ SaveWrite \/ SaveFails
  <2>1. /\ UNCHANGED <<last, dirty, toRead, reading>> /\ image' \in {image, NoUsers}
        /\ persist' \in {"write", "exited", "wait"}
        /\ failed' \in BOOLEAN
    BY <1>0, <1>4 DEF SaveTruncate, SaveWrite, SaveFails, SaveEnds, TypeOK
  <2>a. failures' \in 0..MaxFailures
    <3>1. failures \in 0..MaxFailures /\ MaxFailures \in Nat
      BY <1>0, UserStoreAssumption DEF TypeOK, UserStoreAssumption
    <3>2. failures' = failures \/ (failures < MaxFailures /\ failures' = failures + 1)
      BY <1>4 DEF SaveTruncate, SaveWrite, SaveFails
    <3> QED
      BY <3>1, <3>2
  <2>2. image \in UserMap
    BY <1>0 DEF TypeOK
  <2>3. \/ disk' = disk
        \/ disk' = File("empty", NoUsers)
        \/ disk' = File("torn", NoUsers)
        \/ disk' = File("whole", image)
    BY <1>4 DEF SaveTruncate, SaveWrite, SaveFails
  <2>4. disk' \in Files
    BY <1>0, <2>2, <2>3, NoUsersTyped, FileTyped
  <2>5. TypeOK'
    BY <1>0, <2>1, <2>2, <2>4, <2>a, NoUsersTyped DEF TypeOK, clockVars, requestVars
  <2>6. toRead = {} /\ reading = {}
    BY <1>0, <1>4 DEF SaveTruncate, SaveWrite, SaveFails, MarshalsUsers
  <2>7. MarshalsUsers'
    BY <2>1, <2>6 DEF MarshalsUsers
  <2> QED
    BY <1>0, <1>d, <2>5, <2>7, StoreInvKept
<1> QED
  BY <1>1, <1>2, <1>3, <1>4 DEF PersistStep

LEMMA LoadedTyped ==
  ASSUME NEW file \in Files
  PROVE  Loaded(file) \in UserMap
<1>1. file.users \in UserMap
  BY DEF Files
<1>2. \A k \in Keys : file.users[k] \in User \union {Absent}
  BY <1>1 DEF UserMap
<1> QED
  BY <1>2, FreshUser DEF Loaded, UserMap

LEMMA StoreInvInit == Init => StoreInv
<1> SUFFICES ASSUME Init PROVE StoreInv
  OBVIOUS
<1> DEFINE first == [k \in Keys |-> IF k \in EnvKeys THEN Absent ELSE Fresh]
<1>1. first \in UserMap
  BY FreshUser DEF UserMap
<1>2. disk = File("whole", first)
  BY DEF Init
<1> HIDE DEF first
<1>3. disk \in Files
  BY <1>1, <1>2, FileTyped
<1>4. users \in UserMap
  BY <1>3, LoadedTyped DEF Init
<1>5. TypeOK
  <2>1. month \in 1..MaxMonth /\ failures \in 0..MaxFailures
    BY UserStoreAssumption DEF Init, UserStoreAssumption
  <2>2. /\ rpc \in [Requests -> {"idle", "handle"}]
        /\ rkey \in [Requests -> Keys \union {Absent}]
        /\ granted \in [Keys -> Nat]
        /\ image \in UserMap /\ toRead \in SUBSET Keys /\ reading \in SUBSET Keys
    BY <2>1, NoUsersTyped DEF Init
  <2>3. /\ edge \in BOOLEAN /\ dirty \in BOOLEAN /\ stopping \in BOOLEAN /\ last \in BOOLEAN
        /\ failed \in BOOLEAN /\ late \in BOOLEAN /\ lost \in BOOLEAN
        /\ persist = "wait" /\ process = "up"
    BY Zenon DEF Init
  <2> QED
    BY <1>3, <1>4, <2>1, <2>2, <2>3 DEF TypeOK
<1>6. RequestsHaveUsers /\ MarshalsUsers /\ Down
  BY DEF Init, RequestsHaveUsers, MarshalsUsers, Down
<1> QED
  BY <1>5, <1>6 DEF StoreInv

\* The process ends or starts again; a start takes the users from the file.
LEMMA StoreInvProcess ==
  ASSUME StoreInv, Exit \/ Crash \/ Restart \/ RestartRefused
  PROVE  StoreInv'
<1>0. TypeOK /\ disk \in Files
  BY DEF StoreInv, TypeOK
<1>1. CASE Exit \/ Crash
  <2>1. Ends /\ process' \in {"exited", "crashed"}
    BY <1>1 DEF Exit, Crash
  <2>2. disk' = disk \/ disk' = File("torn", NoUsers)
    BY <1>1 DEF Exit, Crash
  <2>3. disk' \in Files
    BY <1>0, <2>2, NoUsersTyped, FileTyped
  <2>4. TypeOK'
    BY <1>0, <2>1, <2>3, NoUsersTyped DEF TypeOK, Ends, clockVars
  <2>5. /\ toRead' = {} /\ reading' = {} /\ persist' = "wait"
        /\ rpc' = [q \in Requests |-> "idle"]
    BY <2>1 DEF Ends
  <2>6. RequestsHaveUsers' /\ MarshalsUsers' /\ Down'
    BY <2>5 DEF RequestsHaveUsers, MarshalsUsers, Down
  <2> QED
    BY <2>4, <2>6 DEF StoreInv
<1>2. CASE Restart
  <2>1. /\ users' = Loaded(disk) /\ process' = "up" /\ lost' = (lost \/ users' # users)
        /\ UNCHANGED <<clockVars, dirty, requestVars, saveVars, stopping, fileVars, late,
                       granted>>
    BY <1>2 DEF Restart
  <2>2. /\ \A q \in Requests : rpc[q] = "idle"
        /\ toRead = {} /\ reading = {} /\ persist = "wait"
    BY <1>2 DEF Restart, StoreInv, Down
  <2>3. users' \in UserMap
    BY <1>0, <2>1, LoadedTyped
  <2>4. TypeOK'
    BY <1>0, <2>1, <2>3 DEF TypeOK, clockVars, requestVars, saveVars, fileVars
  <2>5. RequestsHaveUsers' /\ MarshalsUsers' /\ Down'
    BY <2>1, <2>2 DEF RequestsHaveUsers, MarshalsUsers, Down, requestVars, saveVars
  <2> QED
    BY <2>4, <2>5 DEF StoreInv
<1>3. CASE RestartRefused
  <2>1. /\ process' = "refused" /\ process # "up"
        /\ UNCHANGED <<clockVars, users, dirty, requestVars, saveVars, stopping, fileVars, late,
                       granted, lost>>
    BY <1>3 DEF RestartRefused
  <2>2. TypeOK'
    BY <1>0, <2>1 DEF TypeOK, clockVars, requestVars, saveVars, fileVars
  <2>3. MarshalsUsers' /\ Down'
    BY <2>1 DEF StoreInv, MarshalsUsers, Down, requestVars, saveVars
  <2> QED
    BY <2>1, <2>2, <2>3, StoreInvKept
<1> QED
  BY <1>1, <1>2, <1>3

LEMMA StoreInvNext == StoreInv /\ [Next]_vars => StoreInv'
<1> SUFFICES ASSUME StoreInv, [Next]_vars PROVE StoreInv'
  OBVIOUS
<1>0. TypeOK
  BY DEF StoreInv
<1>1. CASE \E q \in Requests : RequestStep(q)
  BY <1>1, StoreInvRequest
<1>2. CASE PersistStep
  BY <1>2, StoreInvPersist
<1>3. CASE Exit \/ Crash \/ Restart \/ RestartRefused
  BY <1>3, StoreInvProcess
<1>4. CASE Stop \/ NextLocalMonth \/ NextMonth \/ UNCHANGED vars
  <2>1. /\ UNCHANGED <<users, dirty, requestVars, saveVars, fileVars, process, late, granted,
                       lost>>
        /\ edge' \in BOOLEAN /\ stopping' \in BOOLEAN
    BY <1>0, <1>4 DEF Stop, NextLocalMonth, NextMonth, vars, clockVars, TypeOK
  <2>2. month' \in 1..MaxMonth
    <3>1. month' = month \/ (month < MaxMonth /\ month' = month + 1)
      BY <1>4 DEF Stop, NextLocalMonth, NextMonth, vars, clockVars
    <3> QED
      BY <1>0, <3>1, UserStoreAssumption DEF TypeOK, UserStoreAssumption
  <2>3. TypeOK'
    BY <1>0, <2>1, <2>2 DEF TypeOK, requestVars, saveVars, fileVars
  <2>4. MarshalsUsers' /\ Down'
    BY <2>1 DEF StoreInv, MarshalsUsers, Down, requestVars, saveVars
  <2> QED
    BY <2>1, <2>3, <2>4, StoreInvKept
<1> QED
  BY <1>1, <1>2, <1>3, <1>4 DEF Next

LEMMA StoreInvariant == Spec => []StoreInv
BY StoreInvInit, StoreInvNext, PTL DEF Spec

(***************************************************************************)
(* The counters and dates of every user stay in their range, in memory, in *)
(* what save has marshalled so far and in the file, whatever the number of *)
(* keys, requests and months: no step reads a counter of a user that is    *)
(* not there, and nothing is said of one counter against another, which a  *)
(* save reads one after the other (auth.go:404-420).                       *)
(***************************************************************************)
THEOREM UserStoreTypeCorrect == Spec => []TypeOK
<1>1. StoreInv => TypeOK
  BY DEF StoreInv
<1> QED
  BY <1>1, StoreInvariant, PTL

-----------------------------------------------------------------------------
(***************************************************************************)
(* The quota.  granted is not in the program; the invariant ties it to     *)
(* ScanCount: until its period has elapsed a user's count is at least what *)
(* was granted under its MonthReset.  A count that is reset leaves the     *)
(* user either with another date, under which nothing was granted yet, or  *)
(* with a date that is past.                                               *)
(***************************************************************************)
Covered(k, u, n) ==
  u \in User => /\ ~Elapsed(u) => n <= u.scans
                /\ k \notin Admins => u.scans <= Limit

QuotaInv == lost \/ \A k \in Keys : Covered(k, users[k], granted[k])

LEMMA QuotaInit == Init => QuotaInv
<1> SUFFICES ASSUME Init, NEW k \in Keys PROVE Covered(k, users[k], granted[k])
  BY DEF QuotaInv
<1>1. /\ disk.state = "whole"
      /\ disk.users = [j \in Keys |-> IF j \in EnvKeys THEN Absent ELSE Fresh]
  BY DEF Init, File
<1>2. users[k] = Fresh
  BY <1>1 DEF Init, Loaded
<1>3. Fresh.scans = 0 /\ granted[k] = 0
  BY DEF Fresh, Init
<1> QED
  BY <1>2, <1>3, UserStoreAssumption DEF Covered, UserStoreAssumption

LEMMA QuotaRequest ==
  ASSUME StoreInv, QuotaInv, ~lost, NEW q \in Requests, RequestStep(q)
  PROVE  QuotaInv'
<1>0. /\ month' = month /\ lost' = lost
      /\ users \in [Keys -> User \union {Absent}] /\ granted \in [Keys -> Nat]
      /\ \A j \in Keys : Covered(j, users[j], granted[j])
  BY RequestsLeave DEF StoreInv, TypeOK, UserMap, QuotaInv, clockVars
<1>1. CASE OtherRequest(q)
  BY <1>0, <1>1 DEF OtherRequest, QuotaInv, Covered, Elapsed
<1>2. CASE ~OtherRequest(q)
  <2>1. PICK k \in Keys, u \in User, n \in {0, 1} :
           /\ users[k] \in User
           /\ SetUser(k, u, n)
           /\ \/ n = 0 /\ u.scans = users[k].scans /\ u.reset = users[k].reset
              \/ /\ u.reset = Current(users[k]).reset
                 /\ u.scans = Current(users[k]).scans + n
                 /\ n = 1 => ~AtLimit(k)
    BY <1>2, RequestSteps
  <2> DEFINE c == Current(users[k])
             g == (IF u.reset = users[k].reset THEN granted[k] ELSE 0) + n
  <2>2. /\ users' = [users EXCEPT ![k] = u]
        /\ granted' = [granted EXCEPT ![k] = g]
    BY <2>1 DEF SetUser
  <2>3. /\ c \in User
        /\ Elapsed(users[k]) => c.scans = 0
        /\ ~Elapsed(users[k]) => c = users[k]
    BY <2>1, CurrentUser DEF StoreInv
  <2>4. AtLimit(k) = (k \notin Admins /\ c.scans >= Limit)
    BY DEF AtLimit
  <2> HIDE DEF c
  <2>5. /\ c.scans \in Nat /\ users[k].scans \in Nat /\ granted[k] \in Nat /\ Limit \in Nat
        /\ u.scans \in Nat
    BY <1>0, <2>1, <2>3, UserFields, UserStoreAssumption DEF UserStoreAssumption
  <2>6. Covered(k, users[k], granted[k])
    BY <1>0
  <2>7. k \notin Admins => c.scans <= Limit
    BY <2>1, <2>3, <2>5, <2>6 DEF Covered
  <2>8. k \notin Admins => u.scans <= Limit
    <3>1. CASE u.scans = users[k].scans
      BY <2>1, <2>6, <3>1 DEF Covered
    <3>2. CASE u.scans = c.scans + n /\ (n = 1 => ~AtLimit(k))
      <4>1. n \in {0, 1} /\ (n = 1 /\ k \notin Admins => ~(c.scans >= Limit))
        BY <2>1, <2>4, <3>2
      <4> QED
        BY <2>5, <2>7, <3>2, <4>1
    <3> QED
      BY <2>1, <3>1, <3>2 DEF c
  <2>9. ~Elapsed(u) => g <= u.scans
    <3>1. CASE u.reset = users[k].reset
      <4> SUFFICES ASSUME ~Elapsed(u) PROVE granted[k] + n <= u.scans
        BY <3>1
      <4>1. ~Elapsed(users[k])
        BY <3>1 DEF Elapsed
      <4>2. granted[k] <= users[k].scans /\ c = users[k]
        BY <2>1, <2>3, <2>6, <4>1 DEF Covered
      <4>3. u.scans = users[k].scans + n
        BY <2>1, <2>5, <4>2 DEF c
      <4> QED
        BY <2>5, <4>2, <4>3
    <3>2. CASE u.reset # users[k].reset
      <4>1. u.scans = c.scans + n
        BY <2>1, <3>2 DEF c
      <4> QED
        BY <2>5, <3>2, <4>1
    <3> QED
      BY <3>1, <3>2
  <2> HIDE DEF g
  <2>10. /\ users'[k] = u /\ granted'[k] = g
         /\ \A j \in Keys \ {k} : users'[j] = users[j] /\ granted'[j] = granted[j]
    BY <1>0, <2>2
  <2> QED
    BY <1>0, <2>8, <2>9, <2>10 DEF QuotaInv, Covered, Elapsed
<1> QED
  BY <1>1, <1>2

LEMMA QuotaNext == StoreInv /\ QuotaInv /\ [Next]_vars => QuotaInv'
<1> SUFFICES ASSUME StoreInv, QuotaInv, [Next]_vars PROVE QuotaInv'
  OBVIOUS
<1>1. lost => lost'
  BY DEF Next, RequestStep, RecordUsage, ScanGranted, ScanRefused, QuotaSeen, OtherRequest,
         PersistStep, PersistTick, PersistStop, ReadRequests, ReadScans, ReadReset,
         SaveTruncate, SaveWrite, SaveFails, Stop, Exit, Crash, Ends, Restart, RestartRefused,
         NextLocalMonth, NextMonth, vars
<1>2. CASE \E q \in Requests : RequestStep(q)
  BY <1>1, <1>2, QuotaRequest DEF QuotaInv
<1>3. CASE ~\E q \in Requests : RequestStep(q)
  <2>1. granted' = granted
    BY <1>3 DEF Next, PersistStep, PersistTick, PersistStop, ReadRequests, ReadScans, ReadReset,
         SaveTruncate, SaveWrite, SaveFails, Stop, Exit, Crash, Ends, Restart, RestartRefused,
         NextLocalMonth, NextMonth, vars
  <2>2. users' = users \/ lost'
    BY <1>3 DEF Next, PersistStep, PersistTick, PersistStop, ReadRequests, ReadScans, ReadReset,
         SaveTruncate, SaveWrite, SaveFails, Stop, Exit, Crash, Ends, Restart, RestartRefused,
         NextLocalMonth, NextMonth, vars
  <2>3. month \in Nat /\ (month' = month \/ month' = month + 1)
    <3>1. month \in 1..MaxMonth
      BY DEF StoreInv, TypeOK
    <3>2. CASE NextMonth
      BY <3>1, <3>2, UserStoreAssumption DEF NextMonth, UserStoreAssumption
    <3>3. CASE month' = month
      BY <3>1, <3>3, UserStoreAssumption DEF UserStoreAssumption
    <3> QED
      BY <1>3, <3>2, <3>3
         DEF Next, PersistStep, PersistTick, PersistStop, ReadRequests, ReadScans, ReadReset,
           SaveTruncate, SaveWrite, SaveFails, Stop, Exit, Crash, Ends, Restart,
           RestartRefused, NextLocalMonth, vars, clockVars
  <2>4. ASSUME NEW k, NEW u, NEW n, Covered(k, u, n)
        PROVE  u \in User => /\ month' < u.reset => n <= u.scans
                             /\ k \notin Admins => u.scans <= Limit
    <3> SUFFICES ASSUME u \in User, month' < u.reset PROVE n <= u.scans
      BY <2>4 DEF Covered
    <3>1. u.reset \in Nat
      BY UserFields
    <3>2. ~Elapsed(u)
      BY <2>3, <3>1 DEF Elapsed
    <3> QED
      BY <2>4, <3>2 DEF Covered
  <2>5. ASSUME ~lost', NEW k \in Keys
        PROVE  users'[k] \in User => /\ ~(month' >= users'[k].reset) => granted'[k] <= users'[k].scans
                                     /\ k \notin Admins => users'[k].scans <= Limit
    <3>1. users' = users /\ Covered(k, users[k], granted[k])
      BY <1>1, <2>2, <2>5 DEF QuotaInv
    <3>2. users[k] \in User => users[k].reset \in Nat
      BY UserFields
    <3> QED
      BY <2>1, <2>3, <2>4, <3>1, <3>2
  <2> QED
    BY <2>5 DEF QuotaInv, Covered, Elapsed
<1> QED
  BY <1>2, <1>3

(***************************************************************************)
(* Until its MonthReset has passed no user who is not an admin is granted  *)
(* more scans than its tier allows, unless a restart has lost a count: for *)
(* any users, requests and limit, and in every time zone                   *)
(* (CheckAndIncrementQuota and maybeResetLocked, auth.go:307-352).         *)
(***************************************************************************)
THEOREM PeriodQuotaAlwaysHolds == Spec => []PeriodQuotaHolds
<1>1. StoreInv /\ QuotaInv => PeriodQuotaHolds
  <2> SUFFICES ASSUME StoreInv, QuotaInv, ~lost, NEW k \in Keys \ Admins,
                      users[k] # Absent, ~Elapsed(users[k])
               PROVE  granted[k] <= Limit
    BY DEF PeriodQuotaHolds
  <2>1. users[k] \in User /\ granted[k] \in Nat
    BY DEF StoreInv, TypeOK, UserMap
  <2>2. granted[k] <= users[k].scans /\ users[k].scans <= Limit
    BY <2>1 DEF QuotaInv, Covered
  <2> QED
    BY <2>1, <2>2, UserFields, UserStoreAssumption DEF UserStoreAssumption
<1> QED
  BY <1>1, QuotaInit, QuotaNext, StoreInvariant, PTL DEF Spec

-----------------------------------------------------------------------------
(***************************************************************************)
(* What is saved.  save marshals without the lock, so what it has read of  *)
(* a user is the user only until a request changes it: then the store is   *)
(* dirty again, or the save is the last one and the change comes late.     *)
(***************************************************************************)
Undisturbed == ~dirty \/ (last /\ ~late)

ImageIsCurrent ==
  persist \in {"read", "scans", "reset", "write"} /\ Undisturbed =>
    \A k \in Keys : users[k] # Absent /\ k \notin toRead =>
      /\ persist = "scans" /\ k \in reading =>
           image[k] = [Fresh EXCEPT !.requests = users[k].requests]
      /\ persist = "reset" /\ k \in reading =>
           image[k] = [users[k] EXCEPT !.reset = 0]
      /\ k \notin reading => image[k] = users[k]

SaveInv == ImageIsCurrent /\ NoUpdateLost

LEMMA SaveInvInit == Init => SaveInv
<1> SUFFICES ASSUME Init PROVE SaveInv
  OBVIOUS
<1>1. ImageIsCurrent
  BY DEF Init, ImageIsCurrent
<1>2. disk.state = "whole"
      /\ disk.users = [k \in Keys |-> IF k \in EnvKeys THEN Absent ELSE Fresh]
  BY DEF Init, File
<1>3. \A k \in Keys : users[k] = Fresh
  BY <1>2 DEF Init, Loaded
<1>4. NoUpdateLost
  BY <1>3 DEF NoUpdateLost
<1> QED
  BY <1>1, <1>4 DEF SaveInv

\* Whoever changes a user marks the store, and is late if the last save is on.
LEMMA ChangesAreMarked ==
  ASSUME StoreInv, NEW q \in Requests, RequestStep(q)
  PROVE  /\ UNCHANGED <<saveVars, fileVars, process>>
         /\ users' = users \/ (dirty' /\ (last => late'))
         /\ dirty => dirty'
         /\ late => late'
<1>1. UNCHANGED <<saveVars, fileVars, process>>
  BY RequestsLeave
<1>2. CASE OtherRequest(q)
  BY <1>1, <1>2 DEF OtherRequest
<1>3. CASE ~OtherRequest(q)
  <2>1. PICK k \in Keys, u \in User, n \in {0, 1} :
          SetUser(k, u, n) /\ (dirty => dirty') /\ (dirty' \/ u = users[k])
    BY <1>3, RequestSteps
  <2>2. /\ users' = [users EXCEPT ![k] = u]
        /\ late' = (late \/ (last /\ u # users[k]))
    BY <2>1 DEF SetUser
  <2>3. users \in [Keys -> User \union {Absent}]
    BY DEF StoreInv, TypeOK, UserMap
  <2>4. CASE u = users[k]
    BY <1>1, <2>1, <2>2, <2>3, <2>4
  <2>5. CASE u # users[k]
    BY <1>1, <2>1, <2>2, <2>5
  <2> QED
    BY <2>4, <2>5
<1> QED
  BY <1>2, <1>3

LEMMA SaveInvRequest ==
  ASSUME StoreInv, SaveInv, NEW q \in Requests, RequestStep(q)
  PROVE  SaveInv'
<1>1. /\ UNCHANGED <<persist, last, image, toRead, reading, disk, failures, failed, process>>
      /\ users' = users \/ (dirty' /\ (last => late'))
      /\ dirty => dirty'
      /\ late => late'
  BY ChangesAreMarked DEF saveVars, fileVars
<1>2. CASE users' = users
  <2>1. Undisturbed' => Undisturbed
    BY <1>1 DEF Undisturbed
  <2>2. ImageIsCurrent'
    BY <1>1, <1>2, <2>1 DEF SaveInv, ImageIsCurrent
  <2>3. NoUpdateLost'
    BY <1>1, <1>2 DEF SaveInv, NoUpdateLost, Persisted
  <2> QED
    BY <2>2, <2>3 DEF SaveInv
<1>3. CASE dirty' /\ (last => late')
  <2>1. ~Undisturbed'
    BY <1>1, <1>3 DEF Undisturbed
  <2> QED
    BY <1>3, <2>1 DEF SaveInv, ImageIsCurrent, NoUpdateLost
<1> QED
  BY <1>1, <1>2, <1>3

\* A save that nothing disturbed has marshalled the users.
LEMMA WholeImage ==
  ASSUME StoreInv, SaveInv, persist = "write", Undisturbed
  PROVE  \A k \in Keys : users[k] # Absent => image[k] = users[k]
BY DEF StoreInv, MarshalsUsers, SaveInv, ImageIsCurrent

LEMMA SaveInvPersist ==
  ASSUME StoreInv, SaveInv, PersistStep
  PROVE  SaveInv'
<1>0. users' = users /\ late' = late
  BY DEF PersistStep, PersistTick, PersistStop, ReadRequests, ReadScans, ReadReset, SaveTruncate,
         SaveWrite, SaveFails
<1>1. CASE PersistTick \/ PersistStop
  <2>1. persist' = "read" /\ toRead' = {k \in Keys : users[k] # Absent}
    BY <1>1 DEF PersistTick, PersistStop, SaveBegins
  <2> QED
    BY <1>0, <2>1 DEF SaveInv, ImageIsCurrent, NoUpdateLost
<1>2. ASSUME NEW k \in Keys, ReadRequests(k)
      PROVE  SaveInv'
  <2> DEFINE r == [Fresh EXCEPT !.requests = users[k].requests]
  <2>1. /\ persist = "read" /\ persist' = "scans" /\ k \in toRead
        /\ image' = [image EXCEPT ![k] = r]
        /\ toRead' = toRead \ {k} /\ reading' = {k}
        /\ UNCHANGED <<last, dirty>>
    BY <1>2 DEF ReadRequests
  <2>2. image'[k] = r /\ \A j \in Keys \ {k} : image'[j] = image[j]
    BY <2>1 DEF StoreInv, TypeOK, UserMap
  <2>3. Undisturbed' = Undisturbed
    BY <1>0, <2>1 DEF Undisturbed
  <2>4. reading = {}
    BY <2>1 DEF StoreInv, MarshalsUsers
  <2>5. ImageIsCurrent'
    BY <1>0, <2>1, <2>2, <2>3, <2>4 DEF SaveInv, ImageIsCurrent
  <2> QED
    BY <2>1, <2>5 DEF SaveInv, NoUpdateLost
<1>3. ASSUME NEW k \in Keys, ReadScans(k) \/ ReadReset(k)
      PROVE  SaveInv'
  <2> DEFINE r == [image[k] EXCEPT !.scans = users[k].scans]
             t == [image[k] EXCEPT !.reset = users[k].reset]
  <2>1. /\ k \in reading
        /\ UNCHANGED <<last, dirty, toRead>>
        /\ \/ /\ image' = [image EXCEPT ![k].scans = users[k].scans]
              /\ persist = "scans" /\ persist' = "reset" /\ reading' = reading
           \/ /\ image' = [image EXCEPT ![k].reset = users[k].reset]
              /\ persist = "reset" /\ persist' = "read" /\ reading' = {}
    BY <1>3 DEF ReadScans, ReadReset
  <2>2. /\ image \in [Keys -> User \union {Absent}] /\ users[k] \in User /\ users[k] # Absent
        /\ \A j \in reading : j = k
    BY <2>1, AbsentAssumption DEF StoreInv, TypeOK, UserMap, MarshalsUsers
  <2>3. /\ \A j \in Keys \ {k} : image'[j] = image[j]
        /\ persist = "scans" => image'[k] = r
        /\ persist = "reset" => image'[k] = t
    BY <2>1, <2>2, FieldRead DEF StoreInv
  <2>4. /\ image[k] = [Fresh EXCEPT !.requests = users[k].requests]
             => r = [users[k] EXCEPT !.reset = 0]
        /\ image[k] = [users[k] EXCEPT !.reset = 0] => t = users[k]
    BY <2>2 DEF User, Fresh
  <2> HIDE DEF r, t
  <2>5. Undisturbed' = Undisturbed
    BY <1>0, <2>1 DEF Undisturbed
  <2>6. ImageIsCurrent'
    <3> SUFFICES ASSUME Undisturbed, NEW j \in Keys, users[j] # Absent, j \notin toRead
                 PROVE  /\ persist' = "reset" /\ j \in reading => image'[j] = [users[j] EXCEPT !.reset = 0]
                        /\ persist' = "read" \/ j \notin reading => image'[j] = users[j]
      BY <1>0, <2>1, <2>5 DEF ImageIsCurrent
    <3>1. /\ persist = "scans" /\ j \in reading =>
               image[j] = [Fresh EXCEPT !.requests = users[j].requests]
          /\ persist = "reset" /\ j \in reading =>
               image[j] = [users[j] EXCEPT !.reset = 0]
          /\ j \notin reading => image[j] = users[j]
      BY <2>1 DEF SaveInv, ImageIsCurrent
    <3>2. CASE j = k
      BY <2>1, <2>3, <2>4, <3>1, <3>2
    <3>3. CASE j # k
      BY <2>2, <2>3, <3>1, <3>3
    <3> QED
      BY <3>2, <3>3
  <2> QED
    BY <2>1, <2>6 DEF SaveInv, NoUpdateLost
<1>4. CASE SaveTruncate
  <2>1. /\ persist = "read" /\ persist' = "write"
        /\ UNCHANGED <<dirty, last, image, toRead, reading>>
    BY <1>4 DEF SaveTruncate
  <2>2. Undisturbed' = Undisturbed
    BY <1>0, <2>1 DEF Undisturbed
  <2> QED
    BY <1>0, <2>1, <2>2 DEF SaveInv, ImageIsCurrent, NoUpdateLost
<1>5. CASE SaveWrite
  <2>1. /\ persist = "write" /\ persist' \in {"exited", "wait"} /\ dirty' = dirty
        /\ disk' = File("whole", image)
    BY <1>5 DEF SaveWrite, SaveEnds
  <2>2. disk'.state = "whole" /\ disk'.users = image
    BY <2>1 DEF File
  <2>3. NoUpdateLost'
    <3> SUFFICES ASSUME ~dirty, NEW k \in Keys, users[k] # Absent
                 PROVE  disk'.state = "whole" /\ disk'.users[k] = users[k]
      BY <1>0, <2>1 DEF NoUpdateLost, Persisted
    <3>1. Undisturbed
      BY DEF Undisturbed
    <3> QED
      BY <2>1, <2>2, <3>1, WholeImage
  <2> QED
    BY <2>1, <2>3 DEF SaveInv, ImageIsCurrent
<1>6. CASE SaveFails
  <2>1. failed' /\ persist' \in {"exited", "wait"}
    BY <1>6 DEF SaveFails, SaveEnds
  <2> QED
    BY <2>1 DEF SaveInv, ImageIsCurrent, NoUpdateLost
<1> QED
  BY <1>1, <1>2, <1>3, <1>4, <1>5, <1>6 DEF PersistStep

LEMMA SaveInvNext == StoreInv /\ SaveInv /\ [Next]_vars => SaveInv'
<1> SUFFICES ASSUME StoreInv, SaveInv, [Next]_vars PROVE SaveInv'
  OBVIOUS
<1>1. CASE \E q \in Requests : RequestStep(q)
  BY <1>1, SaveInvRequest
<1>2. CASE PersistStep
  BY <1>2, SaveInvPersist
<1>3. CASE Exit \/ Crash \/ RestartRefused
  <2>1. persist' = "wait" /\ process' # "up"
    BY <1>3 DEF Exit, Crash, Ends, RestartRefused, StoreInv, Down, saveVars
  <2> QED
    BY <2>1 DEF SaveInv, ImageIsCurrent, NoUpdateLost
<1>4. CASE Restart
  <2>1. persist' = "wait" /\ users' = Loaded(disk) /\ disk' = disk
    BY <1>4 DEF Restart, StoreInv, Down, saveVars, fileVars
  <2>2. \A k \in Keys : users'[k] # Absent /\ users'[k] # Fresh =>
          disk.state = "whole" /\ disk.users[k] = users'[k]
    BY <2>1 DEF Loaded
  <2> QED
    BY <2>1, <2>2 DEF SaveInv, ImageIsCurrent, NoUpdateLost, Persisted
<1>5. CASE Stop \/ NextLocalMonth \/ NextMonth \/ UNCHANGED vars
  <2>1. UNCHANGED <<users, dirty, persist, last, image, toRead, reading, disk, failed, process, late>>
    BY <1>5 DEF Stop, NextLocalMonth, NextMonth, vars, saveVars, fileVars
  <2> QED
    BY <2>1 DEF SaveInv, ImageIsCurrent, Undisturbed, NoUpdateLost, Persisted
<1> QED
  BY <1>1, <1>2, <1>3, <1>4, <1>5 DEF Next

LEMMA SaveInvariant == Spec => [](StoreInv /\ SaveInv)
BY SaveInvInit, SaveInvNext, StoreInvariant, PTL DEF Spec

(***************************************************************************)
(* A store that is not dirty and not being saved is in the file, for any   *)
(* users and requests: no change is lost although save marshals without    *)
(* the lock.                                                               *)
(***************************************************************************)
THEOREM NoUpdateIsLost == Spec => []NoUpdateLost
<1>1. SaveInv => NoUpdateLost
  BY DEF SaveInv
<1> QED
  BY <1>1, SaveInvariant, PTL

(***************************************************************************)
(* When persistLoop ends the file has every user, unless a request came    *)
(* late or the last save failed.                                           *)
(***************************************************************************)
THEOREM StopAlwaysFlushes == Spec => StopFlushes
<1>1. ASSUME StoreInv, SaveInv, [Next]_vars, persist # "exited", persist' = "exited",
             ~late', ~failed'
      PROVE  \A k \in Keys : users[k] # Absent => Persisted(k)'
  <2>1. SaveWrite
    <3>1. PersistStep
      BY <1>1 DEF Next, RequestStep, RecordUsage, ScanGranted, ScanRefused, QuotaSeen,
                  OtherRequest, Stop, Exit, Crash, Ends, Restart, RestartRefused,
                  NextLocalMonth, NextMonth, vars, saveVars
    <3> QED
      BY <1>1, <3>1 DEF PersistStep, PersistTick, PersistStop, SaveBegins, ReadRequests, ReadScans, ReadReset,
                        SaveTruncate, SaveFails
  <2>2. /\ persist = "write" /\ last /\ ~late /\ users' = users
        /\ disk' = File("whole", image)
    BY <1>1, <2>1 DEF SaveWrite, SaveEnds
  <2>3. disk'.state = "whole" /\ disk'.users = image
    BY <2>2 DEF File
  <2>4. Undisturbed
    BY <2>2 DEF Undisturbed
  <2> QED
    BY <1>1, <2>2, <2>3, <2>4, WholeImage DEF Persisted
<1>2. StoreInv /\ SaveInv /\ [Next]_vars =>
        [persist # "exited" /\ persist' = "exited" /\ ~late' /\ ~failed'
           => \A k \in Keys : users[k] # Absent => Persisted(k)']_vars
  BY <1>1
<1> QED
  BY <1>2, SaveInvariant, PTL DEF Spec, StopFlushes
=============================================================================
