--------------------------- MODULE ScanApiProofs ----------------------------
(***************************************************************************)
(* First the rate limiter on its own: AdmissionBounded for any clients,    *)
(* rates and window.  Then what ScanApi inherits from it: every step of    *)
(* the API is a step of LimiterSpec or leaves its variables alone.  Then,  *)
(* for any requests, jobs and users: the types of ScanApi, whole answers   *)
(* after a wait, and paid scans.                                           *)
(***************************************************************************)
EXTENDS ScanApi, FiniteSetTheorems, TLAPS

-----------------------------------------------------------------------------
(***************************************************************************)
(* The rate limiter.  The inductive invariant speaks of the last fill      *)
(* instead of the present: what was admitted since t, together with the    *)
(* tokens that are left, is within one burst and the refill from t to the  *)
(* last fill.                                                              *)
(***************************************************************************)
Filled(b) == b # NoBucket

\* A client without a bucket has not been admitted; nobody is admitted after the
\* last fill of its bucket.
Accounted(b, admitted) ==
  IF Filled(b)
    THEN \A t \in Times :
           IF t <= b.lastFill
             THEN admitted[t] * Window + b.tokens <= MaxRate * (Window + (b.lastFill - t))
             ELSE admitted[t] = 0
    ELSE \A t \in Times : admitted[t] = 0

LimiterInv ==
  /\ LimiterTypeOK
  /\ \A c \in Clients :
       /\ Filled(bucket[c]) => bucket[c].lastFill <= now
       /\ Accounted(bucket[c], since[c])

\* The most generous rate is one of the rates and at least each of them.
LEMMA MaxRateIsHighest ==
  /\ MaxRate \in Nat \ {0}
  /\ \A rate \in Rates : rate \in Nat \ {0} /\ rate <= MaxRate
BY RateLimiterAssumption DEF RateLimiterAssumption, MaxRate, Max

\* Min of FiniteSetsExt, for two numbers.
LEMMA MinOfTwo ==
  ASSUME NEW a \in Nat, NEW b \in Nat
  PROVE  Min({a, b}) = IF a <= b THEN a ELSE b
BY DEF Min

\* More time, or a higher rate, brings no fewer tokens.
LEMMA Monotone ==
  ASSUME NEW a \in Nat, NEW b \in Nat, NEW x \in Nat, NEW y \in Nat, a <= b, x <= y
  PROVE  a * x <= b * y
<1>1. \A n \in Nat, k \in Nat : n * k >= 0
  OBVIOUS
<1>2. b * y = a * x + a * (y - x) + (b - a) * y
  OBVIOUS
<1>3. a * (y - x) >= 0 /\ (b - a) * y >= 0
  BY <1>1
<1> QED
  BY <1>2, <1>3

\* A refilled bucket holds at most the burst of its rate, and at most what was in
\* it and what the time since brings.
LEMMA RefillBounded ==
  ASSUME LimiterInv, NEW c \in Clients, NEW rate \in Rates
  PROVE  /\ Refilled(c, rate) \in Nat
         /\ Refilled(c, rate) <= MaxRate * Window
         /\ Filled(bucket[c]) =>
              Refilled(c, rate) <= bucket[c].tokens + MaxRate * (now - bucket[c].lastFill)
<1>1. rate \in Nat /\ Window \in Nat /\ MaxRate \in Nat /\ rate <= MaxRate
  BY MaxRateIsHighest, RateLimiterAssumption DEF RateLimiterAssumption
<1>2. rate * Window \in Nat /\ rate * Window <= MaxRate * Window
  BY <1>1, Monotone
<1>3. CASE ~Filled(bucket[c])
  BY <1>2, <1>3 DEF Filled, Refilled
<1>4. CASE Filled(bucket[c])
  <2>1. /\ bucket[c].tokens \in Nat /\ bucket[c].lastFill \in Nat /\ now \in Nat
        /\ bucket[c].lastFill <= now
    BY <1>4, RateLimiterAssumption
    DEF LimiterInv, LimiterTypeOK, Filled, Times, RateLimiterAssumption
  <2> DEFINE elapsed == now - bucket[c].lastFill
  <2>2. elapsed \in Nat
    BY <2>1
  <2>3. elapsed * rate \in Nat /\ elapsed * rate <= MaxRate * elapsed
    <3> HIDE DEF elapsed
    <3>1. rate * elapsed <= MaxRate * elapsed
      BY <1>1, <2>2, Monotone
    <3> QED
      BY <1>1, <2>2, <3>1
  <2>4. Refilled(c, rate) = Min({rate * Window, bucket[c].tokens + elapsed * rate})
    BY <1>4 DEF Filled, Refilled
  <2>5. bucket[c].tokens + elapsed * rate \in Nat
    BY <2>1, <2>3
  <2> HIDE DEF elapsed
  <2>6. Refilled(c, rate) = IF rate * Window <= bucket[c].tokens + elapsed * rate
                              THEN rate * Window ELSE bucket[c].tokens + elapsed * rate
    BY <1>2, <2>4, <2>5, MinOfTwo
  <2> QED
    BY <1>1, <1>2, <1>4, <2>1, <2>2, <2>3, <2>5, <2>6 DEF elapsed
<1> QED
  BY <1>3, <1>4

\* A client's account after a request that was admitted (cost = 1) or refused
\* (cost = 0).
LEMMA AccountedAfter ==
  ASSUME LimiterInv, NEW c \in Clients, NEW rate \in Rates, NEW cost \in {0, 1},
         Refilled(c, rate) >= cost * Window
  PROVE  LET left == Refilled(c, rate) - cost * Window
         IN Accounted([tokens |-> left, lastFill |-> now],
                      [t \in Times |-> IF t <= now THEN since[c][t] + cost
                                      ELSE since[c][t]])
<1> DEFINE left == Refilled(c, rate) - cost * Window
           b == [tokens |-> left, lastFill |-> now]
           admitted == [t \in Times |-> IF t <= now THEN since[c][t] + cost
                                       ELSE since[c][t]]
<1>1. /\ now \in Times /\ MaxTime \in Nat /\ Window \in Nat \ {0}
      /\ MaxRate \in Nat
      /\ \A t \in Times : since[c][t] \in Nat
  BY MaxRateIsHighest, RateLimiterAssumption
  DEF LimiterInv, LimiterTypeOK, RateLimiterAssumption
<1>2. Filled(b)
  BY <1>1 DEF Filled, NoBucket, Times
<1>3. cost * Window \in Nat /\ Refilled(c, rate) \in Nat /\ left \in Nat
  BY <1>1, RefillBounded
<1>4. ASSUME NEW t \in Times, t <= now
      PROVE  admitted[t] * Window + left <= MaxRate * (Window + (now - t))
  <2>1. t \in Nat /\ now \in Nat /\ now - t \in Nat
    BY <1>1, <1>4 DEF Times
  <2>2. admitted[t] * Window + left = since[c][t] * Window + Refilled(c, rate)
    <3>1. admitted[t] = since[c][t] + cost
      BY <1>4
    <3>2. (since[c][t] + cost) * Window = since[c][t] * Window + cost * Window
      BY <1>1
    <3>3. since[c][t] * Window \in Nat
      BY <1>1
    <3> QED
      BY <1>3, <3>1, <3>2, <3>3
  <2>3. MaxRate * (Window + (now - t)) = MaxRate * Window + MaxRate * (now - t)
    BY <1>1, <2>1
  <2>4. MaxRate * Window \in Nat /\ MaxRate * (now - t) \in Nat
    BY <1>1, <2>1
  <2>5. CASE since[c][t] = 0
    <3>1. since[c][t] * Window = 0
      BY <1>1, <2>5
    <3>2. Refilled(c, rate) <= MaxRate * Window
      BY RefillBounded
    <3> QED
      BY <1>3, <2>2, <2>3, <2>4, <3>1, <3>2
  <2>6. CASE since[c][t] # 0
    <3>1. Filled(bucket[c]) /\ t <= bucket[c].lastFill
      BY <2>6 DEF LimiterInv, Accounted
    <3> DEFINE fill == bucket[c].lastFill
    <3>2. fill \in Nat /\ fill <= now /\ bucket[c].tokens \in Nat
      BY <3>1 DEF LimiterInv, LimiterTypeOK, Filled, Times
    <3>3. since[c][t] * Window + bucket[c].tokens <= MaxRate * (Window + (fill - t))
      BY <3>1 DEF LimiterInv, Accounted
    <3>4. Refilled(c, rate) <= bucket[c].tokens + MaxRate * (now - fill)
      BY <3>1, RefillBounded
    <3>5. MaxRate * (Window + (now - t)) = MaxRate * (Window + (fill - t)) + MaxRate * (now - fill)
      BY <1>1, <2>1, <3>1, <3>2
    <3>6. /\ since[c][t] * Window \in Nat
          /\ MaxRate * (Window + (fill - t)) \in Int /\ MaxRate * (now - fill) \in Int
      BY <1>1, <2>1, <3>1, <3>2
    <3> HIDE DEF fill
    <3> QED
      BY <1>3, <2>2, <3>2, <3>3, <3>4, <3>5, <3>6
  <2> QED
    BY <2>5, <2>6
<1>5. ASSUME NEW t \in Times, ~(t <= now)
      PROVE  admitted[t] = 0
  <2>1. admitted[t] = since[c][t]
    BY <1>5
  <2>2. Filled(bucket[c]) => ~(t <= bucket[c].lastFill)
    BY <1>1, <1>5 DEF LimiterInv, LimiterTypeOK, Filled, Times
  <2> QED
    BY <2>1, <2>2 DEF LimiterInv, Accounted
<1> QED
  BY <1>2, <1>4, <1>5 DEF Accounted

-----------------------------------------------------------------------------

LEMMA LimiterInvInit == LimiterInit => LimiterInv
<1> SUFFICES ASSUME LimiterInit PROVE LimiterInv
  OBVIOUS
<1>1. LimiterTypeOK
  BY RateLimiterAssumption DEF LimiterInit, LimiterTypeOK, Times, RateLimiterAssumption
<1>2. \A c \in Clients : ~Filled(bucket[c]) /\ Accounted(bucket[c], since[c])
  BY DEF LimiterInit, Filled, Accounted
<1> QED
  BY <1>1, <1>2 DEF LimiterInv

\* A request changes the bucket and the account of its client as in AccountedAfter,
\* and nobody else's.
LEMMA RequestKeepsInv ==
  ASSUME LimiterInv, NEW c \in Clients, NEW rate \in Rates, NEW cost \in {0, 1},
         Refilled(c, rate) >= cost * Window,
         UNCHANGED now,
         bucket' = [bucket EXCEPT ![c] =
                      [tokens |-> Refilled(c, rate) - cost * Window, lastFill |-> now]],
         since' = [since EXCEPT ![c] =
                     [t \in Times |-> IF t <= now THEN since[c][t] + cost ELSE since[c][t]]]
  PROVE  LimiterInv'
<1> DEFINE left == Refilled(c, rate) - cost * Window
           admitted == [t \in Times |-> IF t <= now THEN since[c][t] + cost
                                       ELSE since[c][t]]
<1>1. /\ now \in Times /\ Window \in Nat \ {0} /\ MaxRate \in Nat
      /\ bucket \in [Clients -> [tokens : 0..(MaxRate * Window), lastFill : Times]
                                \union {NoBucket}]
      /\ since \in [Clients -> [Times -> Nat]]
  BY MaxRateIsHighest, RateLimiterAssumption
  DEF LimiterInv, LimiterTypeOK, RateLimiterAssumption
<1>2. left \in 0..(MaxRate * Window)
  <2>1. Refilled(c, rate) \in Nat /\ Refilled(c, rate) <= MaxRate * Window
    BY RefillBounded
  <2>2. cost * Window \in Nat /\ MaxRate * Window \in Nat
    BY <1>1
  <2> QED
    BY <2>1, <2>2
<1>3. admitted \in [Times -> Nat]
  BY <1>1
<1>4. Accounted([tokens |-> left, lastFill |-> now], admitted)
  BY AccountedAfter
<1> HIDE DEF left, admitted
<1>5. bucket' = [bucket EXCEPT ![c] = [tokens |-> left, lastFill |-> now]]
      /\ since' = [since EXCEPT ![c] = admitted] /\ now' = now
  BY DEF left, admitted
<1>6. LimiterTypeOK'
  BY <1>1, <1>2, <1>3, <1>5 DEF LimiterTypeOK
<1>7. ASSUME NEW d \in Clients
      PROVE  /\ Filled(bucket'[d]) => bucket'[d].lastFill <= now'
             /\ Accounted(bucket'[d], since'[d])
  <2>1. CASE d = c
    <3>1. bucket'[d] = [tokens |-> left, lastFill |-> now] /\ since'[d] = admitted
      BY <1>1, <1>5, <2>1
    <3>2. now <= now
      BY <1>1 DEF Times
    <3> QED
      BY <1>4, <1>5, <3>1, <3>2
  <2>2. CASE d # c
    <3>1. bucket'[d] = bucket[d] /\ since'[d] = since[d]
      BY <1>1, <1>5, <2>2
    <3> QED
      BY <1>5, <3>1 DEF LimiterInv
  <2> QED
    BY <2>1, <2>2
<1>8. LimiterInv' <=> /\ LimiterTypeOK'
                      /\ \A d \in Clients :
                           /\ Filled(bucket'[d]) => bucket'[d].lastFill <= now'
                           /\ Accounted(bucket'[d], since'[d])
  BY DEF LimiterInv, Filled, Accounted
<1> QED
  BY <1>6, <1>7, <1>8

LEMMA LimiterInvNext == LimiterInv /\ [LimiterNext]_limiterVars => LimiterInv'
<1> SUFFICES ASSUME LimiterInv, [LimiterNext]_limiterVars PROVE LimiterInv'
  OBVIOUS
<1>0. Window \in Nat \ {0} /\ now \in Nat /\ since \in [Clients -> [Times -> Nat]]
  BY RateLimiterAssumption
  DEF RateLimiterAssumption, LimiterInv, LimiterTypeOK, Times
<1>1. ASSUME NEW c \in Clients, NEW rate \in Rates, allow(c, rate)
      PROVE  LimiterInv'
  <2>1. 1 * Window = Window
    BY <1>0
  <2> QED
    BY <1>1, <2>1, RequestKeepsInv DEF allow
<1>2. ASSUME NEW c \in Clients, NEW rate \in Rates, refuse(c, rate)
      PROVE  LimiterInv'
  <2>1. Refilled(c, rate) \in Nat /\ 0 * Window = 0
    BY <1>0, RefillBounded
  <2>2. since[c] = [t \in Times |-> IF t <= now THEN since[c][t] + 0 ELSE since[c][t]]
    BY <1>0
  <2>3. since' = [since EXCEPT ![c] = since[c]]
    BY <1>0, <1>2 DEF refuse
  <2>4. Refilled(c, rate) - 0 * Window = Refilled(c, rate) /\ Refilled(c, rate) >= 0 * Window
    BY <2>1
  <2> QED
    BY <1>2, <2>2, <2>3, <2>4, RequestKeepsInv DEF refuse
<1>3. CASE LimiterTick
  <2>1. now' \in Times /\ now <= now' /\ bucket' = bucket /\ since' = since
    BY <1>0, <1>3, RateLimiterAssumption DEF LimiterTick, Times, RateLimiterAssumption
  <2>2. ASSUME NEW c \in Clients, Filled(bucket[c])
        PROVE  bucket[c].lastFill <= now'
    <3>1. bucket[c].lastFill \in Nat /\ now' \in Nat /\ bucket[c].lastFill <= now
      BY <2>1, <2>2 DEF LimiterInv, LimiterTypeOK, Filled, Times
    <3> QED
      BY <1>0, <2>1, <3>1
  <2> QED
    BY <2>1, <2>2 DEF LimiterInv, LimiterTypeOK, Filled, Accounted
<1>4. CASE UNCHANGED limiterVars
  BY <1>4 DEF limiterVars, LimiterInv, LimiterTypeOK, Filled, Accounted
<1> QED
  BY <1>1, <1>2, <1>3, <1>4 DEF LimiterNext

LEMMA InvBoundsAdmission == LimiterInv => AdmissionBounded
<1> SUFFICES ASSUME LimiterInv, NEW c \in Clients, NEW t \in 0..now
             PROVE  since[c][t] * Window <= MaxRate * (Window + (now - t))
  BY DEF AdmissionBounded
<1>1. /\ Window \in Nat /\ MaxRate \in Nat /\ now \in Nat /\ t \in Nat /\ t \in Times
      /\ since[c][t] \in Nat
  BY MaxRateIsHighest, RateLimiterAssumption
  DEF RateLimiterAssumption, LimiterInv, LimiterTypeOK, Times
<1>2. CASE since[c][t] = 0
  BY <1>1, <1>2, Monotone
<1>3. CASE since[c][t] # 0
  <2>1. Filled(bucket[c]) /\ t <= bucket[c].lastFill
    BY <1>1, <1>3 DEF LimiterInv, Accounted
  <2> DEFINE fill == bucket[c].lastFill
  <2>2. fill \in Nat /\ fill <= now /\ bucket[c].tokens \in Nat
    BY <2>1 DEF LimiterInv, LimiterTypeOK, Filled, Times
  <2>3. since[c][t] * Window + bucket[c].tokens <= MaxRate * (Window + (fill - t))
    BY <1>1, <2>1 DEF LimiterInv, Accounted
  <2>4. Window + (fill - t) \in Nat /\ Window + (now - t) \in Nat
        /\ Window + (fill - t) <= Window + (now - t)
    BY <1>1, <2>1, <2>2
  <2>5. MaxRate * (Window + (fill - t)) <= MaxRate * (Window + (now - t))
    BY <1>1, <2>4, Monotone
  <2>6. /\ since[c][t] * Window \in Nat
        /\ MaxRate * (Window + (fill - t)) \in Nat /\ MaxRate * (Window + (now - t)) \in Nat
    BY <1>1, <2>4
  <2> HIDE DEF fill
  <2> QED
    BY <2>2, <2>3, <2>5, <2>6
<1> QED
  BY <1>2, <1>3

\* The token buckets of auth.go keep every client within one burst and the refill
\* of the highest rate, over every span of time, however requests, refusals and
\* tiers alternate (auth.go:689-714).
THEOREM LimiterBoundsAdmission == LimiterSpec => []AdmissionBounded
<1>1. LimiterSpec => []LimiterInv
  BY LimiterInvInit, LimiterInvNext, PTL DEF LimiterSpec
<1> QED
  BY <1>1, InvBoundsAdmission, PTL

-----------------------------------------------------------------------------
(* The limiter in the API *)

LEMMA ClientIsKnown ==
  ASSUME NEW cred \in Credentials, NEW address \in Addresses
  PROVE  Client(authenticate(cred), address) \in Clients
BY DEF Client, authenticate, Credentials, Clients, Users

LEMMA HandlerStepKeepsLimiter ==
  ASSUME NEW r \in Requests, HandlerStep(r)
  PROVE  UNCHANGED limiterVars
BY DEF HandlerStep, BadRequest, QuotaTaken, QuotaExceeded, Enqueued, Find, QueueFull, Poll,
       Peek, WaitTimeout, Again, ReadNil, ReadStatus, ReadResult

LEMMA ApiStepIsLimiterStep ==
  ASSUME [Next]_vars
  PROVE  [LimiterNext]_limiterVars
<1>1. ASSUME NEW r \in Requests, NEW cred \in Credentials, Unauthorized(r, cred)
      PROVE  UNCHANGED limiterVars
  BY <1>1 DEF Unauthorized
<1>2. ASSUME NEW r \in Requests, NEW cred \in Credentials, NEW address \in Addresses,
             NEW rate \in Rates, RateLimited(r, cred, address, rate)
      PROVE  LimiterNext
  BY <1>2, ClientIsKnown DEF RateLimited, LimiterNext
<1>3. ASSUME NEW r \in Requests, NEW cred \in Credentials, NEW address \in Addresses,
             NEW rate \in Rates, NEW k \in Kinds, Admitted(r, cred, address, rate, k)
      PROVE  LimiterNext
  BY <1>3, ClientIsKnown DEF Admitted, LimiterNext
<1>4. ASSUME NEW j \in JobIds, BeginScan(j) \/ StoreStatus(j)
      PROVE  UNCHANGED limiterVars
  BY <1>4 DEF BeginScan, StoreStatus
<1>5. CASE StoreResult \/ Forget
  BY <1>5 DEF StoreResult, Forget
<1>6. CASE Tick
  BY <1>6 DEF Tick, LimiterNext
<1>7. CASE UNCHANGED vars
  BY <1>7 DEF vars
<1> QED
  BY <1>1, <1>2, <1>3, <1>4, <1>5, <1>6, <1>7, HandlerStepKeepsLimiter DEF Next

\* The API as a whole keeps every client within its rate: no handler and no step of
\* the queue touches a bucket, and the middleware asks before it lets a request
\* through (auth.go:525-594, 689-714).
THEOREM ApiBoundsAdmission == Spec => []AdmissionBounded
<1>1. Init => LimiterInit
  BY DEF Init
<1>2. [Next]_vars => [LimiterNext]_limiterVars
  BY ApiStepIsLimiterStep
<1>3. Spec => LimiterSpec
  BY <1>1, <1>2, PTL DEF Spec, LimiterSpec
<1> QED
  BY <1>3, LimiterBoundsAdmission, PTL

-----------------------------------------------------------------------------
(***************************************************************************)
(* What a handler knows at its program points.                             *)
(***************************************************************************)
Before == {"new", "quota", "enqueue", "find"}
WithJob == {"poll", "peek", "again", "nil", "status", "result"}

\* A handler past GetJob or Enqueue has a job.
JobsAreKnown == \A r \in Requests : point[r] \in WithJob => id[r] \in JobIds

\* The type invariant, with what it rests on.
ApiInv == LimiterInv /\ TypeOK /\ JobsAreKnown

-----------------------------------------------------------------------------
(* Types *)

BoardTyped ==
  /\ enabled \in BOOLEAN
  /\ listed \in SUBSET JobIds
  /\ status \in [JobIds -> Statuses]
  /\ result \in SUBSET JobIds
  /\ storing \in JobIds \union {NoJob}

RequestsTyped ==
  /\ kind \in [Requests -> Kinds]
  /\ user \in [Requests -> Users \union {NoUser}]
  /\ point \in [Requests -> Points]
  /\ id \in [Requests -> JobIds \union {NoJob}]
  /\ waited \in [Requests -> {"no", "finished", "timeout"}]
  /\ seen \in [Requests -> [status : Statuses, result : BOOLEAN]]
  /\ answer \in [Requests -> Answers]

UsedTyped == used \in [ApiKeys -> 0..Limit]

LEMMA TypeParts ==
  TypeOK <=> LimiterTypeOK /\ BoardTyped /\ UsedTyped /\ RequestsTyped
BY DEF TypeOK, BoardTyped, UsedTyped, RequestsTyped

LEMMA CredentialIsOfUser ==
  ASSUME NEW cred \in Credentials
  PROVE  authenticate(cred) \in Users \union {NoUser}
BY DEF authenticate, Credentials, Users

LEMMA BoardTypedNext ==
  ASSUME ApiInv, [Next]_vars
  PROVE  BoardTyped'
<1> USE DEF ApiInv, TypeOK, BoardTyped
<1>1. ASSUME NEW r \in Requests, NEW cred \in Credentials, Unauthorized(r, cred)
      PROVE  BoardTyped'
  BY <1>1 DEF Unauthorized, queueVars
<1>2. ASSUME NEW r \in Requests, NEW cred \in Credentials, NEW address \in Addresses,
             NEW rate \in Rates, RateLimited(r, cred, address, rate)
      PROVE  BoardTyped'
  BY <1>2 DEF RateLimited, queueVars
<1>3. ASSUME NEW r \in Requests, NEW cred \in Credentials, NEW address \in Addresses,
             NEW rate \in Rates, NEW k \in Kinds, Admitted(r, cred, address, rate, k)
      PROVE  BoardTyped'
  BY <1>3 DEF Admitted, queueVars
<1>4. ASSUME NEW r \in Requests, NEW j \in JobIds, Enqueued(r, j)
      PROVE  BoardTyped'
  BY <1>4 DEF Enqueued, Board!Submit, Board!FinishedIn, Statuses
<1>5. ASSUME NEW r \in Requests, HandlerStep(r), ~\E j \in JobIds : Enqueued(r, j)
      PROVE  BoardTyped'
  BY <1>5 DEF HandlerStep, BadRequest, QuotaTaken, QuotaExceeded, Find, QueueFull, Poll,
              Peek, WaitTimeout, Again, ReadNil, ReadStatus, ReadResult, queueVars
<1>6. ASSUME NEW j \in JobIds, BeginScan(j) \/ StoreStatus(j)
      PROVE  BoardTyped'
  BY <1>6 DEF BeginScan, StoreStatus, Board!Begin, Board!End, Statuses, Final
<1>7. CASE StoreResult
  BY <1>7 DEF StoreResult
<1>8. CASE Forget
  BY <1>8 DEF Forget, Board!Forget
<1>9. CASE Tick
  BY <1>9 DEF Tick, queueVars
<1>10. CASE UNCHANGED vars
  BY <1>10 DEF vars, queueVars
<1> QED
  BY <1>1, <1>2, <1>3, <1>4, <1>5, <1>6, <1>7, <1>8, <1>9, <1>10 DEF Next

LEMMA UsedTypedNext ==
  ASSUME ApiInv, [Next]_vars
  PROVE  UsedTyped'
<1> USE DEF ApiInv, TypeOK, UsedTyped
<1>1. ASSUME NEW r \in Requests, QuotaTaken(r)
      PROVE  UsedTyped'
  <2>1. CASE HasQuota(r)
    <3>1. user[r] \in ApiKeys /\ used[user[r]] \in 0..Limit /\ used[user[r]] < Limit
      BY <1>1, <2>1 DEF QuotaTaken, HasQuota
    <3>2. used[user[r]] + 1 \in 0..Limit
      BY <3>1, ScanApiAssumption DEF ScanApiAssumption
    <3> QED
      BY <1>1, <2>1, <3>1, <3>2 DEF QuotaTaken
  <2>2. CASE ~HasQuota(r)
    BY <1>1, <2>2 DEF QuotaTaken
  <2> QED
    BY <2>1, <2>2
<1>2. CASE ~\E r \in Requests : QuotaTaken(r)
  BY <1>2 DEF Next, vars, Unauthorized, RateLimited, Admitted, HandlerStep, BadRequest,
              QuotaExceeded, Enqueued, Find, QueueFull, Poll, Peek, WaitTimeout, Again,
              ReadNil, ReadStatus, ReadResult, BeginScan, StoreStatus, StoreResult, Forget,
              Tick
<1> QED
  BY <1>1, <1>2

LEMMA MiddlewareKeepsRequestTypes ==
  ASSUME RequestsTyped, NEW r \in Requests, NEW cred \in Credentials,
         \/ Unauthorized(r, cred)
         \/ \E address \in Addresses, rate \in Rates :
              \/ RateLimited(r, cred, address, rate)
              \/ \E k \in Kinds : Admitted(r, cred, address, rate, k)
  PROVE  RequestsTyped'
<1> USE DEF RequestsTyped
<1>1. CASE Unauthorized(r, cred)
  BY <1>1 DEF Unauthorized, Reply, Goto, Points, Answers
<1>2. ASSUME NEW address \in Addresses, NEW rate \in Rates,
             RateLimited(r, cred, address, rate)
      PROVE  RequestsTyped'
  BY <1>2 DEF RateLimited, Answers
<1>3. ASSUME NEW address \in Addresses, NEW rate \in Rates, NEW k \in Kinds,
             Admitted(r, cred, address, rate, k)
      PROVE  RequestsTyped'
  <2>1. authenticate(cred) \in Users \union {NoUser}
    BY CredentialIsOfUser
  <2> QED
    BY <1>3, <2>1 DEF Admitted, Goto, Points
<1> QED
  BY <1>1, <1>2, <1>3

LEMMA GotoTyped ==
  ASSUME RequestsTyped, NEW r \in Requests, NEW p \in Points, Goto(r, p)
  PROVE  point' \in [Requests -> Points]
BY DEF RequestsTyped, Goto

LEMMA ReplyTyped ==
  ASSUME RequestsTyped, NEW r \in Requests, NEW code \in Answers, Reply(r, code)
  PROVE  point' \in [Requests -> Points] /\ answer' \in [Requests -> Answers]
BY DEF RequestsTyped, Reply, Goto, Points

LEMMA HandlerKeepsRequestTypes ==
  ASSUME ApiInv, NEW r \in Requests, HandlerStep(r)
  PROVE  RequestsTyped'
<1> USE DEF Points, Answers
<1>0. RequestsTyped /\ status \in [JobIds -> Statuses]
      /\ (point[r] \in WithJob => id[r] \in JobIds)
  BY DEF ApiInv, TypeOK, JobsAreKnown, RequestsTyped
<1>1. CASE BadRequest(r) \/ QuotaExceeded(r) \/ QueueFull(r)
  <2>1. \E code \in Answers : Reply(r, code)
    BY <1>1 DEF BadRequest, QuotaExceeded, QueueFull
  <2>2. UNCHANGED <<kind, user, id, waited, seen>>
    BY <1>1 DEF BadRequest, QuotaExceeded, QueueFull
  <2> QED
    BY <1>0, <2>1, <2>2, ReplyTyped DEF RequestsTyped
<1>10. CASE QuotaTaken(r) \/ Poll(r)
  <2>1. \E p \in Points : Goto(r, p)
    BY <1>10 DEF QuotaTaken, Poll
  <2>2. UNCHANGED <<kind, user, id, waited, seen, answer>>
    BY <1>10 DEF QuotaTaken, Poll
  <2> QED
    BY <1>0, <2>1, <2>2, GotoTyped DEF RequestsTyped
<1>2. ASSUME NEW j \in JobIds, Enqueued(r, j)
      PROVE  RequestsTyped'
  BY <1>0, <1>2, GotoTyped DEF Enqueued, RequestsTyped
<1>3. ASSUME NEW j \in JobIds, Find(r, j)
      PROVE  RequestsTyped'
  <2>1. point' \in [Requests -> Points] /\ answer' \in [Requests -> Answers]
    <3>1. CASE j \in listed
      BY <1>0, <1>3, <3>1, GotoTyped DEF Find, RequestsTyped
    <3>2. CASE j \notin listed
      BY <1>0, <1>3, <3>2, ReplyTyped DEF Find
    <3> QED
      BY <3>1, <3>2
  <2> QED
    BY <1>0, <1>3, <2>1 DEF Find, RequestsTyped
<1>4. CASE WaitTimeout(r)
  BY <1>0, <1>4, GotoTyped DEF WaitTimeout, RequestsTyped
<1>5. CASE Peek(r)
  BY <1>0, <1>5, GotoTyped DEF Peek, RequestsTyped
<1>6. CASE Again(r)
  <2>1. seen' = [seen EXCEPT ![r].status = "none"] /\ "none" \in Statuses
    BY <1>6 DEF Again, Statuses
  <2>2. seen' \in [Requests -> [status : Statuses, result : BOOLEAN]]
    BY <1>0, <2>1 DEF RequestsTyped
  <2>3. point' \in [Requests -> Points]
    BY <1>0, <1>6, GotoTyped DEF Again
  <2> QED
    BY <1>0, <1>6, <2>2, <2>3 DEF Again, RequestsTyped
<1>7. CASE ReadNil(r)
  <2>1. Reply(r, 0) \/ Reply(r, 200)
    BY <1>7 DEF ReadNil
  <2> QED
    BY <1>0, <1>7, <2>1, ReplyTyped DEF ReadNil, RequestsTyped
<1>8. CASE ReadStatus(r)
  <2>1. seen' = [seen EXCEPT ![r].status = status[id[r]]] /\ status[id[r]] \in Statuses
    BY <1>0, <1>8 DEF ReadStatus, WithJob
  <2>2. seen' \in [Requests -> [status : Statuses, result : BOOLEAN]]
    BY <1>0, <2>1 DEF RequestsTyped
  <2>3. Reply(r, 202) \/ Reply(r, 409) \/ (Goto(r, "poll") /\ UNCHANGED answer)
        \/ (Goto(r, "result") /\ UNCHANGED answer)
    BY <1>8 DEF ReadStatus
  <2>4. point' \in [Requests -> Points] /\ answer' \in [Requests -> Answers]
    BY <1>0, <2>3, GotoTyped, ReplyTyped DEF RequestsTyped
  <2> QED
    BY <1>0, <1>8, <2>2, <2>4 DEF ReadStatus, RequestsTyped
<1>9. CASE ReadResult(r)
  <2> DEFINE found == id[r] \in result
             code == IF kind[r] = "report" /\ id[r] \notin result THEN 422 ELSE 200
  <2>1. seen' = [seen EXCEPT ![r].result = found] /\ found \in BOOLEAN
    BY <1>9 DEF ReadResult
  <2>2. Reply(r, code) /\ code \in Answers
    BY <1>9 DEF ReadResult
  <2> HIDE DEF found, code
  <2>3. seen' \in [Requests -> [status : Statuses, result : BOOLEAN]]
    BY <1>0, <2>1 DEF RequestsTyped
  <2>4. point' \in [Requests -> Points] /\ answer' \in [Requests -> Answers]
    BY <1>0, <2>2, ReplyTyped
  <2> QED
    BY <1>0, <1>9, <2>3, <2>4 DEF ReadResult, RequestsTyped
<1> QED
  BY <1>1, <1>2, <1>3, <1>4, <1>5, <1>6, <1>7, <1>8, <1>9, <1>10 DEF HandlerStep

LEMMA RequestsTypedNext ==
  ASSUME ApiInv, [Next]_vars
  PROVE  RequestsTyped'
<1>0. RequestsTyped
  BY DEF ApiInv, TypeOK, RequestsTyped
<1>1. CASE UNCHANGED requestVars
  BY <1>0, <1>1 DEF RequestsTyped, requestVars
<1>2. CASE (\E j \in JobIds : BeginScan(j) \/ StoreStatus(j)) \/ StoreResult \/ Forget
           \/ Tick \/ UNCHANGED vars
  BY <1>1, <1>2 DEF BeginScan, StoreStatus, StoreResult, Forget, Tick, vars
<1> QED
  BY <1>0, <1>2, MiddlewareKeepsRequestTypes, HandlerKeepsRequestTypes DEF Next

-----------------------------------------------------------------------------
(* A step of a request changes nothing of another request. *)

SameRequest(q) ==
  /\ kind'[q] = kind[q]
  /\ user'[q] = user[q]
  /\ point'[q] = point[q]
  /\ id'[q] = id[q]
  /\ waited'[q] = waited[q]
  /\ seen'[q] = seen[q]
  /\ answer'[q] = answer[q]

RequestStep(r) ==
  \/ \E cred \in Credentials :
       \/ Unauthorized(r, cred)
       \/ \E address \in Addresses, rate \in Rates :
            \/ RateLimited(r, cred, address, rate)
            \/ \E k \in Kinds : Admitted(r, cred, address, rate, k)
  \/ HandlerStep(r)

QueueStep ==
  \/ \E j \in JobIds : BeginScan(j) \/ StoreStatus(j)
  \/ StoreResult \/ Forget

LEMMA NextParts ==
  ASSUME [Next]_vars
  PROVE  (\E r \in Requests : RequestStep(r)) \/ QueueStep \/ Tick \/ UNCHANGED vars
BY DEF Next, RequestStep, QueueStep

LEMMA OthersKeep ==
  ASSUME RequestsTyped, NEW r \in Requests, NEW q \in Requests, q # r, RequestStep(r)
  PROVE  SameRequest(q)
<1> USE DEF RequestsTyped, SameRequest, Goto, Reply
<1>1. ASSUME NEW cred \in Credentials, Unauthorized(r, cred)
      PROVE  SameRequest(q)
  BY <1>1 DEF Unauthorized
<1>2. ASSUME NEW cred \in Credentials, NEW address \in Addresses, NEW rate \in Rates,
             RateLimited(r, cred, address, rate)
      PROVE  SameRequest(q)
  BY <1>2 DEF RateLimited
<1>3. ASSUME NEW cred \in Credentials, NEW address \in Addresses, NEW rate \in Rates,
             NEW k \in Kinds, Admitted(r, cred, address, rate, k)
      PROVE  SameRequest(q)
  BY <1>3 DEF Admitted
<1>4. CASE BadRequest(r) \/ QuotaTaken(r) \/ QuotaExceeded(r) \/ QueueFull(r)
  BY <1>4 DEF BadRequest, QuotaTaken, QuotaExceeded, QueueFull
<1>5. ASSUME NEW j \in JobIds, Enqueued(r, j)
      PROVE  SameRequest(q)
  BY <1>5 DEF Enqueued
<1>6. ASSUME NEW j \in JobIds, Find(r, j)
      PROVE  SameRequest(q)
  BY <1>6 DEF Find
<1>7. CASE Poll(r) \/ WaitTimeout(r)
  BY <1>7 DEF Poll, WaitTimeout
<1>8. CASE Peek(r)
  BY <1>8 DEF Peek
<1>9. CASE Again(r)
  BY <1>9 DEF Again
<1>10. CASE ReadNil(r)
  BY <1>10 DEF ReadNil
<1>11. CASE ReadStatus(r)
  <2>1. Reply(r, 202) \/ Reply(r, 409) \/ (Goto(r, "poll") /\ UNCHANGED answer)
        \/ (Goto(r, "result") /\ UNCHANGED answer)
    <3> HIDE DEF Reply, Goto
    <3> QED
      BY <1>11 DEF ReadStatus
  <2>2. point'[q] = point[q] /\ answer'[q] = answer[q]
    BY <2>1
  <2> QED
    BY <1>11, <2>2 DEF ReadStatus
<1>12. CASE ReadResult(r)
  BY <1>12 DEF ReadResult
<1> QED
  BY <1>1, <1>2, <1>3, <1>4, <1>5, <1>6, <1>7, <1>8, <1>9, <1>10, <1>11, <1>12
  DEF RequestStep, HandlerStep

LEMMA AllKeep ==
  ASSUME QueueStep \/ Tick \/ UNCHANGED vars
  PROVE  UNCHANGED requestVars /\ \A q \in Requests : SameRequest(q)
<1>1. UNCHANGED requestVars
  BY DEF QueueStep, BeginScan, StoreStatus, StoreResult, Forget, Tick, vars
<1> QED
  BY <1>1 DEF requestVars, SameRequest

LEMMA JobsAreKnownNext ==
  ASSUME ApiInv, [Next]_vars
  PROVE  JobsAreKnown'
<1>0. RequestsTyped /\ JobsAreKnown
  BY DEF ApiInv, TypeOK, RequestsTyped
<1>1. ASSUME NEW q \in Requests, SameRequest(q), point'[q] \in WithJob
      PROVE  id'[q] \in JobIds
  BY <1>0, <1>1 DEF SameRequest, JobsAreKnown
<1>2. ASSUME NEW r \in Requests, RequestStep(r), point'[r] \in WithJob
      PROVE  id'[r] \in JobIds
  <2> USE <1>0 DEF RequestsTyped, Goto, Reply, WithJob, JobsAreKnown
  <2>1. ASSUME NEW cred \in Credentials, Unauthorized(r, cred)
        PROVE  FALSE
    BY <1>2, <2>1 DEF Unauthorized
  <2>2. ASSUME NEW cred \in Credentials, NEW address \in Addresses, NEW rate \in Rates,
               RateLimited(r, cred, address, rate)
        PROVE  FALSE
    BY <1>2, <2>2 DEF RateLimited
  <2>3. ASSUME NEW cred \in Credentials, NEW address \in Addresses, NEW rate \in Rates,
               NEW k \in Kinds, Admitted(r, cred, address, rate, k)
        PROVE  FALSE
    BY <1>2, <2>3 DEF Admitted
  <2>4. CASE BadRequest(r) \/ QuotaTaken(r) \/ QuotaExceeded(r) \/ QueueFull(r)
    BY <1>2, <2>4 DEF BadRequest, QuotaTaken, QuotaExceeded, QueueFull
  <2>5. ASSUME NEW j \in JobIds, Enqueued(r, j) \/ Find(r, j)
        PROVE  id'[r] \in JobIds
    BY <1>2, <2>5 DEF Enqueued, Find
  <2>6. CASE Poll(r) \/ Peek(r) \/ WaitTimeout(r) \/ Again(r)
    BY <1>2, <2>6 DEF Poll, Peek, WaitTimeout, Again
  <2>7. CASE ReadNil(r) \/ ReadStatus(r) \/ ReadResult(r)
    <3>1. id' = id /\ point[r] \in WithJob
      BY <2>7 DEF ReadNil, ReadStatus, ReadResult
    <3> QED
      BY <3>1
  <2> QED
    BY <1>2, <2>1, <2>2, <2>3, <2>4, <2>5, <2>6, <2>7 DEF RequestStep, HandlerStep
<1>3. ASSUME NEW q \in Requests, point'[q] \in WithJob
      PROVE  id'[q] \in JobIds
  <2>1. ASSUME NEW r \in Requests, RequestStep(r)
        PROVE  id'[q] \in JobIds
    <3>1. CASE q = r
      BY <1>2, <1>3, <2>1, <3>1
    <3>2. CASE q # r
      BY <1>0, <1>1, <1>3, <2>1, <3>2, OthersKeep
    <3> QED
      BY <3>1, <3>2
  <2> QED
    BY <1>1, <1>3, <2>1, NextParts, AllKeep
<1> QED
  BY <1>3 DEF JobsAreKnown

LEMMA ApiInvInit == Init => ApiInv
<1> SUFFICES ASSUME Init PROVE ApiInv
  OBVIOUS
<1>1. LimiterInv
  BY LimiterInvInit DEF Init
<1>2. BoardTyped /\ RequestsTyped
  BY DEF Init, Board!Init, BoardTyped, RequestsTyped, Statuses, Kinds, Points, Answers
<1>3. UsedTyped
  BY ScanApiAssumption DEF Init, UsedTyped, ScanApiAssumption
<1>4. JobsAreKnown
  BY DEF Init, JobsAreKnown, WithJob
<1> QED
  BY <1>1, <1>2, <1>3, <1>4, TypeParts DEF ApiInv, LimiterInv

LEMMA ApiInvNext ==
  ASSUME ApiInv, [Next]_vars
  PROVE  ApiInv'
<1>1. LimiterInv'
  BY ApiStepIsLimiterStep, LimiterInvNext DEF ApiInv
<1>2. BoardTyped' /\ UsedTyped' /\ RequestsTyped' /\ JobsAreKnown'
  BY BoardTypedNext, UsedTypedNext, RequestsTypedNext, JobsAreKnownNext
<1>3. LimiterTypeOK'
  BY <1>1 DEF LimiterInv
<1>4. TypeOK'
  BY <1>2, <1>3 DEF TypeOK, BoardTyped, UsedTyped, RequestsTyped
<1> QED
  BY <1>1, <1>2, <1>4 DEF ApiInv

LEMMA ApiAlwaysInv == Spec => []ApiInv
<1>1. ApiInv /\ [Next]_vars => ApiInv'
  BY ApiInvNext
<1> QED
  BY <1>1, ApiInvInit, PTL DEF Spec

\* No handler, however its reads interleave with the workers and with other requests,
\* leaves its state space: no counter goes past the limit of the tier, a job
\* that is dereferenced exists, and buckets hold no more than a burst
\* (server.go:405-606, auth.go:525-714).
THEOREM ApiTypeCorrect == Spec => []TypeOK
BY ApiAlwaysInv, PTL DEF ApiInv

-----------------------------------------------------------------------------
(* Whole answers *)

\* The queue, between the two writes that end a job and otherwise.
QueueInv ==
  /\ \A j \in result : status[j] = "completed"
  /\ \A j \in JobIds : status[j] = "completed" /\ storing # j => j \in result
  /\ \A j \in JobIds : status[j] \in {"pending", "running"} => j \in listed
  /\ \A j \in listed : status[j] # "none"
  /\ storing # NoJob => status[storing] \in Final

\* A job that was forgotten had finished.
Forgotten(j) == j \in JobIds /\ j \notin listed /\ status[j] \in Final

\* A wait that saw the job finish; the second GetJob then waited for the worker
\* to release q.mu.
Settled(r) ==
  waited[r] = "finished" =>
    /\ id[r] \in JobIds /\ status[id[r]] \in Final
    /\ point[r] \in {"nil", "status", "result", "done"} => storing # id[r]

Whole(r) ==
  IF seen[r].status = "none"
    THEN Forgotten(id[r])
    ELSE waited[r] = "finished" =>
           /\ seen[r].status = status[id[r]]
           /\ kind[r] = "resultsWait" => (seen[r].result <=> status[id[r]] = "completed")

Waits(r) ==
  /\ point[r] \in Before => waited[r] = "no"
  /\ point[r] \in WithJob => status[id[r]] # "none"
  /\ point[r] = "again" => waited[r] # "no"
  /\ point[r] = "nil" => seen[r].status = "none" /\ Forgotten(id[r])
  /\ point[r] = "result" /\ waited[r] # "no" =>
       /\ seen[r].status # "none"
       /\ waited[r] = "finished" => seen[r].status = status[id[r]]
  /\ point[r] = "done" /\ waited[r] # "no" => Whole(r)

WaitInv == QueueInv /\ \A r \in Requests : Settled(r) /\ Waits(r)

\* What a step may do to a job that was submitted: a final status stays, the worker
\* does not come back to it, and a forgotten job is not listed again.
JobGoesOn(j) ==
  /\ status[j] # "none" => status'[j] # "none"
  /\ status[j] \in Final => status'[j] = status[j] /\ (storing # j => storing' # j)
  /\ status[j] \in Final /\ j \notin listed => j \notin listed'

LEMMA RequestsKeepJobs ==
  ASSUME NEW r \in Requests, RequestStep(r), ~\E j \in JobIds : Enqueued(r, j)
  PROVE  UNCHANGED queueVars
BY DEF RequestStep, HandlerStep, Unauthorized, RateLimited, Admitted, BadRequest, QuotaTaken,
       QuotaExceeded, Find, QueueFull, Poll, Peek, WaitTimeout, Again, ReadNil, ReadStatus,
       ReadResult

LEMMA JobsGoOn ==
  ASSUME ApiInv, [Next]_vars, NEW j \in JobIds
  PROVE  JobGoesOn(j)
<1>0. /\ status \in [JobIds -> Statuses] /\ listed \in SUBSET JobIds
      /\ NoJob \notin JobIds
  BY ScanApiAssumption DEF ApiInv, TypeOK, ScanApiAssumption
<1> USE DEF JobGoesOn, Final
<1>1. CASE UNCHANGED queueVars
  BY <1>1 DEF queueVars
<1>2. ASSUME NEW r \in Requests, NEW i \in JobIds, Enqueued(r, i)
      PROVE  JobGoesOn(j)
  BY <1>0, <1>2 DEF Enqueued, Board!Submit
<1>3. ASSUME NEW i \in JobIds, BeginScan(i) \/ StoreStatus(i)
      PROVE  JobGoesOn(j)
  BY <1>0, <1>3 DEF BeginScan, StoreStatus, Board!Begin, Board!End
<1>4. CASE StoreResult
  BY <1>0, <1>4 DEF StoreResult
<1>5. CASE Forget
  BY <1>0, <1>5 DEF Forget, Board!Forget
<1>6. CASE Tick \/ UNCHANGED vars
  BY <1>1, <1>6 DEF Tick, vars
<1> QED
  BY <1>1, <1>2, <1>3, <1>4, <1>5, <1>6, NextParts, RequestsKeepJobs DEF QueueStep

LEMMA QueueInvNext ==
  ASSUME ApiInv, QueueInv, [Next]_vars
  PROVE  QueueInv'
<1>0. /\ status \in [JobIds -> Statuses] /\ listed \in SUBSET JobIds
      /\ result \in SUBSET JobIds /\ storing \in JobIds \union {NoJob}
      /\ NoJob \notin JobIds
  BY ScanApiAssumption DEF ApiInv, TypeOK, ScanApiAssumption
<1> USE DEF QueueInv, Final
<1>1. CASE UNCHANGED queueVars
  BY <1>1 DEF queueVars
<1>2. ASSUME NEW r \in Requests, NEW i \in JobIds, Enqueued(r, i)
      PROVE  QueueInv'
  BY <1>0, <1>2 DEF Enqueued, Board!Submit, Board!FinishedIn
<1>3. ASSUME NEW i \in JobIds, BeginScan(i)
      PROVE  QueueInv'
  BY <1>0, <1>3 DEF BeginScan, Board!Begin
<1>4. ASSUME NEW i \in JobIds, StoreStatus(i)
      PROVE  QueueInv'
  BY <1>0, <1>4 DEF StoreStatus, Board!End
<1>5. CASE StoreResult
  BY <1>0, <1>5 DEF StoreResult
<1>6. CASE Forget
  BY <1>0, <1>6 DEF Forget, Board!Forget, Board!FinishedIn
<1>7. CASE Tick \/ UNCHANGED vars
  BY <1>1, <1>7 DEF Tick, vars
<1> QED
  BY <1>1, <1>2, <1>3, <1>4, <1>5, <1>6, <1>7, NextParts, RequestsKeepJobs DEF QueueStep

\* A request that takes no step keeps what it knows of its job.
LEMMA WaitingGoesOn ==
  ASSUME ApiInv, NEW q \in Requests, Settled(q), Waits(q), SameRequest(q),
         \A j \in JobIds : JobGoesOn(j)
  PROVE  Settled(q)' /\ Waits(q)'
<1>1. point[q] \in WithJob => id[q] \in JobIds
  BY DEF ApiInv, JobsAreKnown
<1>2. Settled(q)'
  BY DEF Settled, SameRequest, JobGoesOn
<1>3. Waits(q)'
  BY <1>1 DEF Settled, Waits, Whole, Forgotten, SameRequest, JobGoesOn, WithJob
<1> QED
  BY <1>2, <1>3

\* Before the wait nothing has been waited for, and an answer given then says
\* nothing of a wait.
LEMMA FirstStepsKeepWaits ==
  ASSUME ApiInv, NEW r \in Requests, Waits(r), point[r] \in Before,
         waited' = waited, point'[r] \in Before \union {"done"}
  PROVE  Settled(r)' /\ Waits(r)'
BY DEF Settled, Waits, Before, WithJob

LEMMA StepKeepsWaits ==
  ASSUME ApiInv, QueueInv, NEW r \in Requests, Settled(r), Waits(r), RequestStep(r)
  PROVE  Settled(r)' /\ Waits(r)'
<1>0. /\ RequestsTyped /\ status \in [JobIds -> Statuses]
      /\ point[r] \in WithJob => id[r] \in JobIds
      /\ NoJob \notin JobIds
  BY ScanApiAssumption
  DEF ApiInv, TypeOK, RequestsTyped, JobsAreKnown, ScanApiAssumption
<1>1. CASE \E cred \in Credentials :
             \/ Unauthorized(r, cred)
             \/ \E address \in Addresses, rate \in Rates :
                  \/ RateLimited(r, cred, address, rate)
                  \/ \E k \in Kinds : Admitted(r, cred, address, rate, k)
  <2>1. point[r] \in Before /\ waited' = waited
    BY <1>1 DEF Unauthorized, RateLimited, Admitted, Before
  <2>2. point'[r] \in Before \union {"done"}
    BY <1>0, <1>1 DEF Unauthorized, RateLimited, Admitted, Before, Reply, Goto, RequestsTyped
  <2> QED
    BY <2>1, <2>2, FirstStepsKeepWaits
<1>2. CASE BadRequest(r) \/ QuotaTaken(r) \/ QuotaExceeded(r) \/ QueueFull(r)
  <2>1. point[r] \in Before /\ waited' = waited
    BY <1>2 DEF BadRequest, QuotaTaken, QuotaExceeded, QueueFull, Before
  <2>2. Goto(r, "enqueue") \/ Goto(r, "done")
    BY <1>2 DEF BadRequest, QuotaTaken, QuotaExceeded, QueueFull, Reply
  <2>3. point'[r] \in Before \union {"done"}
    BY <1>0, <2>2 DEF Goto, RequestsTyped, Before
  <2> QED
    BY <2>1, <2>3, FirstStepsKeepWaits
<1>3. ASSUME NEW j \in JobIds, Enqueued(r, j)
      PROVE  Settled(r)' /\ Waits(r)'
  <2>1. waited'[r] = "no" /\ id'[r] = j /\ point'[r] \in {"poll", "status"}
    BY <1>0, <1>3 DEF Enqueued, Goto, Waits, Before, RequestsTyped
  <2>2. status'[j] = "pending"
    BY <1>0, <1>3 DEF Enqueued, Board!Submit
  <2> QED
    BY <2>1, <2>2 DEF Settled, Waits, Before, WithJob
<1>4. ASSUME NEW j \in JobIds, Find(r, j)
      PROVE  Settled(r)' /\ Waits(r)'
  <2>1. waited'[r] = "no" /\ id'[r] = j /\ status' = status
    BY <1>0, <1>4 DEF Find, Waits, Before, RequestsTyped, queueVars
  <2>2. (point'[r] = "status" /\ status[j] # "none") \/ point'[r] = "done"
    BY <1>0, <1>4 DEF Find, Goto, Reply, RequestsTyped, QueueInv
  <2> QED
    BY <2>1, <2>2 DEF Settled, Waits, Before, WithJob
<1>5. CASE Poll(r)
  <2>1. /\ point[r] = "poll" /\ point'[r] = "peek"
        /\ UNCHANGED <<queueVars, id, waited>>
    BY <1>0, <1>5 DEF Poll, Goto, RequestsTyped
  <2> QED
    BY <2>1 DEF Settled, Waits, Before, WithJob, queueVars
<1>6. CASE Peek(r)
  <2>1. point[r] = "peek" /\ UNCHANGED <<queueVars, id>>
    BY <1>6 DEF Peek
  <2>2. CASE status[id[r]] \in Final
    <3>1. point'[r] = "again" /\ waited'[r] = "finished"
      BY <1>0, <1>6, <2>2 DEF Peek, Goto, RequestsTyped
    <3> QED
      BY <1>0, <2>1, <2>2, <3>1 DEF Settled, Waits, Before, WithJob, queueVars
  <2>3. CASE status[id[r]] \notin Final
    <3>1. point'[r] = "poll" /\ waited' = waited
      BY <1>0, <1>6, <2>3 DEF Peek, Goto, RequestsTyped
    <3> QED
      BY <1>0, <2>1, <3>1 DEF Settled, Waits, Before, WithJob, queueVars
  <2> QED
    BY <2>2, <2>3
<1>7. CASE WaitTimeout(r)
  <2>1. /\ point[r] = "poll" /\ point'[r] = "again" /\ waited'[r] = "timeout"
        /\ UNCHANGED <<queueVars, id>>
    BY <1>0, <1>7 DEF WaitTimeout, Goto, RequestsTyped
  <2> QED
    BY <2>1 DEF Settled, Waits, Before, WithJob, queueVars
<1>8. CASE Again(r)
  <2>1. /\ point[r] = "again" /\ storing = NoJob /\ UNCHANGED <<queueVars, id, waited>>
        /\ point'[r] = IF id[r] \in listed THEN "status" ELSE "nil"
    BY <1>0, <1>8 DEF Again, Goto, RequestsTyped
  <2>2. seen'[r].status = "none"
    BY <1>0, <1>8 DEF Again, RequestsTyped
  <2>3. id[r] \in JobIds /\ storing # id[r] /\ status[id[r]] # "none"
    BY <1>0, <2>1 DEF Waits, WithJob
  <2>4. id[r] \notin listed => Forgotten(id[r])
    BY <1>0, <2>3 DEF QueueInv, Forgotten, Final, Statuses
  <2> QED
    BY <2>1, <2>2, <2>3, <2>4 DEF Settled, Waits, Before, WithJob, Forgotten, queueVars
<1>9. CASE ReadNil(r)
  <2>1. /\ point[r] = "nil" /\ UNCHANGED <<queueVars, id, waited, seen>>
        /\ Goto(r, "done")
    BY <1>9 DEF ReadNil, Reply
  <2>2. point'[r] = "done"
    BY <1>0, <2>1 DEF Goto, RequestsTyped
  <2> QED
    BY <2>1, <2>2 DEF Settled, Waits, Whole, Before, WithJob, Forgotten, queueVars
<1>10. CASE ReadStatus(r)
  <2>1. point[r] = "status" /\ UNCHANGED <<queueVars, id, waited, kind>>
    BY <1>10 DEF ReadStatus
  <2>2. seen'[r].status = status[id[r]] /\ status[id[r]] # "none"
    BY <1>0, <1>10, <2>1 DEF ReadStatus, RequestsTyped, Waits, WithJob
  <2>3. \/ Goto(r, "done") /\ kind[r] # "resultsWait"
        \/ Goto(r, "poll") /\ waited[r] = "no"
        \/ Goto(r, "result")
    BY <1>10 DEF ReadStatus, Reply, Scans
  <2>4. \/ point'[r] = "done" /\ kind[r] # "resultsWait"
        \/ point'[r] = "poll" /\ waited[r] = "no"
        \/ point'[r] = "result"
    BY <1>0, <2>3 DEF Goto, RequestsTyped
  <2>5. Settled(r)'
    BY <2>1, <2>4 DEF Settled, queueVars
  <2>6. Waits(r)'
    BY <2>1, <2>2, <2>4 DEF Waits, Whole, Before, WithJob, queueVars
  <2> QED
    BY <2>5, <2>6
<1>11. CASE ReadResult(r)
  <2>1. point[r] = "result" /\ UNCHANGED <<queueVars, id, waited, kind>>
    BY <1>11 DEF ReadResult
  <2>2. /\ seen'[r].status = seen[r].status
        /\ seen'[r].result = (id[r] \in result)
        /\ point'[r] = "done"
    BY <1>0, <1>11 DEF ReadResult, Reply, Goto, RequestsTyped
  <2>3. Settled(r)'
    BY <2>1, <2>2 DEF Settled, queueVars
  <2>4. ASSUME waited[r] = "finished"
        PROVE  id[r] \in result <=> status[id[r]] = "completed"
    BY <2>1, <2>4 DEF Settled, QueueInv
  <2>5. Waits(r)'
    BY <2>1, <2>2, <2>4 DEF Waits, Whole, Before, WithJob, queueVars
  <2> QED
    BY <2>3, <2>5
<1> QED
  BY <1>1, <1>2, <1>3, <1>4, <1>5, <1>6, <1>7, <1>8, <1>9, <1>10, <1>11
  DEF RequestStep, HandlerStep

LEMMA WaitInvNext ==
  ASSUME ApiInv, WaitInv, [Next]_vars
  PROVE  WaitInv'
<1>1. QueueInv'
  BY QueueInvNext DEF WaitInv
<1>2. \A j \in JobIds : JobGoesOn(j)
  BY JobsGoOn
<1>3. ASSUME NEW q \in Requests
      PROVE  Settled(q)' /\ Waits(q)'
  <2>1. Settled(q) /\ Waits(q) /\ QueueInv
    BY DEF WaitInv
  <2>2. CASE RequestStep(q)
    BY <2>1, <2>2, StepKeepsWaits
  <2>3. CASE SameRequest(q)
    BY <1>2, <2>1, <2>3, WaitingGoesOn
  <2>4. RequestsTyped
    BY DEF ApiInv, TypeOK, RequestsTyped
  <2> QED
    BY <2>2, <2>3, <2>4, NextParts, OthersKeep, AllKeep
<1> QED
  BY <1>1, <1>3 DEF WaitInv

\* What handleScan and handleResults answer after a wait is whole for any number of
\* requests, jobs and workers: the second GetJob cannot come between the two
\* writes that end a job, and a job it does not find has finished
\* (server.go:459-467, 491-503, 583-599; queue.go:286-298).
THEOREM WaitedAnswersHold == Spec => []WaitedAnswersAreWhole
<1>1. Init => WaitInv
  BY ScanApiAssumption
  DEF Init, Board!Init, WaitInv, QueueInv, Settled, Waits, Before, WithJob, Final
<1>2. ApiInv /\ WaitInv /\ [Next]_vars => WaitInv'
  BY WaitInvNext
<1>3. ApiInv /\ WaitInv => WaitedAnswersAreWhole
  BY DEF WaitInv, Settled, Waits, Whole, Forgotten, WaitedAnswersAreWhole
<1> QED
  BY <1>1, <1>2, <1>3, ApiAlwaysInv, PTL DEF Spec

-----------------------------------------------------------------------------
(* Paid scans *)

\* A scan past the quota, whatever became of it.
HasPaid(r) ==
  kind[r] \in Scans /\ (point[r] = "enqueue" \/ id[r] # NoJob \/ answer[r] = 503)

Paid(u) == {r \in Requests : user[r] = u /\ HasPaid(r)}

\* Where a handler can be and what it has then: a scan has a job or the answer of the
\* full queue only after it was paid.
Pays(r) ==
  /\ point[r] \in {"new", "quota", "enqueue"} => id[r] = NoJob
  /\ point[r] \in {"quota", "enqueue"} => kind[r] \in Scans
  /\ point[r] = "find" => kind[r] \notin Scans
  /\ answer[r] = 503 => point[r] = "done" /\ kind[r] \in Scans /\ id[r] = NoJob

PaidInv ==
  /\ \A r \in Requests : Pays(r)
  /\ enabled => \A u \in ApiKeys : Cardinality(Paid(u)) <= used[u]

\* A request that has paid by now and had not paid before, or not for this user.
NewlyPaid(q) == HasPaid(q)' /\ ~(HasPaid(q) /\ user'[q] = user[q])

LEMMA StepPays ==
  ASSUME ApiInv, NEW r \in Requests, Pays(r), RequestStep(r)
  PROVE  /\ Pays(r)'
         /\ NewlyPaid(r) => QuotaTaken(r)
<1>0. RequestsTyped /\ NoJob \notin JobIds
  BY ScanApiAssumption DEF ApiInv, TypeOK, RequestsTyped, ScanApiAssumption
<1>1. ASSUME NEW cred \in Credentials, Unauthorized(r, cred)
      PROVE  Pays(r)' /\ ~NewlyPaid(r)
  <2>1. /\ point[r] = "new" /\ point'[r] = "done" /\ answer'[r] = 401
        /\ UNCHANGED <<kind, user, id>>
    BY <1>0, <1>1 DEF Unauthorized, Reply, Goto, RequestsTyped
  <2> QED
    BY <2>1 DEF Pays, NewlyPaid, HasPaid
<1>2. ASSUME NEW cred \in Credentials, NEW address \in Addresses, NEW rate \in Rates,
             RateLimited(r, cred, address, rate)
      PROVE  Pays(r)' /\ ~NewlyPaid(r)
  <2>1. /\ point[r] = "new" /\ answer'[r] = 429 /\ UNCHANGED <<kind, user, point, id>>
    BY <1>0, <1>2 DEF RateLimited, RequestsTyped
  <2> QED
    BY <2>1 DEF Pays, NewlyPaid, HasPaid
<1>3. ASSUME NEW cred \in Credentials, NEW address \in Addresses, NEW rate \in Rates,
             NEW k \in Kinds, Admitted(r, cred, address, rate, k)
      PROVE  Pays(r)' /\ ~NewlyPaid(r)
  <2>1. /\ point[r] = "new" /\ UNCHANGED <<id, answer>> /\ kind'[r] = k
        /\ point'[r] = IF k \in Scans THEN "quota" ELSE "find"
    BY <1>0, <1>3 DEF Admitted, Goto, RequestsTyped
  <2> QED
    BY <2>1 DEF Pays, NewlyPaid, HasPaid
<1>4. CASE BadRequest(r) \/ QuotaExceeded(r)
  <2>1. /\ point[r] = "quota" /\ UNCHANGED <<kind, user, id>>
        /\ Reply(r, 400) \/ Reply(r, 429)
    BY <1>4 DEF BadRequest, QuotaExceeded
  <2>2. point'[r] = "done" /\ answer'[r] # 503
    BY <1>0, <2>1 DEF Reply, Goto, RequestsTyped
  <2> QED
    BY <2>1, <2>2 DEF Pays, NewlyPaid, HasPaid
<1>5. CASE QuotaTaken(r)
  <2>1. /\ point[r] = "quota" /\ point'[r] = "enqueue"
        /\ UNCHANGED <<kind, user, id, answer>>
    BY <1>0, <1>5 DEF QuotaTaken, Goto, RequestsTyped
  <2> QED
    BY <1>5, <2>1 DEF Pays
<1>6. CASE QueueFull(r)
  <2>1. /\ point[r] = "enqueue" /\ point'[r] = "done" /\ UNCHANGED <<kind, user, id>>
    BY <1>0, <1>6 DEF QueueFull, Reply, Goto, RequestsTyped
  <2> QED
    BY <2>1 DEF Pays, NewlyPaid, HasPaid
<1>7. ASSUME NEW j \in JobIds, Enqueued(r, j)
      PROVE  Pays(r)' /\ ~NewlyPaid(r)
  <2>1. /\ point[r] = "enqueue" /\ point'[r] \in {"poll", "status"}
        /\ UNCHANGED <<kind, user, answer>>
    BY <1>0, <1>7 DEF Enqueued, Goto, RequestsTyped
  <2> QED
    BY <2>1 DEF Pays, NewlyPaid, HasPaid
<1>8. ASSUME NEW j \in JobIds, Find(r, j)
      PROVE  Pays(r)' /\ ~NewlyPaid(r)
  <2>1. /\ point[r] = "find" /\ point'[r] \in {"status", "done"}
        /\ UNCHANGED <<kind, user>> /\ (answer'[r] = answer[r] \/ answer'[r] = 404)
    BY <1>0, <1>8 DEF Find, Reply, Goto, RequestsTyped
  <2> QED
    BY <2>1 DEF Pays, NewlyPaid, HasPaid
<1>9. CASE Poll(r) \/ Peek(r) \/ WaitTimeout(r) \/ Again(r)
  <2>1. /\ point[r] \in WithJob /\ UNCHANGED <<kind, user, id, answer>>
        /\ Goto(r, "peek") \/ Goto(r, "poll") \/ Goto(r, "again") \/ Goto(r, "status")
           \/ Goto(r, "nil")
    BY <1>9 DEF Poll, Peek, WaitTimeout, Again, WithJob
  <2>2. point'[r] \in WithJob
    BY <1>0, <2>1 DEF Goto, RequestsTyped, WithJob
  <2> QED
    BY <2>1, <2>2 DEF Pays, NewlyPaid, HasPaid, WithJob
<1>10. CASE ReadNil(r) \/ ReadStatus(r) \/ ReadResult(r)
  <2>1. point[r] \in WithJob /\ UNCHANGED <<kind, user, id>>
    BY <1>10 DEF ReadNil, ReadStatus, ReadResult, WithJob
  <2>2. \/ \E code \in {0, 200, 202, 409, 422} : Reply(r, code)
        \/ (Goto(r, "poll") \/ Goto(r, "result")) /\ UNCHANGED answer
    BY <1>10 DEF ReadNil, ReadStatus, ReadResult
  <2>3. /\ point'[r] \in WithJob \union {"done"}
        /\ answer'[r] = answer[r] \/ answer'[r] # 503
    BY <1>0, <2>2 DEF Reply, Goto, RequestsTyped, WithJob
  <2> QED
    BY <2>1, <2>3 DEF Pays, NewlyPaid, HasPaid, WithJob
<1> QED
  BY <1>1, <1>2, <1>3, <1>4, <1>5, <1>6, <1>7, <1>8, <1>9, <1>10
  DEF RequestStep, HandlerStep

LEMMA OtherPays ==
  ASSUME NEW q \in Requests, Pays(q), SameRequest(q)
  PROVE  Pays(q)' /\ ~NewlyPaid(q)
BY DEF Pays, NewlyPaid, HasPaid, SameRequest

LEMMA PaidFinite ==
  ASSUME NEW u
  PROVE  IsFiniteSet(Paid(u)) /\ Cardinality(Paid(u)) \in Nat
<1>1. Paid(u) \in SUBSET Requests
  BY DEF Paid
<1> QED
  BY <1>1, ScanApiAssumption, FS_Subset, FS_CardinalityType DEF ScanApiAssumption

LEMMA OnlyQuotaCounts ==
  ASSUME [Next]_vars
  PROVE  /\ enabled' = enabled
         /\ (~\E r \in Requests : QuotaTaken(r)) => used' = used
BY DEF Next, vars, Unauthorized, RateLimited, Admitted, HandlerStep, BadRequest, QuotaTaken,
       QuotaExceeded, Enqueued, Find, QueueFull, Poll, Peek, WaitTimeout, Again,
       ReadNil, ReadStatus, ReadResult, BeginScan, StoreStatus, StoreResult, Forget, Tick

\* QuotaTaken adds its request to those of its user that have paid, and no other
\* step adds one.
LEMMA WhoPays ==
  ASSUME ApiInv, \A q \in Requests : Pays(q), [Next]_vars
  PROVE  /\ \A q \in Requests : Pays(q)'
         /\ \A q \in Requests : NewlyPaid(q) => QuotaTaken(q)
         /\ \A r \in Requests, q \in Requests : QuotaTaken(r) /\ q # r => ~NewlyPaid(q)
<1>0. RequestsTyped
  BY DEF ApiInv, TypeOK, RequestsTyped
<1>1. ASSUME NEW q \in Requests
      PROVE  Pays(q)' /\ (NewlyPaid(q) => QuotaTaken(q))
  <2>1. CASE RequestStep(q)
    BY <2>1, StepPays
  <2>2. CASE SameRequest(q)
    BY <2>2, OtherPays
  <2> QED
    BY <1>0, <2>1, <2>2, NextParts, OthersKeep, AllKeep
<1>2. ASSUME NEW r \in Requests, NEW q \in Requests, QuotaTaken(r), q # r
      PROVE  ~NewlyPaid(q)
  <2>1. RequestStep(r)
    BY <1>2 DEF RequestStep, HandlerStep
  <2> QED
    BY <1>0, <1>2, <2>1, OthersKeep, OtherPays
<1> QED
  BY <1>1, <1>2

LEMMA PaidInvNext ==
  ASSUME ApiInv, PaidInv, [Next]_vars
  PROVE  PaidInv'
<1>1. /\ \A q \in Requests : Pays(q)'
      /\ \A q \in Requests : NewlyPaid(q) => QuotaTaken(q)
      /\ \A r \in Requests, q \in Requests : QuotaTaken(r) /\ q # r => ~NewlyPaid(q)
  BY WhoPays DEF PaidInv
<1>2. ASSUME enabled', NEW u \in ApiKeys
      PROVE  Cardinality(Paid(u)') <= used'[u]
  <2>0. /\ enabled /\ Cardinality(Paid(u)) <= used[u]
        /\ used \in [ApiKeys -> 0..Limit] /\ Limit \in Nat
    BY <1>2, OnlyQuotaCounts, ScanApiAssumption
    DEF PaidInv, ApiInv, TypeOK, ScanApiAssumption
  <2>1. IsFiniteSet(Paid(u)) /\ Cardinality(Paid(u)) \in Nat
    BY PaidFinite
  <2>2. CASE \E r \in Requests : QuotaTaken(r) /\ HasQuota(r) /\ user[r] = u
    <3>1. PICK r \in Requests : QuotaTaken(r) /\ HasQuota(r) /\ user[r] = u
      BY <2>2
    <3>2. used'[u] = used[u] + 1
      BY <2>0, <3>1 DEF QuotaTaken
    <3>3. Paid(u)' \in SUBSET (Paid(u) \union {r})
      BY <1>1, <3>1 DEF Paid, NewlyPaid
    <3>4. /\ IsFiniteSet(Paid(u) \union {r})
          /\ Cardinality(Paid(u) \union {r}) \in {Cardinality(Paid(u)), Cardinality(Paid(u)) + 1}
      BY <2>1, FS_AddElement
    <3>5. /\ IsFiniteSet(Paid(u)')
          /\ Cardinality(Paid(u)') <= Cardinality(Paid(u) \union {r})
      BY <3>3, <3>4, FS_Subset
    <3>6. Cardinality(Paid(u)') \in Nat
      BY <3>5, FS_CardinalityType
    <3> QED
      BY <2>0, <2>1, <3>2, <3>4, <3>5, <3>6
  <2>3. CASE ~\E r \in Requests : QuotaTaken(r) /\ HasQuota(r) /\ user[r] = u
    <3>1. used'[u] = used[u]
      BY <2>0, <2>3, OnlyQuotaCounts DEF QuotaTaken
    <3>2. ASSUME NEW q \in Requests, q \in Paid(u)', NewlyPaid(q)
          PROVE  FALSE
      <4>1. QuotaTaken(q)
        BY <1>1, <3>2
      <4>2. user'[q] = u /\ user' = user
        BY <3>2, <4>1 DEF Paid, QuotaTaken
      <4> QED
        BY <2>0, <2>3, <4>1, <4>2 DEF HasQuota
    <3>3. Paid(u)' \in SUBSET Paid(u)
      BY <3>2 DEF Paid, NewlyPaid
    <3>4. IsFiniteSet(Paid(u)') /\ Cardinality(Paid(u)') <= Cardinality(Paid(u))
      BY <2>1, <3>3, FS_Subset
    <3>5. Cardinality(Paid(u)') \in Nat
      BY <3>4, FS_CardinalityType
    <3> QED
      BY <2>0, <2>1, <3>1, <3>4, <3>5
  <2> QED
    BY <2>2, <2>3
<1> QED
  BY <1>1, <1>2 DEF PaidInv

\* A scan with a job was paid.
LEMMA InvPaysScans ==
  ASSUME ApiInv, PaidInv
  PROVE  EveryScanIsPaid
<1> SUFFICES ASSUME enabled, NEW u \in ApiKeys
             PROVE  Cardinality(Submitted(u)) <= used[u]
  BY DEF EveryScanIsPaid
<1>1. used[u] \in 0..Limit /\ Limit \in Nat /\ Cardinality(Paid(u)) <= used[u]
  BY ScanApiAssumption DEF ApiInv, TypeOK, PaidInv, ScanApiAssumption
<1>2. IsFiniteSet(Paid(u)) /\ Cardinality(Paid(u)) \in Nat
  BY PaidFinite
<1>3. Submitted(u) \in SUBSET Paid(u)
  BY DEF PaidInv, Pays, Submitted, Paid, HasPaid
<1>4. /\ Cardinality(Submitted(u)) <= Cardinality(Paid(u))
      /\ Cardinality(Submitted(u)) \in Nat
  BY <1>2, <1>3, FS_Subset, FS_CardinalityType
<1> QED
  BY <1>1, <1>2, <1>4

\* No interleaving of requests gets a user a scan that was not counted: the count is
\* taken before Enqueue, one scan at a time (server.go:424-456).
THEOREM ScansArePaid == Spec => []EveryScanIsPaid
<1>1. Init => PaidInv
  <2> SUFFICES ASSUME Init PROVE PaidInv
    OBVIOUS
  <2>1. \A r \in Requests : Pays(r) /\ ~HasPaid(r)
    BY DEF Init, Pays, HasPaid
  <2>2. \A u : Paid(u) = {}
    BY <2>1 DEF Paid
  <2>3. \A u \in ApiKeys : used[u] = 0 /\ Cardinality(Paid(u)) = 0
    BY <2>2, FS_EmptySet DEF Init
  <2> QED
    BY <2>1, <2>3 DEF PaidInv
<1>2. ApiInv /\ PaidInv /\ [Next]_vars => PaidInv'
  BY PaidInvNext
<1>3. ApiInv /\ PaidInv => EveryScanIsPaid
  BY InvPaysScans
<1> QED
  BY <1>1, <1>2, <1>3, ApiAlwaysInv, PTL DEF Spec
=============================================================================
