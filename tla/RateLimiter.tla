---------------------------- MODULE RateLimiter -----------------------------
(***************************************************************************)
(* Authentication and the token buckets of internal/auth/auth.go.  Tokens  *)
(* are counted in fractions of 1/Window, so that the refill of a tick is a *)
(* whole number: a request costs Window, a tick brings rate and a bucket   *)
(* holds at most rate * Window.  The code uses floating point.             *)
(***************************************************************************)
EXTENDS Naturals, FiniteSetsExt

CONSTANTS
  ApiKeys,    \* the keys of the users in the store that are not disabled
  Subjects,   \* the subjects of valid JWTs
  Addresses,  \* clientIP: the clients as the middleware tells them apart
  NoUser,     \* no, or no valid, credential
  Rates,      \* requests per window: of the users, of JWT tiers, of addresses
  Window,     \* a.window, in ticks of the clock (one minute in the code)
  MaxTime     \* bound on the clock

ASSUME RateLimiterAssumption ==
  /\ NoUser \notin ApiKeys \union Subjects
  /\ Rates \subseteq Nat \ {0}
  /\ \E most \in Rates : \A rate \in Rates : rate <= most
  /\ Window \in Nat \ {0}
  /\ MaxTime \in Nat

VARIABLES
  now,     \* time.Now()
  bucket,  \* a.anonBuckets: every client's tokens and the time of its last fill
  since    \* history: per client, the requests admitted at or after each time

limiterVars == <<now, bucket, since>>

Users == ApiKeys \union Subjects
Clients == Users \union Addresses
Times == 0..MaxTime

\* The most generous tier.
MaxRate == Max(Rates)

\* A client has no bucket before its first request.
NoBucket == [tokens |-> 0, lastFill |-> MaxTime + 1]

LimiterTypeOK ==
  /\ now \in Times
  /\ bucket \in [Clients -> [tokens : 0..(MaxRate * Window), lastFill : Times]
                            \union {NoBucket}]
  /\ since \in [Clients -> [Times -> Nat]]

LimiterInit ==
  /\ now = 0
  /\ bucket = [c \in Clients |-> NoBucket]
  /\ since = [c \in Clients |-> [t \in Times |-> 0]]

-----------------------------------------------------------------------------

\* What a request may carry: an X-API-Key header, a bearer token (a key or a
\* JWT) and an api_key parameter.  Basic credentials are hashed to a key.
Credentials ==
  [header : ApiKeys \union {NoUser}, bearer : Users \union {NoUser},
   query : ApiKeys \union {NoUser}]

\* The first credential that is valid.
authenticate(cred) ==
  IF cred.header # NoUser THEN cred.header
  ELSE IF cred.bearer # NoUser THEN cred.bearer
  ELSE cred.query

\* The bucket of a request is its user's, or its address's without a user.
Client(user, address) == IF user = NoUser THEN address ELSE user

\* The tokens of a client at its next request, which comes with the rate of its
\* tier; a JWT may bring another tier than the last one did.
Refilled(c, rate) ==
  IF bucket[c] = NoBucket
    THEN rate * Window
    ELSE Min({rate * Window, bucket[c].tokens + (now - bucket[c].lastFill) * rate})

allow(c, rate) ==
  /\ Refilled(c, rate) >= Window
  /\ bucket' = [bucket EXCEPT ![c] =
                  [tokens |-> Refilled(c, rate) - Window, lastFill |-> now]]
  /\ since' = [since EXCEPT ![c] = [t \in Times |-> IF t <= now THEN @[t] + 1 ELSE @[t]]]
  /\ UNCHANGED now

\* Mutant: lastFill is only set when the request is let through.
RefuseWithoutFill(c, rate) ==
  /\ Refilled(c, rate) < Window
  /\ bucket' = [bucket EXCEPT ![c].tokens = Refilled(c, rate)]
  /\ UNCHANGED <<now, since>>

refuse(c, rate) ==
  /\ Refilled(c, rate) < Window
  /\ bucket' = [bucket EXCEPT ![c] = [tokens |-> Refilled(c, rate), lastFill |-> now]]
  /\ UNCHANGED <<now, since>>

LimiterTick ==
  /\ now < MaxTime
  /\ now' = now + 1
  /\ UNCHANGED <<bucket, since>>

LimiterNext ==
  \/ \E c \in Clients, rate \in Rates : allow(c, rate) \/ refuse(c, rate)
  \/ LimiterTick

LimiterSpec == LimiterInit /\ [][LimiterNext]_limiterVars
-----------------------------------------------------------------------------
(* Properties *)

\* In every span of time a client is let through at most one burst of its
\* highest rate and what that rate brings meanwhile, however its requests are
\* spaced, refused ones in between, and whatever tier each of them has
\* (auth.go:689-714).
AdmissionBounded ==
  \A c \in Clients, t \in 0..now :
    since[c][t] * Window <= MaxRate * (Window + (now - t))
=============================================================================
