------------------------------ MODULE HttpClient ------------------------------
(***************************************************************************)
(* createHttpClient: a token bucket per origin outside, retries with       *)
(* backoff inside, around fetch.  A call takes one token, sleeping as long *)
(* as its bucket lacks one, and then makes up to MaxAttempts requests.     *)
(* Calls run concurrently and share the bucket of their origin.  A token   *)
(* is HttpUnit units, of which HttpRate accrue in a tick of the clock.     *)
(***************************************************************************)
EXTENDS Integers, Sequences, FiniteSets

CONSTANTS
  HttpCalls, HttpOrigins,
  HttpUnit, HttpRate,
  HttpCapacity,                  \* of a bucket, in units
  HttpMaxAttempts, HttpBaseDelay, HttpMaxDelay,
  HttpRetryAfters                \* the waits a server may ask for, in ticks

ASSUME HttpAssumption ==
  /\ HttpUnit \in Nat \ {0} /\ HttpRate \in Nat \ {0}
  /\ HttpCapacity \in Nat /\ HttpCapacity >= HttpUnit
  /\ HttpMaxAttempts \in Nat \ {0}
  /\ HttpBaseDelay \in Nat /\ HttpMaxDelay \in Nat
  /\ HttpRetryAfters \subseteq Nat

VARIABLES
  httpNow,      \* the clock
  httpBucket,   \* memo: the bucket of every origin called so far
  httpCall,     \* where each call is
  httpGrants    \* history: when tokens of each origin were taken

httpVars == <<httpNow, httpBucket, httpCall, httpGrants>>

\* "answered": with success or with a status that is not retried.
HttpOutcomes == {"answered", "unavailable", "networkError"}

HttpIdle == [at |-> "idle", origin |-> "none", wake |-> 0, attempt |-> 0]

HttpInit ==
  /\ httpNow = 0
  /\ httpBucket = <<>>
  /\ httpCall = [c \in HttpCalls |-> HttpIdle]
  /\ httpGrants = [o \in HttpOrigins |-> <<>>]

HttpTypeOK ==
  /\ httpNow \in Nat
  /\ DOMAIN httpBucket \subseteq HttpOrigins
  /\ \A o \in DOMAIN httpBucket :
       httpBucket[o] \in [tokens : 0 .. HttpCapacity, last : 0 .. httpNow]
  /\ httpCall \in [HttpCalls ->
       [at : {"idle", "limited", "sent", "backoff", "done"},
        origin : HttpOrigins \cup {"none"}, wake : Nat,
        attempt : 0 .. HttpMaxAttempts]]
  /\ httpGrants \in [HttpOrigins -> Seq(Nat)]

-------------------------------------------------------------------------------
(* Faulty variants, see AcpMerchant. *)

HttpRefill_Uncapped(b) ==
  [tokens |-> b.tokens + (httpNow - b.last) * HttpRate, last |-> httpNow]
HttpTokenWait_RoundedDown(b) == (HttpUnit - b.tokens) \div HttpRate

-------------------------------------------------------------------------------
(* The token bucket. *)

HttpLeast(a, b) == IF a < b THEN a ELSE b

HttpBucketOf(o) ==
  IF o \in DOMAIN httpBucket THEN httpBucket[o]
  ELSE [tokens |-> HttpCapacity, last |-> httpNow]

HttpRefill(b) ==
  [tokens |-> HttpLeast(HttpCapacity, b.tokens + (httpNow - b.last) * HttpRate),
   last |-> httpNow]

\* The ticks after which the missing units have accrued, rounded up.
HttpTokenWait(b) == (HttpUnit - b.tokens + HttpRate - 1) \div HttpRate

HttpWithBucket(o, b) ==
  [p \in DOMAIN httpBucket \cup {o} |-> IF p = o THEN b ELSE httpBucket[p]]

HttpTakes(c, o, b) ==
  /\ b.tokens >= HttpUnit
  /\ httpBucket' = HttpWithBucket(o, [b EXCEPT !.tokens = @ - HttpUnit])
  /\ httpGrants' = [httpGrants EXCEPT ![o] = Append(@, httpNow)]
  /\ httpCall' = [httpCall EXCEPT
       ![c] = [@ EXCEPT !.at = "sent", !.origin = o, !.wake = 0, !.attempt = 1]]

HttpSleeps(c, o, b) ==
  /\ b.tokens < HttpUnit
  /\ httpBucket' = HttpWithBucket(o, b)
  /\ httpCall' = [httpCall EXCEPT
       ![c] = [@ EXCEPT !.at = "limited", !.origin = o,
                        !.wake = httpNow + HttpTokenWait(b)]]
  /\ UNCHANGED httpGrants

\* One turn of the loop in take(), up to its sleep.
HttpTake(c, o) ==
  /\ LET b == HttpRefill(HttpBucketOf(o)) IN
       HttpTakes(c, o, b) \/ HttpSleeps(c, o, b)
  /\ UNCHANGED httpNow

HttpAwake(c) == httpCall[c].wake <= httpNow

HttpStart(c) ==
  /\ httpCall[c].at = "idle"
  /\ \E o \in HttpOrigins : HttpTake(c, o)

HttpRetake(c) ==
  /\ httpCall[c].at = "limited" /\ HttpAwake(c)
  /\ HttpTake(c, httpCall[c].origin)

\* An input that is no URL has no bucket.
HttpStartUnlimited(c) ==
  /\ httpCall[c].at = "idle"
  /\ httpCall' = [httpCall EXCEPT ![c] = [@ EXCEPT !.at = "sent", !.attempt = 1]]
  /\ UNCHANGED <<httpNow, httpBucket, httpGrants>>

-------------------------------------------------------------------------------
(* Retries. *)

HttpRetryable(outcome) == outcome \in {"unavailable", "networkError"}

HttpReturns(c, outcome) ==
  /\ httpCall[c].attempt = HttpMaxAttempts \/ ~HttpRetryable(outcome)
  /\ httpCall' = [httpCall EXCEPT ![c] = [HttpIdle EXCEPT !.at = "done"]]
  /\ UNCHANGED <<httpNow, httpBucket, httpGrants>>

\* Exponential backoff, jittered by half of it either way, below the cap.
HttpBackoffs(attempt) ==
  LET capped == HttpLeast(HttpBaseDelay * 2 ^ (attempt - 1), HttpMaxDelay) IN
    {HttpLeast(d, HttpMaxDelay) : d \in (capped \div 2) .. (capped + (capped + 1) \div 2)}

HttpDelays(attempt, outcome) ==
  HttpBackoffs(attempt)
    \cup (IF outcome = "unavailable"
          THEN {HttpLeast(d, HttpMaxDelay) : d \in HttpRetryAfters} ELSE {})

HttpBacksOff(c, outcome) ==
  /\ HttpRetryable(outcome) /\ httpCall[c].attempt < HttpMaxAttempts
  /\ \E d \in HttpDelays(httpCall[c].attempt, outcome) :
       httpCall' = [httpCall EXCEPT
         ![c] = [@ EXCEPT !.at = "backoff", !.wake = httpNow + d]]
  /\ UNCHANGED <<httpNow, httpBucket, httpGrants>>

HttpAnswer(c) ==
  /\ httpCall[c].at = "sent"
  /\ \E outcome \in HttpOutcomes : HttpReturns(c, outcome) \/ HttpBacksOff(c, outcome)

HttpResend(c) ==
  /\ httpCall[c].at = "backoff" /\ HttpAwake(c)
  /\ httpCall' = [httpCall EXCEPT
       ![c] = [@ EXCEPT !.at = "sent", !.wake = 0,
                        !.attempt = httpCall[c].attempt + 1]]
  /\ UNCHANGED <<httpNow, httpBucket, httpGrants>>

\* Time matters only to a call that sleeps.
HttpTick ==
  /\ \E c \in HttpCalls : httpCall[c].at \in {"limited", "backoff"} /\ ~HttpAwake(c)
  /\ httpNow' = httpNow + 1
  /\ UNCHANGED <<httpBucket, httpCall, httpGrants>>

HttpStep(c) ==
  HttpStart(c) \/ HttpRetake(c) \/ HttpStartUnlimited(c) \/ HttpAnswer(c) \/ HttpResend(c)

HttpNext == HttpTick \/ \E c \in HttpCalls : HttpStep(c)

HttpSpec == HttpInit /\ [][HttpNext]_httpVars

-------------------------------------------------------------------------------
(* Properties. *)

\* In no stretch of time do the calls to one origin start more often than the
\* bucket allows: its capacity and what accrues meanwhile, however the calls
\* that sleep for the same token race when it arrives.
RateIsKept ==
  \A o \in HttpOrigins : \A j \in 1 .. Len(httpGrants[o]) : \A i \in 1 .. j :
    (j - i + 1) * HttpUnit
      <= HttpCapacity + HttpRate * (httpGrants[o][j] - httpGrants[o][i])

\* A call that was made returns: a sleeper always gets its token in the end
\* and the retries end.
EveryCallReturns ==
  \A c \in HttpCalls : httpCall[c].at # "idle" ~> httpCall[c].at = "done"
===============================================================================
