----------------------------- MODULE DeliveryProofs -----------------------------
(***************************************************************************)
(* Theorems about what is delivered, for any calls, subscriptions, events  *)
(* and bounds: the HTTP client, the life of an order, the telemetry of a   *)
(* run, and the three side by side.                                        *)
(***************************************************************************)
EXTENDS MCDelivery, FiniteSetTheorems, SequenceTheorems, TLAPS

-------------------------------------------------------------------------------
(* The HTTP client. *)

\* What was taken since the grant at t, with the tokens b has left, is at most the
\* capacity and what accrued up to the last refill of b.
HttpWithinRate(taken, b, t) ==
  /\ t <= b.last
  /\ taken * HttpUnit + b.tokens <= HttpCapacity + HttpRate * (b.last - t)

HttpBuckets == [tokens : 0 .. HttpCapacity, last : Nat]

HttpFair(g, b) ==
  \A i \in 1 .. Len(g) : HttpWithinRate(Len(g) - i + 1, b, g[i])

HttpGrantsKeepRate(g) ==
  \A j \in 1 .. Len(g) : \A i \in 1 .. j :
    (j - i + 1) * HttpUnit <= HttpCapacity + HttpRate * (g[j] - g[i])

HttpAttempts == 0 .. HttpMaxAttempts

HttpCallStates ==
  [at : {"idle", "limited", "sent", "backoff", "done"},
   origin : HttpOrigins \cup {"none"}, wake : Nat, attempt : HttpAttempts]

\* A call that waits for a token knows its bucket, a request is one of the attempts
\* and a call that backs off has an attempt left.
HttpCallOK(s) ==
  /\ s \in HttpCallStates
  /\ s.at = "limited" => s.origin \in HttpOrigins
  /\ s.at \in {"sent", "backoff"} => s.attempt >= 1
  /\ s.at = "backoff" => s.attempt < HttpMaxAttempts

HttpInv ==
  /\ httpNow \in Nat
  /\ DOMAIN httpBucket \subseteq HttpOrigins
  /\ httpGrants \in [HttpOrigins -> Seq(Nat)]
  /\ httpCall \in [HttpCalls -> HttpCallStates]
  /\ \A c \in HttpCalls : HttpCallOK(httpCall[c])
  /\ \A o \in HttpOrigins : HttpGrantsKeepRate(httpGrants[o])
  /\ \A o \in HttpOrigins \ DOMAIN httpBucket : httpGrants[o] = <<>>
  /\ \A o \in DOMAIN httpBucket :
       /\ httpBucket[o] \in HttpBuckets /\ httpBucket[o].last <= httpNow
       /\ HttpFair(httpGrants[o], httpBucket[o])

-------------------------------------------------------------------------------
\* Refilling a bucket keeps it within its rate: what it gains has accrued.
LEMMA HttpRefillIsFair ==
  ASSUME httpNow \in Nat, NEW b \in HttpBuckets, b.last <= httpNow
  PROVE  /\ HttpRefill(b) \in HttpBuckets /\ HttpRefill(b).last = httpNow
         /\ \A taken \in Int, t \in Nat :
              HttpWithinRate(taken, b, t) => HttpWithinRate(taken, HttpRefill(b), t)
<1> DEFINE gain == (httpNow - b.last) * HttpRate
<1>1. /\ b.tokens \in Nat /\ b.tokens <= HttpCapacity /\ b.last \in Nat
      /\ HttpRate \in Nat /\ HttpUnit \in Nat /\ HttpCapacity \in Nat
  BY HttpAssumption DEF HttpBuckets
<1>2. httpNow - b.last \in Nat
  BY <1>1
<1>3. gain \in Nat
  BY <1>1, <1>2
<1>4. /\ HttpRefill(b).last = httpNow
      /\ HttpRefill(b).tokens \in 0 .. HttpCapacity
      /\ HttpRefill(b).tokens <= b.tokens + gain
  BY <1>1, <1>3 DEF HttpRefill, HttpLeast
<1>5. HttpRefill(b) \in HttpBuckets
  BY <1>4 DEF HttpRefill, HttpBuckets
<1>6. ASSUME NEW taken \in Int, NEW t \in Nat, HttpWithinRate(taken, b, t)
      PROVE  HttpWithinRate(taken, HttpRefill(b), t)
  <2>1. HttpRate * (httpNow - t) = HttpRate * (b.last - t) + gain
    BY <1>1
  <2>2. taken * HttpUnit \in Int /\ HttpRate * (b.last - t) \in Int
    BY <1>1
  <2>3. taken * HttpUnit + b.tokens <= HttpCapacity + HttpRate * (b.last - t)
    BY <1>6 DEF HttpWithinRate
  <2>4. taken * HttpUnit + HttpRefill(b).tokens <= HttpCapacity + HttpRate * (httpNow - t)
    BY <1>1, <1>3, <1>4, <2>1, <2>2, <2>3
  <2> QED
    BY <1>1, <1>4, <1>6, <2>4 DEF HttpWithinRate
<1> QED
  BY <1>4, <1>5, <1>6

\* Taking a token from a bucket within its rate leaves it so, the new grant
\* included, and keeps the rate of all grants.
LEMMA HttpGrantIsFair ==
  ASSUME httpNow \in Nat, NEW b \in HttpBuckets, b.last = httpNow,
         b.tokens >= HttpUnit, NEW g \in Seq(Nat),
         HttpFair(g, b), HttpGrantsKeepRate(g)
  PROVE  /\ [b EXCEPT !.tokens = @ - HttpUnit] \in HttpBuckets
         /\ HttpFair(Append(g, httpNow), [b EXCEPT !.tokens = @ - HttpUnit])
         /\ HttpGrantsKeepRate(Append(g, httpNow))
<1> DEFINE a == [b EXCEPT !.tokens = @ - HttpUnit]
           h == Append(g, httpNow)
<1>1. /\ b.tokens \in Nat /\ b.tokens <= HttpCapacity
      /\ HttpRate \in Nat /\ HttpUnit \in Nat /\ HttpCapacity \in Nat
      /\ a.tokens = b.tokens - HttpUnit /\ a.last = httpNow
      /\ a \in HttpBuckets
  BY HttpAssumption DEF HttpBuckets
<1>2. /\ Len(g) \in Nat /\ Len(h) = Len(g) + 1 /\ h[Len(g) + 1] = httpNow
      /\ \A i \in 1 .. Len(g) : h[i] = g[i] /\ g[i] \in Nat
  OBVIOUS
<1> HIDE DEF a, h
<1>3. ASSUME NEW i \in 1 .. Len(g) PROVE HttpWithinRate(Len(h) - i + 1, a, h[i])
  <2>1. (Len(h) - i + 1) * HttpUnit = (Len(g) - i + 1) * HttpUnit + HttpUnit
    BY <1>1, <1>2
  <2>2. HttpWithinRate(Len(g) - i + 1, b, g[i])
    BY DEF HttpFair
  <2>3. /\ (Len(g) - i + 1) * HttpUnit \in Int /\ HttpRate * (httpNow - g[i]) \in Int
    BY <1>1, <1>2
  <2>4. /\ g[i] <= httpNow
        /\ (Len(g) - i + 1) * HttpUnit + b.tokens
             <= HttpCapacity + HttpRate * (httpNow - g[i])
    BY <2>2 DEF HttpWithinRate
  <2>5. (Len(h) - i + 1) * HttpUnit + a.tokens = (Len(g) - i + 1) * HttpUnit + b.tokens
    BY <1>1, <2>1, <2>3
  <2> QED
    BY <1>1, <1>2, <2>4, <2>5 DEF HttpWithinRate
<1>4. HttpWithinRate(1, a, httpNow)
  <2>1. HttpRate * (httpNow - httpNow) = 0 /\ 1 * HttpUnit = HttpUnit
    BY <1>1
  <2> QED
    BY <1>1, <2>1 DEF HttpWithinRate
<1>5. HttpFair(h, a)
  <2> SUFFICES ASSUME NEW i \in 1 .. Len(h) PROVE HttpWithinRate(Len(h) - i + 1, a, h[i])
    BY DEF HttpFair
  <2>1. CASE i \in 1 .. Len(g)
    BY <1>3, <2>1
  <2>2. CASE i = Len(g) + 1
    <3>1. Len(h) - i + 1 = 1 /\ h[i] = httpNow
      BY <1>2, <2>2
    <3> QED
      BY <1>4, <3>1
  <2> QED
    BY <1>2, <2>1, <2>2
<1>6. ASSUME NEW j \in 1 .. Len(h), NEW i \in 1 .. j
      PROVE  (j - i + 1) * HttpUnit <= HttpCapacity + HttpRate * (h[j] - h[i])
  <2>1. CASE j \in 1 .. Len(g)
    <3>1. i \in 1 .. Len(g) /\ h[i] = g[i] /\ h[j] = g[j]
      BY <1>2, <2>1
    <3> QED
      BY <2>1, <3>1 DEF HttpGrantsKeepRate
  <2>2. CASE j = Len(h)
    <3>1. HttpWithinRate(Len(h) - i + 1, a, h[i])
      BY <1>2, <1>5, <2>2 DEF HttpFair
    <3>2. a.tokens >= 0 /\ a.tokens \in Int /\ h[j] = httpNow /\ h[i] \in Nat
      BY <1>1, <1>2, <2>2
    <3>3. (j - i + 1) * HttpUnit \in Int /\ HttpRate * (httpNow - h[i]) \in Int
      BY <1>1, <1>2, <3>2
    <3>4. PICK spent \in Int, accrued \in Int :
            spent = (j - i + 1) * HttpUnit /\ accrued = HttpRate * (httpNow - h[i])
      BY <3>3
    <3>5. Len(h) - i + 1 = j - i + 1 /\ h[j] - h[i] = httpNow - h[i]
      BY <2>2, <3>2
    <3>6. spent + a.tokens <= HttpCapacity + accrued
      BY <1>1, <3>1, <3>4, <3>5 DEF HttpWithinRate
    <3>7. spent <= HttpCapacity + accrued
      BY <1>1, <3>2, <3>6
    <3> QED
      BY <3>4, <3>5, <3>7
  <2> QED
    BY <1>2, <2>1, <2>2
<1>7. HttpGrantsKeepRate(h)
  BY <1>6 DEF HttpGrantsKeepRate
<1> QED
  BY <1>1, <1>5, <1>7 DEF a, h

-------------------------------------------------------------------------------
\* Without buckets and grants the invariant holds.
LEMMA HttpInvInit == HttpInit => HttpInv
<1> SUFFICES ASSUME HttpInit PROVE HttpInv
  OBVIOUS
<1>1. httpNow \in Nat /\ DOMAIN httpBucket = {}
  BY DEF HttpInit
<1>2. httpGrants \in [HttpOrigins -> Seq(Nat)] /\ \A o \in HttpOrigins : httpGrants[o] = <<>>
  BY DEF HttpInit
<1>3. HttpIdle \in HttpCallStates /\ HttpCallOK(HttpIdle)
  BY HttpAssumption DEF HttpIdle, HttpCallStates, HttpCallOK, HttpAttempts
<1>4. \A o \in HttpOrigins : HttpGrantsKeepRate(httpGrants[o])
  BY <1>2 DEF HttpGrantsKeepRate
<1> QED
  BY <1>1, <1>2, <1>3, <1>4 DEF HttpInit, HttpInv

\* Quotients of natural numbers are natural numbers.
LEMMA QuotientIsNat ==
  ASSUME NEW n \in Nat, NEW m \in Nat, m > 0
  PROVE  n \div m \in Nat
OBVIOUS

\* A bucket that lacks a token is waited for, never with a negative delay.
LEMMA HttpWaitIsNat ==
  ASSUME NEW b \in HttpBuckets, b.tokens < HttpUnit
  PROVE  HttpTokenWait(b) \in Nat
<1>1. HttpUnit - b.tokens + HttpRate - 1 \in Nat
  BY HttpAssumption DEF HttpBuckets
<1>2. HttpRate \in Nat /\ HttpRate > 0
  BY HttpAssumption
<1> QED
  BY <1>1, <1>2, QuotientIsNat DEF HttpTokenWait

\* take(), up to its return or its sleep.
LEMMA HttpTakeKeepsInv ==
  ASSUME HttpInv, NEW c \in HttpCalls, NEW o \in HttpOrigins, HttpTake(c, o)
  PROVE  HttpInv'
<1> USE DEF HttpInv
<1> DEFINE old == HttpBucketOf(o)
           b == HttpRefill(old)
<1>1. /\ httpNow \in Nat /\ httpNow' = httpNow
      /\ HttpTakes(c, o, b) \/ HttpSleeps(c, o, b)
  BY DEF HttpTake
<1>2. old \in HttpBuckets /\ old.last <= httpNow /\ HttpFair(httpGrants[o], old)
  <2>1. CASE o \in DOMAIN httpBucket
    BY <2>1 DEF HttpBucketOf
  <2>2. CASE o \notin DOMAIN httpBucket
    BY <2>2, HttpAssumption DEF HttpBucketOf, HttpBuckets, HttpFair
  <2> QED
    BY <2>1, <2>2
<1>3. /\ b \in HttpBuckets /\ b.last = httpNow
      /\ \A taken \in Int, t \in Nat :
           HttpWithinRate(taken, old, t) => HttpWithinRate(taken, b, t)
  BY <1>1, <1>2, HttpRefillIsFair
<1>4. httpGrants[o] \in Seq(Nat) /\ HttpFair(httpGrants[o], b)
  <2>1. httpGrants[o] \in Seq(Nat)
    OBVIOUS
  <2> SUFFICES ASSUME NEW i \in 1 .. Len(httpGrants[o])
               PROVE  HttpWithinRate(Len(httpGrants[o]) - i + 1, b, httpGrants[o][i])
    BY <2>1 DEF HttpFair
  <2>2. Len(httpGrants[o]) - i + 1 \in Int /\ httpGrants[o][i] \in Nat
    BY <2>1
  <2>3. HttpWithinRate(Len(httpGrants[o]) - i + 1, old, httpGrants[o][i])
    BY <1>2 DEF HttpFair
  <2> QED
    BY <1>3, <2>2, <2>3
<1>5. b.tokens < HttpUnit => HttpTokenWait(b) \in Nat
  BY <1>3, HttpWaitIsNat
<1>6. PICK a, g :
        /\ a \in HttpBuckets /\ a.last = httpNow /\ g \in Seq(Nat)
        /\ HttpFair(g, a) /\ HttpGrantsKeepRate(g)
        /\ httpBucket' = HttpWithBucket(o, a)
        /\ httpGrants' = [httpGrants EXCEPT ![o] = g]
  <2>1. CASE HttpTakes(c, o, b)
    <3>1. b.tokens >= HttpUnit
      BY <2>1 DEF HttpTakes
    <3>2. /\ [b EXCEPT !.tokens = @ - HttpUnit] \in HttpBuckets
          /\ HttpFair(Append(httpGrants[o], httpNow), [b EXCEPT !.tokens = @ - HttpUnit])
          /\ HttpGrantsKeepRate(Append(httpGrants[o], httpNow))
      BY <1>1, <1>3, <1>4, <3>1, HttpGrantIsFair
    <3>3. [b EXCEPT !.tokens = @ - HttpUnit].last = httpNow
      BY <1>3 DEF HttpBuckets
    <3>4. Append(httpGrants[o], httpNow) \in Seq(Nat)
      BY <1>1, <1>4
    <3> QED
      BY <2>1, <3>2, <3>3, <3>4 DEF HttpTakes
  <2>2. CASE HttpSleeps(c, o, b)
    <3>1. httpGrants' = [httpGrants EXCEPT ![o] = httpGrants[o]]
      BY <2>2 DEF HttpSleeps
    <3> QED
      BY <1>3, <1>4, <2>2, <3>1 DEF HttpSleeps
  <2> QED
    BY <1>1, <2>1, <2>2
<1>7. /\ DOMAIN httpBucket' = DOMAIN httpBucket \cup {o}
      /\ httpBucket'[o] = a
      /\ \A p \in DOMAIN httpBucket \ {o} : httpBucket'[p] = httpBucket[p]
  BY <1>6 DEF HttpWithBucket
<1>8. /\ httpGrants' \in [HttpOrigins -> Seq(Nat)] /\ httpGrants'[o] = g
      /\ \A p \in HttpOrigins \ {o} : httpGrants'[p] = httpGrants[p]
  BY <1>6
<1>9. /\ httpCall' \in [HttpCalls -> HttpCallStates]
      /\ \A d \in HttpCalls : HttpCallOK(httpCall'[d])
  <2>1. CASE HttpTakes(c, o, b)
    <3>0. PICK zero \in Nat, one \in HttpAttempts : zero = 0 /\ one = 1
      BY HttpAssumption DEF HttpAttempts
    <3> DEFINE s == [httpCall[c] EXCEPT !.at = "sent", !.origin = o, !.wake = zero,
                                        !.attempt = one]
    <3>1. httpCall[c] \in HttpCallStates
      OBVIOUS
    <3>2. httpCall' = [httpCall EXCEPT ![c] = s]
      BY <2>1, <3>0 DEF HttpTakes
    <3>3. s \in HttpCallStates /\ s.at = "sent" /\ s.attempt = one
      BY <3>1 DEF HttpCallStates
    <3>4. HttpCallOK(s)
      BY <3>0, <3>3 DEF HttpCallOK
    <3> HIDE DEF s
    <3> QED
      BY <3>2, <3>3, <3>4
  <2>2. CASE HttpSleeps(c, o, b)
    <3>1. httpNow + HttpTokenWait(b) \in Nat
      BY <1>1, <1>5, <2>2 DEF HttpSleeps
    <3> DEFINE s == [httpCall[c] EXCEPT !.at = "limited", !.origin = o,
                                        !.wake = httpNow + HttpTokenWait(b)]
    <3>0. httpCall[c] \in HttpCallStates
      OBVIOUS
    <3>2. s \in HttpCallStates /\ HttpCallOK(s)
      BY <3>0, <3>1 DEF HttpCallStates, HttpCallOK
    <3>3. httpCall' = [httpCall EXCEPT ![c] = s]
      BY <2>2 DEF HttpSleeps
    <3> HIDE DEF s
    <3> QED
      BY <3>2, <3>3
  <2> QED
    BY <1>1, <2>1, <2>2
<1> QED
  BY <1>1, <1>6, <1>7, <1>8, <1>9

\* A power of two is a natural number: it counts the subsets of a set.
LEMMA PowersOfTwo == ASSUME NEW n \in Nat PROVE 2 ^ n \in Nat
<1>1. IsFiniteSet(1 .. n) /\ Cardinality(1 .. n) = n
  BY FS_Interval
<1>2. IsFiniteSet(SUBSET (1 .. n)) /\ Cardinality(SUBSET (1 .. n)) = 2 ^ n
  BY <1>1, FS_SUBSET
<1> QED
  BY <1>2, FS_CardinalityType

\* A delay is a number of ticks, never negative.
LEMMA HttpDelaysAreNats ==
  ASSUME NEW attempt \in Nat, attempt >= 1,
         NEW outcome, NEW d \in HttpDelays(attempt, outcome)
  PROVE  d \in Nat
<1>1. \A e \in Nat : HttpLeast(e, HttpMaxDelay) \in Nat
  BY HttpAssumption DEF HttpLeast
<1>2. \A i \in HttpBackoffs(attempt) : i \in Nat
  <2>1. attempt - 1 \in Nat
    OBVIOUS
  <2>2. HttpBaseDelay * 2 ^ (attempt - 1) \in Nat
    BY <2>1, PowersOfTwo, HttpAssumption
  <2> DEFINE capped == HttpLeast(HttpBaseDelay * 2 ^ (attempt - 1), HttpMaxDelay)
  <2>3. capped \in Nat
    BY <1>1, <2>2
  <2>4. HttpBackoffs(attempt) = {HttpLeast(e, HttpMaxDelay) :
          e \in (capped \div 2) .. (capped + (capped + 1) \div 2)}
    BY DEF HttpBackoffs
  <2> HIDE DEF capped
  <2>5. \A e \in (capped \div 2) .. (capped + (capped + 1) \div 2) : e \in Nat
    BY <2>3
  <2> QED
    BY <1>1, <2>4, <2>5
<1>3. \A i \in HttpRetryAfters : HttpLeast(i, HttpMaxDelay) \in Nat
  BY <1>1, HttpAssumption
<1> QED
  BY <1>2, <1>3 DEF HttpDelays

\* Retries take no tokens.
LEMMA HttpRetryKeepsInv ==
  ASSUME HttpInv, NEW c \in HttpCalls,
         HttpStartUnlimited(c) \/ HttpAnswer(c) \/ HttpResend(c)
  PROVE  HttpInv'
<1> USE DEF HttpInv
<1>1. UNCHANGED <<httpNow, httpBucket, httpGrants>>
  BY DEF HttpStartUnlimited, HttpAnswer, HttpResend, HttpReturns, HttpBacksOff
<1>2. PICK s \in HttpCallStates :
        /\ httpCall' = [httpCall EXCEPT ![c] = s]
        /\ HttpCallOK(s)
  <2>1. CASE HttpStartUnlimited(c)
    <3>0. PICK one \in HttpAttempts : one = 1 /\ one >= 1
      BY HttpAssumption DEF HttpAttempts
    <3>1. httpCall[c] \in HttpCallStates
      OBVIOUS
    <3> DEFINE s == [httpCall[c] EXCEPT !.at = "sent", !.attempt = one]
    <3>2. httpCall' = [httpCall EXCEPT ![c] = s]
      BY <2>1, <3>0 DEF HttpStartUnlimited
    <3>3. s \in HttpCallStates /\ s.at = "sent" /\ s.attempt = one
      BY <3>1 DEF HttpCallStates
    <3> HIDE DEF s
    <3> QED
      BY <3>0, <3>2, <3>3 DEF HttpCallOK
  <2>2. CASE HttpResend(c)
    <3>0. /\ httpCall[c] \in HttpCallStates /\ HttpCallOK(httpCall[c])
          /\ httpCall[c].at = "backoff"
      BY <2>2 DEF HttpResend
    <3>1. httpCall[c].attempt + 1 \in 1 .. HttpMaxAttempts
      BY <3>0, HttpAssumption DEF HttpCallStates, HttpCallOK, HttpAttempts
    <3>2. PICK zero \in Nat, n \in HttpAttempts :
            zero = 0 /\ n = httpCall[c].attempt + 1 /\ n >= 1
      <4>1. PICK n : n = httpCall[c].attempt + 1
        OBVIOUS
      <4>2. n \in 1 .. HttpMaxAttempts
        BY <3>1, <4>1
      <4>3. n \in HttpAttempts /\ n >= 1
        BY <4>2, HttpAssumption DEF HttpAttempts
      <4>4. PICK zero \in Nat : zero = 0
        OBVIOUS
      <4> QED
        BY <4>1, <4>3, <4>4
    <3> DEFINE s == [httpCall[c] EXCEPT !.at = "sent", !.wake = zero, !.attempt = n]
    <3>3. httpCall' = [httpCall EXCEPT ![c] = s]
      BY <2>2, <3>2 DEF HttpResend
    <3>4. s \in HttpCallStates /\ s.at = "sent" /\ s.attempt = n
      BY <3>0 DEF HttpCallStates
    <3> HIDE DEF s
    <3> QED
      BY <3>2, <3>3, <3>4 DEF HttpCallOK
  <2>3. CASE HttpAnswer(c)
    <3>1. PICK outcome \in HttpOutcomes : HttpReturns(c, outcome) \/ HttpBacksOff(c, outcome)
      BY <2>3 DEF HttpAnswer
    <3>2. CASE HttpReturns(c, outcome)
      <4>1. /\ [HttpIdle EXCEPT !.at = "done"] \in HttpCallStates
            /\ HttpCallOK([HttpIdle EXCEPT !.at = "done"])
        BY HttpAssumption DEF HttpIdle, HttpCallStates, HttpCallOK, HttpAttempts
      <4> QED
        BY <3>2, <4>1 DEF HttpReturns
    <3>3. CASE HttpBacksOff(c, outcome)
      <4>1. PICK d \in HttpDelays(httpCall[c].attempt, outcome) :
              httpCall' = [httpCall EXCEPT
                ![c] = [@ EXCEPT !.at = "backoff", !.wake = httpNow + d]]
        BY <3>3 DEF HttpBacksOff
      <4>2. /\ httpCall[c] \in HttpCallStates /\ HttpCallOK(httpCall[c])
            /\ httpCall[c].at = "sent" /\ httpCall[c].attempt < HttpMaxAttempts
        BY <2>3, <3>3 DEF HttpAnswer, HttpBacksOff
      <4>3. httpCall[c].attempt \in Nat /\ httpCall[c].attempt >= 1
        BY <4>2, HttpAssumption DEF HttpCallStates, HttpCallOK, HttpAttempts
      <4>4. httpNow + d \in Nat
        BY <4>3, HttpDelaysAreNats
      <4> DEFINE s == [httpCall[c] EXCEPT !.at = "backoff", !.wake = httpNow + d]
      <4>5. /\ s \in HttpCallStates /\ s.at = "backoff"
            /\ s.attempt = httpCall[c].attempt
        BY <4>2, <4>4 DEF HttpCallStates
      <4>6. httpCall' = [httpCall EXCEPT ![c] = s]
        BY <4>1
      <4> HIDE DEF s
      <4> QED
        BY <4>2, <4>3, <4>5, <4>6 DEF HttpCallOK
    <3> QED
      BY <3>1, <3>2, <3>3
  <2> QED
    BY <2>1, <2>2, <2>3
<1>3. /\ httpCall' \in [HttpCalls -> HttpCallStates]
      /\ \A d \in HttpCalls : HttpCallOK(httpCall'[d])
  BY <1>2
<1> QED
  BY <1>1, <1>3

\* Every step of a call and every tick keeps the invariant.
LEMMA HttpInvNext == HttpInv /\ [HttpNext]_httpVars => HttpInv'
<1> SUFFICES ASSUME HttpInv, [HttpNext]_httpVars PROVE HttpInv'
  OBVIOUS
<1>1. CASE HttpTick
  BY <1>1 DEF HttpTick, HttpInv, HttpBuckets
<1>2. ASSUME NEW c \in HttpCalls, HttpStep(c) PROVE HttpInv'
  <2>1. CASE HttpStart(c)
    BY <2>1, HttpTakeKeepsInv DEF HttpStart
  <2>2. CASE HttpRetake(c)
    BY <2>2, HttpTakeKeepsInv DEF HttpRetake, HttpInv, HttpCallOK
  <2> QED
    BY <1>2, <2>1, <2>2, HttpRetryKeepsInv DEF HttpStep
<1>3. CASE UNCHANGED httpVars
  BY <1>3 DEF httpVars, HttpInv
<1> QED
  BY <1>1, <1>2, <1>3 DEF HttpNext

\* In no stretch of time do calls to an origin start more often than its bucket
\* allows, for any rate, capacity and number of calls that race for its tokens.
THEOREM HttpRateIsKept == HttpSpec => []RateIsKept
<1>1. HttpInv => RateIsKept
  BY DEF HttpInv, RateIsKept, HttpGrantsKeepRate
<1> QED
  BY <1>1, HttpInvInit, HttpInvNext, PTL DEF HttpSpec

\* What the HTTP client keeps has its type: no call makes more attempts than it may,
\* no wait is negative and no bucket holds more than its capacity or was filled in
\* the future.
THEOREM HttpTypeCorrect == HttpSpec => []HttpTypeOK
<1>1. HttpInv => HttpTypeOK
  BY DEF HttpInv, HttpTypeOK, HttpBuckets, HttpCallStates, HttpAttempts
<1> QED
  BY <1>1, HttpInvInit, HttpInvNext, PTL DEF HttpSpec

-------------------------------------------------------------------------------
(* The telemetry of a run. *)

CloudRequests ==
  [kind : {"run_start", "rows", "run_end"}, events : SUBSET CloudEvents,
   at : {"sent", "looking", "known"}, since : 0 .. CloudMaxTime, drain : BOOLEAN]

CloudRunStates == {"new", "started", "draining", "ending", "closed"}

\* Every event was emitted, and is in one place only.
CloudEventsInv ==
  /\ cloudEmitted \in 0 .. CloudMaxEvents
  /\ cloudBuffer \in [CloudChannels -> SUBSET (1 .. cloudEmitted)]
  /\ cloudRows \subseteq 1 .. cloudEmitted
  /\ \A m \in cloudNet : m.events \subseteq 1 .. cloudEmitted
  /\ \A x : \A c, d \in CloudChannels : x \in cloudBuffer[c] /\ x \in cloudBuffer[d] => c = d
  /\ \A x : \A m, n \in cloudNet : x \in m.events /\ x \in n.events => m = n
  /\ \A x : \A c \in CloudChannels : x \in cloudBuffer[c] => x \notin cloudRows
  /\ \A x : \A c \in CloudChannels, m \in cloudNet :
       x \in cloudBuffer[c] => x \notin m.events
  /\ \A x : \A m \in cloudNet : x \in m.events => x \notin cloudRows

\* What a lookup may put in the cache it found before the key was revoked.
CloudKeyInv ==
  /\ cloudNow \in 1 .. CloudMaxTime /\ cloudRevokedAt \in 0 .. cloudNow
  /\ cloudKey \in Nat /\ cloudKey <= cloudNow + CloudKeyTtl
  /\ \A m \in cloudNet : m.since <= cloudNow
  /\ RevokedKeyExpires
  /\ cloudRevokedAt # 0 =>
       \A m \in cloudNet : m.at = "known" => m.since <= cloudRevokedAt

CloudInv ==
  /\ cloudNet \subseteq CloudRequests
  /\ cloudRunState \in CloudRunStates
  /\ cloudTable \in {"none", "in_progress", "ended"}
  /\ CloudEventsInv /\ CloudKeyInv

\* The invariant implies the type invariant and that events are sent once.
LEMMA CloudInvImplies == CloudInv => CloudTypeOK /\ EventsAreSentOnce /\ RevokedKeyExpires
<1> SUFFICES ASSUME CloudInv PROVE CloudTypeOK /\ EventsAreSentOnce /\ RevokedKeyExpires
  OBVIOUS
<1>1. /\ CloudEventsInv /\ CloudKeyInv /\ RevokedKeyExpires
      /\ CloudMaxEvents \in Nat /\ CloudMaxTime \in Nat /\ CloudKeyTtl \in Nat
  BY CloudAssumption DEF CloudInv, CloudKeyInv
<1>2. 1 .. cloudEmitted \subseteq CloudEvents
  BY <1>1 DEF CloudEventsInv, CloudEvents
<1>3. /\ cloudBuffer \in [CloudChannels -> SUBSET CloudEvents]
      /\ cloudRows \subseteq CloudEvents /\ cloudEmitted \in 0 .. CloudMaxEvents
  BY <1>1, <1>2 DEF CloudEventsInv
<1>4. /\ cloudKey \in 0 .. (CloudMaxTime + CloudKeyTtl)
      /\ cloudRevokedAt \in 0 .. CloudMaxTime /\ cloudNow \in 1 .. CloudMaxTime
  BY <1>1 DEF CloudKeyInv
<1>5. CloudTypeOK
  BY <1>3, <1>4 DEF CloudInv, CloudTypeOK, CloudRequests, CloudRunStates
<1>6. \A x : x \in CloudInFlight <=> \E m \in cloudNet : x \in m.events
  BY DEF CloudInFlight
<1>7. EventsAreSentOnce
  <2>1. \A m1, m2 \in cloudNet : m1 # m2 => m1.events \cap m2.events = {}
    BY <1>1 DEF CloudEventsInv
  <2>2. \A ch \in CloudChannels :
          cloudBuffer[ch] \cap (CloudInFlight \cup cloudRows) = {}
    <3> SUFFICES ASSUME NEW ch \in CloudChannels, NEW x \in cloudBuffer[ch]
                 PROVE  x \notin CloudInFlight /\ x \notin cloudRows
      OBVIOUS
    <3>1. \A m \in cloudNet : x \notin m.events
      BY <1>1 DEF CloudEventsInv
    <3>2. x \notin cloudRows
      BY <1>1 DEF CloudEventsInv
    <3> QED
      BY <1>6, <3>1, <3>2
  <2>3. CloudInFlight \cap cloudRows = {}
    BY <1>1, <1>6 DEF CloudEventsInv
  <2> QED
    BY <2>1, <2>2, <2>3 DEF EventsAreSentOnce
<1> QED
  BY <1>1, <1>5, <1>7

\* Before anything is sent the invariant holds.
LEMMA CloudInvInit == CloudInit => CloudInv
<1> SUFFICES ASSUME CloudInit PROVE CloudInv
  OBVIOUS
<1> USE DEF CloudInit
<1>1. CloudMaxEvents \in Nat /\ CloudMaxTime \in Nat \ {0} /\ CloudKeyTtl \in Nat
  BY CloudAssumption
<1>2. 0 \in 0 .. CloudMaxEvents /\ 1 \in 1 .. CloudMaxTime /\ 0 \in 0 .. 1
  BY <1>1
<1>3. cloudBuffer \in [CloudChannels -> SUBSET (1 .. cloudEmitted)]
  OBVIOUS
<1>4. CloudEventsInv
  BY <1>2, <1>3 DEF CloudEventsInv
<1>5. CloudKeyInv
  BY <1>1, <1>2 DEF CloudKeyInv, RevokedKeyExpires
<1> QED
  BY <1>4, <1>5 DEF CloudInv, CloudRunStates

\* A batch is what was in one of the buffers.
LEMMA CloudBatchFacts ==
  ASSUME NEW buffer \in [CloudChannels -> SUBSET CloudEvents],
         NEW chs \in SUBSET CloudChannels, NEW drain \in BOOLEAN
  PROVE  \A q \in CloudBatches(buffer, chs, drain) :
           /\ q \in CloudRequests /\ q.at = "sent" /\ q.since = 0
           /\ \E c \in chs : q = CloudRequest("rows", buffer[c], drain)
                             /\ q.events = buffer[c]
<1> SUFFICES ASSUME NEW q \in CloudBatches(buffer, chs, drain)
             PROVE  /\ q \in CloudRequests /\ q.at = "sent" /\ q.since = 0
                    /\ \E c \in chs : q = CloudRequest("rows", buffer[c], drain)
                                      /\ q.events = buffer[c]
  OBVIOUS
<1>1. PICK c \in chs : q = CloudRequest("rows", buffer[c], drain)
  BY DEF CloudBatches
<1>2. 0 \in 0 .. CloudMaxTime
  BY CloudAssumption
<1>3. buffer[c] \in SUBSET CloudEvents
  OBVIOUS
<1>4. q \in CloudRequests
  BY <1>1, <1>2, <1>3 DEF CloudRequest, CloudRequests
<1> QED
  BY <1>1, <1>4 DEF CloudRequest

\* Whatever buffers are spliced out, full ones or all, keeps the invariant.
LEMMA CloudFlushKeepsInv ==
  ASSUME CloudInv,
         NEW n \in 0 .. CloudMaxEvents, n >= cloudEmitted,
         NEW buffer \in [CloudChannels -> SUBSET (1 .. n)],
         \A x : \A c, d \in CloudChannels : x \in buffer[c] /\ x \in buffer[d] => c = d,
         \A x : \A c \in CloudChannels, m \in cloudNet :
           x \in buffer[c] => x \notin m.events,
         \A x : \A c \in CloudChannels : x \in buffer[c] => x \notin cloudRows,
         NEW chs \in SUBSET CloudChannels, NEW drain \in BOOLEAN,
         cloudEmitted' = n, cloudRunState' \in CloudRunStates,
         cloudNet' = cloudNet \cup CloudBatches(buffer, chs, drain),
         cloudBuffer' = [c \in CloudChannels |-> IF c \in chs THEN {} ELSE buffer[c]],
         UNCHANGED CloudServer
  PROVE  CloudInv'
<1> DEFINE new == CloudBatches(buffer, chs, drain)
<1>1. /\ CloudEventsInv /\ CloudKeyInv /\ cloudNet \subseteq CloudRequests
      /\ cloudEmitted \in Nat /\ n \in Nat
      /\ UNCHANGED <<cloudTable, cloudRows, cloudKey, cloudRevokedAt, cloudNow>>
  BY CloudAssumption DEF CloudInv, CloudServer, CloudEventsInv
<1>2. 1 .. n \subseteq CloudEvents /\ 1 .. cloudEmitted \subseteq 1 .. n
  BY <1>1, CloudAssumption DEF CloudEvents
<1>3. \A q \in new :
        /\ q \in CloudRequests /\ q.at = "sent" /\ q.since = 0
        /\ \E c \in chs : q = CloudRequest("rows", buffer[c], drain)
                          /\ q.events = buffer[c]
  <2>1. buffer \in [CloudChannels -> SUBSET CloudEvents]
    BY <1>2
  <2> QED
    BY <2>1, CloudBatchFacts
<1>4. cloudNet' = cloudNet \cup new
  OBVIOUS
<1> HIDE DEF new
<1>5. \A x : \A c \in CloudChannels : x \in cloudBuffer'[c] => x \in buffer[c] /\ c \notin chs
  OBVIOUS
<1>6. cloudBuffer' \in [CloudChannels -> SUBSET (1 .. cloudEmitted')]
  OBVIOUS
<1>7. \A m \in cloudNet' : m.events \subseteq 1 .. cloudEmitted'
  <2>1. \A m \in cloudNet : m.events \subseteq 1 .. n
    BY <1>1, <1>2 DEF CloudEventsInv
  <2>2. \A q \in new : q.events \subseteq 1 .. n
    BY <1>3
  <2> QED
    BY <1>4, <2>1, <2>2
<1>8. \A x : \A m, k \in cloudNet' : x \in m.events /\ x \in k.events => m = k
  <2> SUFFICES ASSUME NEW x, NEW m \in cloudNet', NEW k \in cloudNet',
                      x \in m.events, x \in k.events
               PROVE  m = k
    OBVIOUS
  <2>1. CASE m \in cloudNet /\ k \in cloudNet
    BY <1>1, <2>1 DEF CloudEventsInv
  <2>2. \A q \in new, p \in cloudNet : ~(x \in q.events /\ x \in p.events)
    BY <1>3
  <2>3. CASE m \in new /\ k \in new
    <3>1. PICK c \in chs : m = CloudRequest("rows", buffer[c], drain) /\ m.events = buffer[c]
      BY <1>3, <2>3
    <3>2. PICK d \in chs : k = CloudRequest("rows", buffer[d], drain) /\ k.events = buffer[d]
      BY <1>3, <2>3
    <3>3. c = d
      BY <3>1, <3>2
    <3> QED
      BY <3>1, <3>2, <3>3
  <2> QED
    BY <1>4, <2>1, <2>2, <2>3
<1>9. \A x : \A c \in CloudChannels, m \in cloudNet' :
        x \in cloudBuffer'[c] => x \notin m.events
  <2> SUFFICES ASSUME NEW x, NEW c \in CloudChannels, NEW m \in cloudNet',
                      x \in cloudBuffer'[c]
               PROVE  x \notin m.events
    OBVIOUS
  <2>1. x \in buffer[c] /\ c \notin chs
    BY <1>5
  <2>2. CASE m \in cloudNet
    BY <1>1, <2>1, <2>2
  <2>3. CASE m \in new
    BY <1>1, <1>3, <2>1, <2>3
  <2> QED
    BY <1>4, <2>2, <2>3
<1>10. \A x : \A m \in cloudNet' : x \in m.events => x \notin cloudRows'
  <2>1. \A x : \A m \in cloudNet : x \in m.events => x \notin cloudRows
    BY <1>1 DEF CloudEventsInv
  <2>2. \A x : \A q \in new : x \in q.events => x \notin cloudRows
    BY <1>3
  <2> QED
    BY <1>1, <1>4, <2>1, <2>2
<1>11. cloudRows' \subseteq 1 .. cloudEmitted'
  BY <1>1, <1>2 DEF CloudEventsInv
<1>12. \A x : \A c, d \in CloudChannels :
         x \in cloudBuffer'[c] /\ x \in cloudBuffer'[d] => c = d
  BY <1>5
<1>13. \A x : \A c \in CloudChannels : x \in cloudBuffer'[c] => x \notin cloudRows'
  BY <1>1, <1>5
<1>14. CloudEventsInv'
  BY <1>6, <1>7, <1>8, <1>9, <1>10, <1>11, <1>12, <1>13 DEF CloudEventsInv
<1>15. CloudKeyInv'
  <2>1. \A q \in new : q.since <= cloudNow /\ q.at # "known"
    BY <1>1, <1>3, CloudAssumption DEF CloudKeyInv
  <2> QED
    BY <1>1, <1>4, <2>1 DEF CloudKeyInv, RevokedKeyExpires
<1> QED
  BY <1>1, <1>3, <1>4, <1>14, <1>15 DEF CloudInv

\* Sending a request without events, and neither, keeps the invariant.
LEMMA CloudPostKeepsInv ==
  ASSUME CloudInv, NEW q, q \in CloudRequests, q.events = {}, q.at = "sent", q.since = 0,
         cloudRunState' \in CloudRunStates,
         cloudNet' = cloudNet \cup {q},
         UNCHANGED <<cloudBuffer, cloudEmitted, CloudServer>>
  PROVE  CloudInv'
<1>1. /\ CloudEventsInv /\ CloudKeyInv /\ cloudNet \subseteq CloudRequests
      /\ UNCHANGED <<cloudBuffer, cloudEmitted>>
      /\ UNCHANGED <<cloudTable, cloudRows, cloudKey, cloudRevokedAt, cloudNow>>
  BY DEF CloudInv, CloudServer
<1>2. CloudEventsInv'
  BY <1>1 DEF CloudEventsInv
<1>3. CloudKeyInv'
  <2>1. q.since <= cloudNow /\ q.at # "known"
    BY <1>1, CloudAssumption DEF CloudKeyInv
  <2> QED
    BY <1>1, <2>1 DEF CloudKeyInv, RevokedKeyExpires
<1> QED
  BY <1>1, <1>2, <1>3 DEF CloudInv

\* What the handle of the run does keeps the invariant.
LEMMA CloudHandleKeepsInv ==
  ASSUME CloudInv,
         \/ CloudRunStart \/ CloudFlush \/ CloudComplete \/ CloudRunEnd \/ CloudCompleted
         \/ \E ch \in CloudChannels : CloudEmit(ch)
  PROVE  CloudInv'
<1>1. /\ CloudEventsInv /\ cloudEmitted \in 0 .. CloudMaxEvents
      /\ cloudBuffer \in [CloudChannels -> SUBSET (1 .. cloudEmitted)]
      /\ CloudMaxEvents \in Nat /\ cloudEmitted \in Nat /\ cloudEmitted >= cloudEmitted
      /\ cloudRunState \in CloudRunStates
  BY CloudAssumption DEF CloudInv, CloudEventsInv
<1>2. \A kind \in {"run_start", "run_end"} :
        /\ CloudRequest(kind, {}, FALSE) \in CloudRequests
        /\ CloudRequest(kind, {}, FALSE).events = {}
        /\ CloudRequest(kind, {}, FALSE).at = "sent"
        /\ CloudRequest(kind, {}, FALSE).since = 0
  <2>1. 0 \in 0 .. CloudMaxTime
    BY CloudAssumption
  <2> QED
    BY <2>1 DEF CloudRequest, CloudRequests
<1>3. /\ \A x : \A c, d \in CloudChannels :
           x \in cloudBuffer[c] /\ x \in cloudBuffer[d] => c = d
      /\ \A x : \A c \in CloudChannels, m \in cloudNet :
           x \in cloudBuffer[c] => x \notin m.events
      /\ \A x : \A c \in CloudChannels : x \in cloudBuffer[c] => x \notin cloudRows
  BY <1>1 DEF CloudEventsInv
<1>4. CASE CloudRunStart
  <2>1. /\ cloudRunState' \in CloudRunStates
        /\ cloudNet' = cloudNet \cup {CloudRequest("run_start", {}, FALSE)}
        /\ UNCHANGED <<cloudBuffer, cloudEmitted, CloudServer>>
    BY <1>4 DEF CloudRunStart, CloudRunStates
  <2> QED
    BY <1>2, <2>1, CloudPostKeepsInv
<1>5. CASE CloudRunEnd
  <2>1. /\ cloudRunState' \in CloudRunStates
        /\ cloudNet' = cloudNet \cup {CloudRequest("run_end", {}, FALSE)}
        /\ UNCHANGED <<cloudBuffer, cloudEmitted, CloudServer>>
    BY <1>5 DEF CloudRunEnd, CloudRunStates
  <2> QED
    BY <1>2, <2>1, CloudPostKeepsInv
<1>6. CASE CloudCompleted
  BY <1>6 DEF CloudCompleted, CloudInv, CloudRunStates, CloudServer, CloudEventsInv,
              CloudKeyInv, RevokedKeyExpires
<1>7. \A drain : CloudFlushed(CloudChannels)
        = [c \in CloudChannels |-> IF c \in CloudChannels THEN {} ELSE cloudBuffer[c]]
  BY DEF CloudFlushed
<1>8. CASE CloudFlush
  <2>1. /\ cloudNet' = cloudNet \cup CloudBatches(cloudBuffer, CloudChannels, FALSE)
        /\ cloudBuffer' = [c \in CloudChannels |->
             IF c \in CloudChannels THEN {} ELSE cloudBuffer[c]]
        /\ cloudEmitted' = cloudEmitted /\ cloudRunState' \in CloudRunStates
        /\ UNCHANGED CloudServer
    BY <1>1, <1>7, <1>8 DEF CloudFlush
  <2> QED
    BY <1>1, <1>3, <2>1, CloudFlushKeepsInv
<1>9. CASE CloudComplete
  <2>1. /\ cloudNet' = cloudNet \cup CloudBatches(cloudBuffer, CloudChannels, TRUE)
        /\ cloudBuffer' = [c \in CloudChannels |->
             IF c \in CloudChannels THEN {} ELSE cloudBuffer[c]]
        /\ cloudEmitted' = cloudEmitted /\ cloudRunState' \in CloudRunStates
        /\ UNCHANGED CloudServer
    BY <1>7, <1>9 DEF CloudComplete, CloudRunStates
  <2> QED
    BY <1>1, <1>3, <2>1, CloudFlushKeepsInv
<1>10. ASSUME NEW ch \in CloudChannels, CloudEmit(ch) PROVE CloudInv'
  <2> DEFINE n == cloudEmitted + 1
             buffer == [cloudBuffer EXCEPT ![ch] = @ \cup {cloudEmitted + 1}]
             full == Cardinality(buffer[ch]) >= CloudBatchSize
             chs == IF full THEN {ch} ELSE {}
  <2>1. /\ cloudEmitted' = n /\ n \in 0 .. CloudMaxEvents /\ n >= cloudEmitted
        /\ cloudRunState' = cloudRunState /\ UNCHANGED CloudServer
    BY <1>1, <1>10 DEF CloudEmit
  <2>2. /\ cloudBuffer' = IF full THEN [buffer EXCEPT ![ch] = {}] ELSE buffer
        /\ cloudNet' = IF full THEN cloudNet \cup CloudBatches(buffer, {ch}, FALSE)
                       ELSE cloudNet
    BY <1>10 DEF CloudEmit
  <2>3. buffer \in [CloudChannels -> SUBSET (1 .. n)]
    BY <1>1
  <2>4. \A x : \A c \in CloudChannels :
          x \in buffer[c] => x \in cloudBuffer[c] \/ (c = ch /\ x = n)
    BY <1>1
  <2>5. /\ \A c \in CloudChannels : n \notin cloudBuffer[c]
        /\ \A m \in cloudNet : n \notin m.events
        /\ n \notin cloudRows
    <3>1. n \notin 1 .. cloudEmitted
      BY <1>1
    <3> QED
      BY <1>1, <3>1 DEF CloudEventsInv
  <2> HIDE DEF n, buffer
  <2>6. /\ \A x : \A c, d \in CloudChannels : x \in buffer[c] /\ x \in buffer[d] => c = d
        /\ \A x : \A c \in CloudChannels, m \in cloudNet :
             x \in buffer[c] => x \notin m.events
        /\ \A x : \A c \in CloudChannels : x \in buffer[c] => x \notin cloudRows
    BY <1>3, <2>4, <2>5
  <2>7. /\ cloudNet' = cloudNet \cup CloudBatches(buffer, chs, FALSE)
        /\ cloudBuffer' = [c \in CloudChannels |-> IF c \in chs THEN {} ELSE buffer[c]]
    <3>1. CASE full
      BY <2>2, <2>3, <3>1
    <3>2. CASE ~full
      <4>1. CloudBatches(buffer, {}, FALSE) = {}
        BY DEF CloudBatches
      <4>2. chs = {} /\ cloudNet' = cloudNet /\ cloudBuffer' = buffer
        BY <2>2, <3>2
      <4> QED
        BY <2>3, <4>1, <4>2
    <3> QED
      BY <3>1, <3>2
  <2>8. chs \in SUBSET CloudChannels
    OBVIOUS
  <2> HIDE DEF chs
  <2> QED
    BY <1>1, <2>1, <2>3, <2>6, <2>7, <2>8, CloudFlushKeepsInv
<1> QED
  BY <1>4, <1>5, <1>6, <1>8, <1>9, <1>10

\* A request that is answered or moves on keeps the invariant on events.
LEMMA CloudServeKeepsEvents ==
  ASSUME CloudEventsInv, NEW m \in cloudNet,
         NEW rest, rest \subseteq cloudNet' , \A q \in rest : q.events = m.events,
         cloudNet' = (cloudNet \ {m}) \cup rest,
         \A p, q \in rest : p = q,
         \/ cloudRows' = cloudRows
         \/ rest = {} /\ cloudRows' = cloudRows \cup m.events,
         UNCHANGED <<cloudBuffer, cloudEmitted>>
  PROVE  CloudEventsInv'
<1>1. \A x : \A p, q \in cloudNet' : x \in p.events /\ x \in q.events => p = q
  <2> SUFFICES ASSUME NEW x, NEW p \in cloudNet', NEW q \in cloudNet',
                      x \in p.events, x \in q.events
               PROVE  p = q
    OBVIOUS
  <2>1. \A k \in cloudNet \ {m} : ~(x \in k.events /\ x \in m.events)
    BY DEF CloudEventsInv
  <2>2. CASE p \in rest
    BY <2>1, <2>2
  <2>3. CASE q \in rest
    BY <2>1, <2>3
  <2>4. CASE p \in cloudNet /\ q \in cloudNet
    BY <2>4 DEF CloudEventsInv
  <2> QED
    BY <2>2, <2>3, <2>4
<1>2. \A x : \A p \in cloudNet' : x \in p.events => \E k \in cloudNet : x \in k.events
  OBVIOUS
<1>3. \A x : \A p \in cloudNet' : x \in p.events => x \notin cloudRows'
  <2>1. CASE cloudRows' = cloudRows
    BY <1>2, <2>1 DEF CloudEventsInv
  <2>2. CASE rest = {} /\ cloudRows' = cloudRows \cup m.events
    <3>1. \A x : \A p \in cloudNet \ {m} : x \in p.events => x \notin m.events
      BY DEF CloudEventsInv
    <3>2. \A x : \A p \in cloudNet \ {m} : x \in p.events => x \notin cloudRows
      BY DEF CloudEventsInv
    <3> QED
      BY <2>2, <3>1, <3>2
  <2> QED
    BY <2>1, <2>2
<1>4. \A x : \A c \in CloudChannels :
        x \in cloudBuffer'[c] => x \notin cloudRows' /\ \A p \in cloudNet' : x \notin p.events
  <2> SUFFICES ASSUME NEW x, NEW c \in CloudChannels, x \in cloudBuffer[c]
               PROVE  x \notin cloudRows' /\ \A p \in cloudNet' : x \notin p.events
    OBVIOUS
  <2>1. \A k \in cloudNet : x \notin k.events
    BY DEF CloudEventsInv
  <2>2. x \notin cloudRows
    BY DEF CloudEventsInv
  <2> QED
    BY <2>1, <2>2
<1>5. /\ cloudRows' \subseteq 1 .. cloudEmitted'
      /\ \A p \in cloudNet' : p.events \subseteq 1 .. cloudEmitted'
  BY DEF CloudEventsInv
<1>6. /\ cloudEmitted' \in 0 .. CloudMaxEvents
      /\ cloudBuffer' \in [CloudChannels -> SUBSET (1 .. cloudEmitted')]
      /\ \A x : \A c, d \in CloudChannels :
           x \in cloudBuffer'[c] /\ x \in cloudBuffer'[d] => c = d
  BY DEF CloudEventsInv
<1> QED
  BY <1>1, <1>3, <1>4, <1>5, <1>6 DEF CloudEventsInv

\* An admitted request writes its rows or the run's, or nothing.
LEMMA CloudInsertFacts ==
  ASSUME CloudInv, NEW m \in cloudNet, CloudInsert(m)
  PROVE  /\ cloudTable' \in {"none", "in_progress", "ended"}
         /\ cloudRows' = cloudRows \/ cloudRows' = cloudRows \cup m.events
<1>1. m.kind \in {"run_start", "rows", "run_end"}
      /\ cloudTable \in {"none", "in_progress", "ended"}
  BY DEF CloudInv, CloudRequests
<1> QED
  BY <1>1 DEF CloudInsert

\* What the ingest route does with a request keeps the invariant: a lookup that found
\* the key began before it was revoked, so what it puts in the cache then has run out
\* a cache lifetime after the revocation.
LEMMA CloudServeKeepsInv ==
  ASSUME CloudInv, NEW m \in cloudNet,
         CloudReceive(m) \/ CloudLookup(m) \/ CloudAdmit(m) \/ CloudLose(m)
  PROVE  CloudInv'
<1>1. /\ CloudEventsInv /\ CloudKeyInv /\ cloudNet \subseteq CloudRequests
      /\ m \in CloudRequests /\ cloudTable \in {"none", "in_progress", "ended"}
      /\ cloudNow \in Nat /\ CloudKeyTtl \in Nat /\ cloudKey \in Nat
      /\ CloudMaxTime \in Nat /\ cloudRevokedAt \in Nat /\ cloudNow <= CloudMaxTime
      /\ m.since \in Nat /\ m.since <= cloudNow
  BY CloudAssumption DEF CloudInv, CloudKeyInv, CloudRequests
<1>2. UNCHANGED <<cloudBuffer, cloudEmitted, cloudRunState>>
  BY DEF CloudReceive, CloudLookup, CloudAdmit, CloudLose, CloudHandle
<1>3. cloudTable' \in {"none", "in_progress", "ended"}
  BY <1>1, CloudInsertFacts
  DEF CloudReceive, CloudLookup, CloudAdmit, CloudLose, CloudServer
<1> DEFINE Served(rest) ==
      /\ rest \subseteq CloudRequests /\ \A q \in rest : q.events = m.events
      /\ \A p, q \in rest : p = q
      /\ cloudNet' = (cloudNet \ {m}) \cup rest
      /\ \/ cloudRows' = cloudRows
         \/ rest = {} /\ cloudRows' = cloudRows \cup m.events
      /\ cloudNow' = cloudNow /\ cloudRevokedAt' = cloudRevokedAt
      /\ \/ cloudKey' \in {cloudKey, 0}
         \/ m.at = "known" /\ cloudKey' = m.since + CloudKeyTtl
      /\ \A q \in rest : q.since <= cloudNow
      /\ \A q \in rest : q.at = "known" => cloudRevokedAt = 0
<1> HIDE DEF Served
<1>4. PICK rest : Served(rest)
  <2>1. CASE cloudNet' = cloudNet \ {m} /\ (CloudReceive(m) \/ CloudAdmit(m))
    <3>1. /\ cloudRows' = cloudRows \/ cloudRows' = cloudRows \cup m.events
          /\ cloudNow' = cloudNow /\ cloudRevokedAt' = cloudRevokedAt
          /\ \/ cloudKey' = cloudKey
             \/ m.at = "known" /\ cloudKey' = m.since + CloudKeyTtl
      BY <2>1, CloudInsertFacts DEF CloudReceive, CloudAdmit, CloudExpiry
    <3>2. Served({})
      BY <2>1, <3>1 DEF Served
    <3> QED
      BY <3>2
  <2>2. CASE CloudReceive(m) /\ cloudNet' # cloudNet \ {m}
    <3>1. PICK t \in 0 .. CloudMaxTime : t = cloudNow
      BY <1>1
    <3> DEFINE q == [m EXCEPT !.at = "looking", !.since = t]
    <3>2. /\ cloudNet' = (cloudNet \ {m}) \cup {q} /\ cloudRows' = cloudRows
          /\ UNCHANGED <<cloudKey, cloudRevokedAt, cloudNow>>
      BY <2>2, <3>1 DEF CloudReceive, CloudAnswered
    <3>3. /\ q \in CloudRequests /\ q.events = m.events /\ q.at = "looking"
          /\ q.since = t
      BY <1>1 DEF CloudRequests
    <3>4. q.since <= cloudNow
      BY <1>1, <3>1, <3>3
    <3> HIDE DEF q
    <3>5. Served({q})
      BY <3>2, <3>3, <3>4 DEF Served
    <3> QED
      BY <3>5
  <2>3. CASE CloudLookup(m) /\ cloudRevokedAt = 0
    <3> DEFINE q == [m EXCEPT !.at = "known"]
    <3>1. /\ cloudNet' = (cloudNet \ {m}) \cup {q} /\ cloudRows' = cloudRows
          /\ UNCHANGED <<cloudKey, cloudRevokedAt, cloudNow>>
      BY <2>3 DEF CloudLookup
    <3>2. q \in CloudRequests /\ q.events = m.events /\ q.since = m.since
      BY <1>1 DEF CloudRequests
    <3> HIDE DEF q
    <3>3. Served({q})
      BY <1>1, <2>3, <3>1, <3>2 DEF Served
    <3> QED
      BY <3>3
  <2>4. CASE CloudLookup(m) /\ cloudRevokedAt # 0
    <3>1. Served({})
      BY <2>4 DEF CloudLookup, CloudAnswered, Served
    <3> QED
      BY <3>1
  <2>5. CASE CloudLose(m)
    <3>1. Served({})
      BY <2>5 DEF CloudLose, CloudAnswered, CloudServer, Served
    <3> QED
      BY <3>1
  <2>6. CloudAdmit(m) => cloudNet' = cloudNet \ {m}
    BY DEF CloudAdmit, CloudAnswered
  <2> QED
    BY <2>1, <2>2, <2>3, <2>4, <2>5, <2>6
<1> USE DEF Served
<1>5. CloudEventsInv'
  <2>1. rest \subseteq cloudNet'
    BY <1>4
  <2> QED
    BY <1>1, <1>2, <1>4, <2>1, CloudServeKeepsEvents
<1>6. cloudKey' \in Nat /\ cloudKey' <= cloudNow' + CloudKeyTtl
  <2>1. cloudKey' = cloudKey \/ cloudKey' = 0 \/ cloudKey' = m.since + CloudKeyTtl
    BY <1>4
  <2>2. cloudKey <= cloudNow + CloudKeyTtl /\ cloudNow' = cloudNow
    BY <1>1, <1>4 DEF CloudKeyInv
  <2> QED
    BY <1>1, <2>1, <2>2
<1>7. RevokedKeyExpires'
  <2> SUFFICES ASSUME cloudRevokedAt # 0
               PROVE  cloudKey' <= cloudRevokedAt + CloudKeyTtl
    BY <1>4 DEF RevokedKeyExpires
  <2>1. cloudKey <= cloudRevokedAt + CloudKeyTtl
    BY <1>1 DEF CloudKeyInv, RevokedKeyExpires
  <2>2. m.at = "known" => m.since <= cloudRevokedAt
    BY <1>1 DEF CloudKeyInv
  <2> QED
    BY <1>1, <1>4, <2>1, <2>2
<1>8. \A q \in cloudNet' : q.since <= cloudNow'
  BY <1>1, <1>4 DEF CloudKeyInv
<1>9. cloudRevokedAt' # 0 => \A q \in cloudNet' : q.at = "known" => q.since <= cloudRevokedAt'
  BY <1>1, <1>4 DEF CloudKeyInv
<1>10. CloudKeyInv'
  BY <1>1, <1>4, <1>6, <1>7, <1>8, <1>9 DEF CloudKeyInv
<1> QED
  BY <1>1, <1>2, <1>3, <1>4, <1>5, <1>10 DEF CloudInv

\* Revoking the key and the clock keep the invariant.
LEMMA CloudClockKeepsInv ==
  ASSUME CloudInv, CloudRevoke \/ CloudTick
  PROVE  CloudInv'
<1>1. /\ CloudEventsInv /\ CloudKeyInv /\ cloudNet \subseteq CloudRequests
      /\ cloudNow \in Nat /\ CloudKeyTtl \in Nat /\ cloudKey \in Nat /\ cloudNow >= 1
      /\ CloudMaxTime \in Nat /\ cloudRevokedAt \in Nat /\ cloudNow <= CloudMaxTime
      /\ cloudRevokedAt <= cloudNow
      /\ UNCHANGED <<cloudBuffer, cloudEmitted, cloudRunState, cloudNet, cloudTable,
                     cloudRows, cloudKey>>
  BY CloudAssumption DEF CloudInv, CloudKeyInv, CloudRevoke, CloudTick, CloudHandle
<1>2. CloudEventsInv'
  BY <1>1 DEF CloudEventsInv
<1>3. \A m \in cloudNet : m.since \in Nat /\ m.since <= cloudNow
  BY <1>1 DEF CloudKeyInv, CloudRequests
<1>4. cloudKey <= cloudNow + CloudKeyTtl
  BY <1>1 DEF CloudKeyInv
<1>5. CASE CloudRevoke
  <2>1. cloudRevokedAt' = cloudNow /\ cloudNow' = cloudNow
    BY <1>5 DEF CloudRevoke
  <2>2. CloudKeyInv'
    BY <1>1, <1>3, <1>4, <2>1 DEF CloudKeyInv, RevokedKeyExpires
  <2> QED
    BY <1>1, <1>2, <2>2 DEF CloudInv
<1>6. CASE CloudTick
  <2>1. cloudRevokedAt' = cloudRevokedAt /\ cloudNow' = cloudNow + 1
        /\ cloudNow' \in 1 .. CloudMaxTime
    BY <1>1, <1>6 DEF CloudTick
  <2>2. \A m \in cloudNet' : m.since <= cloudNow'
    BY <1>1, <1>3, <2>1
  <2>3. CloudKeyInv'
    BY <1>1, <1>4, <2>1, <2>2 DEF CloudKeyInv, RevokedKeyExpires
  <2> QED
    BY <1>1, <1>2, <2>3 DEF CloudInv
<1> QED
  BY <1>5, <1>6

\* Every step of the run, the network and the route keeps the invariant.
LEMMA CloudInvNext == CloudInv /\ [CloudNext]_cloudVars => CloudInv'
<1> SUFFICES ASSUME CloudInv, [CloudNext]_cloudVars PROVE CloudInv'
  OBVIOUS
<1>1. CASE \E m \in cloudNet : CloudReceive(m) \/ CloudLookup(m) \/ CloudAdmit(m)
                               \/ CloudLose(m)
  BY <1>1, CloudServeKeepsInv
<1>2. CASE UNCHANGED cloudVars
  BY <1>2 DEF cloudVars, CloudInv, CloudEventsInv, CloudKeyInv, RevokedKeyExpires
<1> QED
  BY <1>1, <1>2, CloudHandleKeepsInv, CloudClockKeepsInv DEF CloudNext, CloudServe

\* What the handle, the network and the route keep has its type.
THEOREM CloudTypeCorrect == CloudSpec => []CloudTypeOK
<1> QED
  BY CloudInvInit, CloudInvNext, CloudInvImplies, PTL DEF CloudSpec

\* For any batch size and number of events no span or record is sent twice or stored
\* before it was sent, and for any cache lifetime a revoked key has run out one
\* lifetime after it was revoked.
THEOREM CloudIngestIsSound == CloudSpec => [](EventsAreSentOnce /\ RevokedKeyExpires)
<1>1. CloudInv => EventsAreSentOnce /\ RevokedKeyExpires
  BY CloudInvImplies
<1> QED
  BY <1>1, CloudInvInit, CloudInvNext, PTL DEF CloudSpec

-------------------------------------------------------------------------------
(* The life of an order. *)

OrderUsed == {s \in OrderSubscriptions : orderSub[s] # "new"}
OrderOnly(s) == \A r \in OrderSubscriptions : orderSub[r] # "new" => r = s

\* Timers, events in flight and the log are of subscriptions that were made.  An order
\* nobody subscribed to has not moved, and one that was subscribed to once has not
\* moved as long as its first timer is pending.
OrderInv ==
  /\ OrderTypeOK /\ IsFiniteSet(OrderUsed)
  /\ \A e \in orderNet : orderSub[e.sub] # "new"
  /\ \A i \in 1 .. Len(orderLog) : orderSub[orderLog[i].sub] # "new"
  /\ \A t \in orderTimers : orderSub[t[1]] # "new"
  /\ LogIsAuthentic
  /\ OrderUsed = {} => orderStatus \in {"none", "confirmed"}
  /\ \A s \in OrderSubscriptions :
       OrderOnly(s) /\ <<s, 1>> \in orderTimers => orderStatus \in {"none", "confirmed"}

\* Before any order the invariant holds.
LEMMA OrderInvInit == OrderInit => OrderInv
<1> SUFFICES ASSUME OrderInit PROVE OrderInv
  OBVIOUS
<1>1. OrderUsed = {} /\ IsFiniteSet(OrderUsed)
  <2>1. OrderUsed = {}
    BY DEF OrderInit, OrderUsed
  <2> QED
    BY <2>1, FS_EmptySet
<1>2. orderLog \in Seq(OrderEvents) /\ Len(orderLog) = 0 /\ DOMAIN orderLog = {}
  BY EmptySeq DEF OrderInit
<1>3. OrderTypeOK
  BY <1>2 DEF OrderInit, OrderTypeOK, OrderStatuses
<1> QED
  BY <1>1, <1>2, <1>3 DEF OrderInit, OrderInv, LogIsAuthentic

\* A step that makes no subscription, starts no timer and logs nothing keeps the
\* invariant when the status and the events it posts allow it.
LEMMA OrderQuietKeepsInv ==
  ASSUME OrderInv, OrderTypeOK',
         OrderUsed' = OrderUsed,
         \A s \in OrderSubscriptions : orderSub'[s] = "new" <=> orderSub[s] = "new",
         UNCHANGED <<orderSigned, orderLog>>,
         orderTimers' \subseteq orderTimers,
         \A e \in orderNet' : orderSub[e.sub] # "new",
         \/ orderStatus' \in {"none", "confirmed"}
         \/ /\ OrderUsed # {}
            /\ \A s \in OrderSubscriptions :
                 OrderOnly(s) /\ <<s, 1>> \in orderTimers'
                   => orderStatus' \in {"none", "confirmed"}
  PROVE  OrderInv'
<1>1. \A s \in OrderSubscriptions : OrderOnly(s)' <=> OrderOnly(s)
  BY DEF OrderOnly
<1>2. \A e \in orderNet' : orderSub'[e.sub] # "new"
  BY DEF OrderTypeOK, OrderEvents
<1>3. \A i \in 1 .. Len(orderLog) : orderSub'[orderLog[i].sub] # "new"
  <2> SUFFICES ASSUME NEW i \in 1 .. Len(orderLog)
               PROVE  orderSub'[orderLog[i].sub] # "new"
    OBVIOUS
  <2>1. orderLog[i] \in OrderEvents
    BY DEF OrderInv, OrderTypeOK
  <2> QED
    BY <2>1 DEF OrderInv, OrderEvents
<1>4. \A t \in orderTimers' : orderSub'[t[1]] # "new"
  BY DEF OrderInv, OrderTypeOK
<1>5. LogIsAuthentic'
  BY DEF OrderInv, LogIsAuthentic
<1> QED
  BY <1>1, <1>2, <1>3, <1>4, <1>5 DEF OrderInv

\* The merchant and its users keep the invariant.
LEMMA OrderUserKeepsInv ==
  ASSUME OrderInv,
         \/ OrderListen \/ OrderStart \/ OrderPlace \/ OrderStop \/ OrderReset
         \/ \E s \in OrderSubscriptions : OrderUnsubscribe(s)
  PROVE  OrderInv'
<1> USE DEF OrderInv
<1>1. /\ orderStatus' \in OrderStatuses \cup {"none"}
      /\ orderSub' \in [OrderSubscriptions -> {"new", "active", "gone"}]
      /\ orderListening' \in BOOLEAN /\ orderUp' \in BOOLEAN
      /\ UNCHANGED <<orderSigned, orderNet, orderLog>>
      /\ orderTimers' \subseteq orderTimers
      /\ \A s \in OrderSubscriptions : orderSub'[s] = "new" <=> orderSub[s] = "new"
  <2>1. CASE OrderListen \/ OrderStart \/ OrderPlace \/ OrderStop
    BY <2>1 DEF OrderListen, OrderStart, OrderPlace, OrderStop, OrderTypeOK, OrderStatuses
  <2>2. CASE OrderReset
    BY <2>2 DEF OrderReset, OrderTypeOK
  <2>3. ASSUME NEW s \in OrderSubscriptions, OrderUnsubscribe(s)
        PROVE  /\ orderStatus' = orderStatus /\ orderListening' = orderListening
               /\ orderUp' = orderUp
               /\ orderSub' \in [OrderSubscriptions -> {"new", "active", "gone"}]
               /\ UNCHANGED <<orderSigned, orderNet, orderLog, orderTimers>>
               /\ \A r \in OrderSubscriptions : orderSub'[r] = "new" <=> orderSub[r] = "new"
    BY <2>3 DEF OrderUnsubscribe, OrderTypeOK
  <2> QED
    BY <2>1, <2>2, <2>3 DEF OrderTypeOK
<1>2. OrderTypeOK'
  BY <1>1 DEF OrderTypeOK
<1>3. OrderUsed' = OrderUsed
  BY <1>1 DEF OrderUsed
<1>4. orderStatus' \in {"none", "confirmed"} \/ orderStatus' = orderStatus
  BY DEF OrderListen, OrderStart, OrderPlace, OrderStop, OrderReset, OrderUnsubscribe
<1>5. \/ orderStatus' \in {"none", "confirmed"}
      \/ /\ OrderUsed # {}
         /\ \A s \in OrderSubscriptions :
              OrderOnly(s) /\ <<s, 1>> \in orderTimers'
                => orderStatus' \in {"none", "confirmed"}
  BY <1>1, <1>4
<1> QED
  BY <1>1, <1>2, <1>3, <1>5, OrderQuietKeepsInv

\* A subscription starts its timers.
LEMMA OrderSubscribeKeepsInv ==
  ASSUME OrderInv, NEW s \in OrderSubscriptions, OrderSubscribe(s)
  PROVE  OrderInv'
<1> USE DEF OrderInv
<1>1. PICK signed \in BOOLEAN : orderSigned' = [orderSigned EXCEPT ![s] = signed]
  BY DEF OrderSubscribe
<1>2. /\ orderSub' = [orderSub EXCEPT ![s] = "active"] /\ orderSub[s] = "new"
      /\ orderTimers' = orderTimers \cup ({s} \X OrderStages)
      /\ UNCHANGED <<orderStatus, orderNet, orderLog, orderListening, orderUp>>
  BY DEF OrderSubscribe
<1>3. OrderTypeOK'
  BY <1>1, <1>2 DEF OrderTypeOK
<1>4. OrderUsed' = OrderUsed \cup {s} /\ IsFiniteSet(OrderUsed')
  <2>1. OrderUsed' = OrderUsed \cup {s}
    BY <1>2 DEF OrderUsed, OrderTypeOK
  <2> QED
    BY <2>1, FS_AddElement
<1>5. \A r \in OrderSubscriptions : orderSub[r] # "new" =>
        orderSub'[r] # "new" /\ orderSigned'[r] = orderSigned[r]
  BY <1>1, <1>2 DEF OrderTypeOK
<1>6. \A e \in orderNet' : orderSub'[e.sub] # "new"
  BY <1>2, <1>5 DEF OrderTypeOK, OrderEvents
<1>7. \A i \in 1 .. Len(orderLog') :
        /\ orderSub'[orderLog'[i].sub] # "new" /\ orderSigned'[orderLog'[i].sub]
  <2> SUFFICES ASSUME NEW i \in 1 .. Len(orderLog)
               PROVE  orderSub'[orderLog[i].sub] # "new" /\ orderSigned'[orderLog[i].sub]
    BY <1>2
  <2>1. orderLog[i] \in OrderEvents
    BY DEF OrderTypeOK
  <2>2. orderSigned[orderLog[i].sub]
    BY DEF LogIsAuthentic, OrderTypeOK
  <2>3. orderLog[i].sub \in OrderSubscriptions /\ orderSub[orderLog[i].sub] # "new"
    BY <2>1 DEF OrderEvents
  <2> QED
    BY <1>5, <2>2, <2>3
<1>8. LogIsAuthentic'
  BY <1>3, <1>7 DEF LogIsAuthentic, OrderTypeOK
<1>9. \A t \in orderTimers' : orderSub'[t[1]] # "new"
  <2>1. \A t \in orderTimers : orderSub'[t[1]] # "new"
    BY <1>5 DEF OrderTypeOK
  <2>2. orderSub'[s] # "new"
    BY <1>2 DEF OrderTypeOK
  <2>3. \A t \in {s} \X OrderStages : t[1] = s
    OBVIOUS
  <2> QED
    BY <1>2, <2>1, <2>2, <2>3
<1>10. OrderUsed' = {} => orderStatus' \in {"none", "confirmed"}
  BY <1>4
<1>11. ASSUME NEW r \in OrderSubscriptions, OrderOnly(r)'
       PROVE  orderStatus' \in {"none", "confirmed"}
  <2>1. orderSub'[s] # "new"
    BY <1>2 DEF OrderTypeOK
  <2>2. r = s
    BY <1>11, <2>1 DEF OrderOnly
  <2>3. \A q \in OrderSubscriptions : orderSub[q] # "new" => q = s /\ orderSub[s] # "new"
    BY <1>5, <1>11, <2>2 DEF OrderOnly
  <2>4. OrderUsed = {}
    BY <1>2, <2>3 DEF OrderUsed
  <2> QED
    BY <1>2, <2>4
<1> QED
  BY <1>3, <1>4, <1>6, <1>7, <1>8, <1>9, <1>10, <1>11

\* A timer moves the order of an active subscription and finds nothing to do otherwise.
LEMMA OrderTimerKeepsInv ==
  ASSUME OrderInv, NEW s \in OrderSubscriptions, NEW k \in OrderStages, OrderTimer(s, k)
  PROVE  OrderInv'
<1> USE DEF OrderInv
<1>1. /\ orderTimers' \subseteq orderTimers /\ <<s, k>> \in orderTimers
      /\ <<s, k>> \notin orderTimers' /\ OrderFirstTimer(s, k)
      /\ UNCHANGED <<orderSub, orderSigned, orderLog, orderListening, orderUp>>
  BY DEF OrderTimer
<1>2. OrderUsed' = OrderUsed /\ s \in OrderUsed
  BY <1>1 DEF OrderUsed
<1>3. CASE OrderMoves(s, k)
  <2> DEFINE e == [sub |-> s, previous |-> orderStatus, new |-> OrderStatusOf[k]]
  <2>1. OrderStatusOf[k] \in OrderStatuses /\ orderStatus \in OrderStatuses
    BY <1>3 DEF OrderMoves, OrderStages, OrderStatusOf, OrderStatuses, OrderTypeOK
  <2>2. e \in OrderEvents /\ e.sub = s
    BY <2>1 DEF OrderEvents
  <2>3. orderStatus' = OrderStatusOf[k] /\ orderNet' = orderNet \cup {e}
    BY <1>3 DEF OrderMoves
  <2> HIDE DEF e
  <2>4. OrderTypeOK'
    BY <1>1, <2>1, <2>2, <2>3 DEF OrderTypeOK
  <2>5. \A q \in orderNet' : orderSub[q.sub] # "new"
    BY <1>1, <2>2, <2>3
  <2>6. \A r \in OrderSubscriptions :
          OrderOnly(r) /\ <<r, 1>> \in orderTimers'
            => orderStatus' \in {"none", "confirmed"}
    <3> SUFFICES ASSUME NEW r \in OrderSubscriptions, OrderOnly(r), <<r, 1>> \in orderTimers'
                 PROVE  FALSE
      OBVIOUS
    <3>1. r = s
      BY <1>1 DEF OrderOnly
    <3>2. k # 1
      BY <1>1, <3>1
    <3>3. <<r, 1>>[2] >= k
      BY <1>1, <3>1 DEF OrderFirstTimer
    <3> QED
      BY <3>2, <3>3 DEF OrderStages
  <2> QED
    BY <1>1, <1>2, <2>4, <2>5, <2>6, OrderQuietKeepsInv
<1>4. CASE UNCHANGED <<orderStatus, orderNet>>
  <2>1. OrderTypeOK'
    BY <1>1, <1>4 DEF OrderTypeOK
  <2>2. \A r \in OrderSubscriptions :
          OrderOnly(r) /\ <<r, 1>> \in orderTimers'
            => orderStatus' \in {"none", "confirmed"}
    BY <1>1, <1>4
  <2> QED
    BY <1>1, <1>2, <1>4, <2>1, <2>2, OrderQuietKeepsInv
<1> QED
  BY <1>3, <1>4 DEF OrderTimer

\* An event that arrives is logged when the server's secret has signed it.
LEMMA OrderNetKeepsInv ==
  ASSUME OrderInv, NEW e \in orderNet, OrderArrive(e) \/ OrderLost(e)
  PROVE  OrderInv'
<1> USE DEF OrderInv
<1>1. /\ orderNet' \subseteq orderNet /\ e \in OrderEvents
      /\ UNCHANGED <<orderStatus, orderSub, orderSigned, orderTimers, orderListening,
                     orderUp>>
  BY DEF OrderArrive, OrderLost, OrderTypeOK
<1>2. OrderUsed' = OrderUsed /\ \A s \in OrderSubscriptions : OrderOnly(s)' <=> OrderOnly(s)
  BY <1>1 DEF OrderUsed, OrderOnly
<1>3. orderLog \in Seq(OrderEvents)
  BY DEF OrderTypeOK
<1>4. CASE orderLog' = orderLog
  BY <1>1, <1>2, <1>4 DEF OrderTypeOK, LogIsAuthentic
<1>5. CASE orderLog' = Append(orderLog, e) /\ OrderAuthentic(e)
  <2>1. /\ orderLog' \in Seq(OrderEvents) /\ Len(orderLog') = Len(orderLog) + 1
        /\ \A i \in 1 .. Len(orderLog) : orderLog'[i] = orderLog[i]
        /\ orderLog'[Len(orderLog) + 1] = e
    BY <1>1, <1>3, <1>5, AppendProperties
  <2>2. Len(orderLog) \in Nat /\ DOMAIN orderLog = 1 .. Len(orderLog)
        /\ DOMAIN orderLog' = 1 .. Len(orderLog')
    BY <1>3, <2>1, LenProperties
  <2>3. OrderTypeOK'
    BY <1>1, <2>1 DEF OrderTypeOK
  <2>4. orderSigned[e.sub] /\ orderSub[e.sub] # "new"
    BY <1>5 DEF OrderAuthentic
  <2>5. \A i \in 1 .. Len(orderLog') : i \in 1 .. Len(orderLog) \/ i = Len(orderLog) + 1
    BY <2>1, <2>2
  <2>6. \A i \in 1 .. Len(orderLog') :
          orderSub'[orderLog'[i].sub] # "new" /\ orderSigned'[orderLog'[i].sub]
    BY <1>1, <2>1, <2>2, <2>4, <2>5 DEF LogIsAuthentic
  <2>7. LogIsAuthentic'
    BY <2>2, <2>6 DEF LogIsAuthentic
  <2> QED
    BY <1>1, <1>2, <2>3, <2>6, <2>7
<1> QED
  BY <1>4, <1>5 DEF OrderArrive, OrderLost

\* Every step keeps the invariant.
LEMMA OrderInvNext == OrderInv /\ [OrderNext]_orderVars => OrderInv'
<1> SUFFICES ASSUME OrderInv, [OrderNext]_orderVars PROVE OrderInv'
  OBVIOUS
<1>1. CASE UNCHANGED orderVars
  BY <1>1 DEF orderVars, OrderInv, OrderTypeOK, OrderUsed, OrderOnly, LogIsAuthentic
<1> QED
  BY <1>1, OrderUserKeepsInv, OrderSubscribeKeepsInv, OrderTimerKeepsInv, OrderNetKeepsInv
  DEF OrderNext, OrderTimers

\* With one subscription at most, the first timer finds the order confirmed and the
\* second one can only deliver it.
LEMMA OrderGoesForward ==
  ASSUME OrderInv, [OrderNext]_orderVars,
         Cardinality({s \in OrderSubscriptions : orderSub[s] # "new"}) <= 1,
         orderStatus # "none"
  PROVE  OrderNeverBack
<1> USE DEF OrderInv
<1>1. orderStatus \in OrderStatuses /\ OrderRank("none") = 4
      /\ \A status \in OrderStatuses : OrderRank(status) \in 1 .. 3
  BY DEF OrderTypeOK, OrderStatuses, OrderRank
<1>2. CASE orderStatus' = orderStatus
  BY <1>1, <1>2 DEF OrderNeverBack
<1>3. CASE orderStatus' = "none"
  BY <1>1, <1>3 DEF OrderNeverBack
<1>4. ASSUME NEW s \in OrderSubscriptions, NEW k \in OrderStages, OrderTimer(s, k),
             OrderMoves(s, k)
      PROVE  OrderNeverBack
  <2>1. <<s, k>> \in orderTimers /\ orderStatus' = OrderStatusOf[k] /\ s \in OrderUsed
    BY <1>4 DEF OrderTimer, OrderMoves, OrderUsed
  <2>2. OrderOnly(s)
    <3> SUFFICES ASSUME NEW r \in OrderUsed, r # s PROVE FALSE
      BY DEF OrderOnly, OrderUsed
    <3>1. {r, s} \subseteq OrderUsed /\ Cardinality(OrderUsed) <= 1
      BY <2>1 DEF OrderUsed
    <3>2. IsFiniteSet({r, s}) /\ Cardinality({r, s}) <= Cardinality(OrderUsed)
      BY <3>1, FS_Subset
    <3>3. Cardinality({r}) = 1 /\ IsFiniteSet({r})
      BY FS_Singleton
    <3>4. Cardinality({r} \cup {s}) = 2
      <4>1. s \notin {r}
        OBVIOUS
      <4>2. Cardinality({r} \cup {s})
              = IF s \in {r} THEN Cardinality({r}) ELSE Cardinality({r}) + 1
        BY <3>3, FS_AddElement, Zenon
      <4> QED
        BY <3>3, <4>1, <4>2
    <3>5. {r} \cup {s} = {r, s}
      OBVIOUS
    <3>6. Cardinality({r, s}) \in Nat /\ Cardinality(OrderUsed) \in Nat
      BY <3>2, FS_CardinalityType
    <3> QED
      BY <3>1, <3>2, <3>4, <3>5, <3>6
  <2>3. CASE k = 1
    <3>1. orderStatus = "confirmed"
      BY <2>1, <2>2, <2>3
    <3>2. orderStatus' = "shipped"
      BY <2>1, <2>3 DEF OrderStatusOf
    <3>3. OrderRank("confirmed") = 1 /\ OrderRank("shipped") = 2
      BY DEF OrderRank
    <3>4. OrderRank(orderStatus) = 1 /\ OrderRank(orderStatus') = 2
      BY <3>1, <3>2, <3>3
    <3> QED
      BY <3>4 DEF OrderNeverBack
  <2>4. CASE k = 2
    <3>1. OrderRank(orderStatus') = 3
      BY <2>1, <2>4 DEF OrderRank, OrderStatusOf
    <3> QED
      BY <1>1, <3>1 DEF OrderNeverBack
  <2> QED
    BY <2>3, <2>4 DEF OrderStages
<1>5. CASE OrderTimers
  BY <1>2, <1>4, <1>5 DEF OrderTimers, OrderTimer
<1>6. CASE OrderPlace
  BY <1>6 DEF OrderPlace
<1> QED
  BY <1>2, <1>3, <1>5, <1>6 DEF OrderNext, orderVars, OrderListen, OrderStart, OrderStop,
    OrderReset, OrderSubscribe, OrderUnsubscribe, OrderArrive, OrderLost

\* Only the timer of an active subscription posts an event.
LEMMA OrderPostsForActive ==
  ASSUME [OrderNext]_orderVars
  PROVE  \A e \in orderNet' \ orderNet : orderSub[e.sub] = "active"
<1>1. ASSUME NEW s \in OrderSubscriptions, NEW k \in OrderStages, OrderTimer(s, k)
      PROVE  \A e \in orderNet' \ orderNet : orderSub[e.sub] = "active"
  BY <1>1 DEF OrderTimer, OrderMoves
<1> QED
  BY <1>1 DEF OrderNext, OrderTimers, orderVars, OrderListen, OrderStart, OrderPlace,
    OrderStop, OrderReset, OrderSubscribe, OrderUnsubscribe, OrderArrive, OrderLost

\* What the merchant and the server keep of an order has its type.
THEOREM OrderTypeCorrect == OrderSpec => []OrderTypeOK
<1>1. OrderInv => OrderTypeOK
  BY DEF OrderInv
<1> QED
  BY <1>1, OrderInvInit, OrderInvNext, PTL DEF OrderSpec

\* For any number of subscriptions, in whatever order their timers fire and their
\* events arrive: an order subscribed to once never goes back, no event is posted for
\* a subscription that has ended, and the log has signed events only.
THEOREM OrderEventsSound == OrderSpec => OrderEventsAreSound
<1>1. OrderInv /\ [OrderNext]_orderVars =>
        [(Cardinality({s \in OrderSubscriptions : orderSub[s] # "new"}) <= 1
            /\ orderStatus # "none") => OrderNeverBack]_orderVars
  BY OrderGoesForward
<1>2. [OrderNext]_orderVars =>
        [\A e \in orderNet' \ orderNet : orderSub[e.sub] = "active"]_orderVars
  BY OrderPostsForActive
<1>3. OrderInv' => [LogIsAuthentic']_orderVars
  BY DEF OrderInv
<1> QED
  BY <1>1, <1>2, <1>3, OrderInvInit, OrderInvNext, PTL
  DEF OrderSpec, OrderEventsAreSound, LifecycleIsForward, EventsEndWithSubscription

-------------------------------------------------------------------------------
(* The audit trail. *)

\* The call the agent is in was logged last, and its start is kept.
TrailCallIsLogged ==
  trailCall # "none" =>
    /\ Len(trailLog) >= 1
    /\ trailLog[Len(trailLog)].type = "invocation"
    /\ trailLog[Len(trailLog)].tool = trailCall
    /\ trailPending[trailCall] = Len(trailLog)

TrailLogInv == TrailTypeOK /\ LatencyIsOwn /\ TrailCallIsLogged

TrailInv == TrailLogInv /\ EntriesArePostedOnce

\* It holds before the first call.
LEMMA TrailInvInit == TrailInit => TrailInv
<1> SUFFICES ASSUME TrailInit PROVE TrailInv
  OBVIOUS
<1> USE TrailAssumption DEF TrailInit
<1>1. TrailTypeOK
  BY EmptySeq DEF TrailTypeOK
<1>2. Len(trailLog) = 0
  OBVIOUS
<1>3. LatencyIsOwn /\ TrailCallIsLogged
  BY <1>2 DEF LatencyIsOwn, TrailCallIsLogged
<1>4. Cardinality(trailBuffer) = 0
  BY FS_EmptySet
<1>5. TrailBatches = {} /\ UNION TrailBatches = {}
  BY DEF TrailBatches
<1>6. 1 .. Len(trailLog) = {}
  BY <1>2
<1>7. EntriesArePostedOnce
  BY <1>4, <1>5, <1>6 DEF EntriesArePostedOnce
<1> QED
  BY <1>1, <1>3, <1>7 DEF TrailInv, TrailLogInv

\* Emitting an entry appends it; the buffer stays short of a batch.
LEMMA TrailEmitFacts ==
  ASSUME NEW entry \in TrailEntries, TrailInv, TrailEmit(entry),
         Len(trailLog) < TrailMaxEntries
  PROVE  /\ trailLog' \in Seq(TrailEntries) /\ Len(trailLog') = Len(trailLog) + 1
         /\ \A i \in 1 .. Len(trailLog) : trailLog'[i] = trailLog[i]
         /\ trailLog'[Len(trailLog) + 1] = entry
         /\ trailBuffer' \subseteq TrailPlaces /\ trailNet' \subseteq SUBSET TrailPlaces
         /\ EntriesArePostedOnce'
<1> DEFINE n == Len(trailLog)
           buffer == trailBuffer \cup {n + 1}
<1>1. trailLog \in Seq(TrailEntries) /\ n \in Nat /\ n < TrailMaxEntries
  BY LenProperties DEF TrailInv, TrailLogInv, TrailTypeOK
<1>2. /\ trailLog' = Append(trailLog, entry) /\ trailBuffer' = TrailKept(buffer)
      /\ trailNet' = trailNet \cup TrailPosted(buffer)
      /\ UNCHANGED <<trailReceived, trailLost>>
  BY DEF TrailEmit
<1>3. /\ trailLog' \in Seq(TrailEntries) /\ Len(trailLog') = n + 1
      /\ \A i \in 1 .. n : trailLog'[i] = trailLog[i]
      /\ trailLog'[n + 1] = entry
  BY <1>1, <1>2, AppendProperties
<1>4. /\ trailBuffer \cup UNION TrailBatches = 1 .. n
      /\ \A b \in TrailBatches : b \cap trailBuffer = {} /\ Cardinality(b) = TrailBatchSize
      /\ \A b1, b2 \in TrailBatches : b1 # b2 => b1 \cap b2 = {}
      /\ Cardinality(trailBuffer) < TrailBatchSize
      /\ trailNet \cap (trailReceived \cup trailLost) = {}
      /\ trailReceived \cap trailLost = {}
  BY DEF TrailInv, EntriesArePostedOnce
<1>5. /\ trailBuffer \subseteq 1 .. n /\ \A b \in TrailBatches : b \subseteq 1 .. n
      /\ n + 1 \notin 1 .. n
  BY <1>1, <1>4
<1>6. IsFiniteSet(trailBuffer) /\ Cardinality(trailBuffer) \in Nat
  <2>1. IsFiniteSet(1 .. n)
    BY <1>1, FS_Interval
  <2> QED
    BY <2>1, <1>5, FS_Subset, FS_CardinalityType
<1>7. Cardinality(buffer) = Cardinality(trailBuffer) + 1
  <2>1. n + 1 \notin trailBuffer
    BY <1>5
  <2>2. Cardinality(buffer) = IF n + 1 \in trailBuffer THEN Cardinality(trailBuffer)
                             ELSE Cardinality(trailBuffer) + 1
    BY <1>6, FS_AddElement, Zenon
  <2> QED
    BY <2>1, <2>2
<1>8. TrailBatchSize \in Nat \ {0}
  BY TrailAssumption
<1>9. buffer \cup UNION TrailBatches = 1 .. (n + 1)
  BY <1>1, <1>4
<1>10. \A b \in TrailBatches : b \cap buffer = {}
  BY <1>4, <1>5
<1>11. buffer \subseteq TrailPlaces
  <2>1. TrailMaxEntries \in Nat /\ n + 1 \in TrailPlaces
    BY <1>1, TrailAssumption DEF TrailPlaces
  <2>2. 1 .. n \subseteq TrailPlaces
    BY <1>1, <2>1 DEF TrailPlaces
  <2> QED
    BY <1>5, <2>1, <2>2
<1>12. trailNet \subseteq SUBSET TrailPlaces
  BY DEF TrailInv, TrailLogInv, TrailTypeOK
<1>13. CASE TrailFull(buffer)
  <2>1. trailBuffer' = {} /\ trailNet' = trailNet \cup {buffer}
    BY <1>2, <1>13 DEF TrailKept, TrailPosted
  <2>2. Cardinality(buffer) = TrailBatchSize
    BY <1>13, <1>4, <1>6, <1>7, <1>8 DEF TrailFull
  <2>3. TrailBatches' = TrailBatches \cup {buffer}
    BY <2>1, <1>2 DEF TrailBatches
  <2>4. Cardinality(trailBuffer') = 0
    BY <2>1, FS_EmptySet
  <2>5. n + 1 \in buffer /\ buffer \notin TrailBatches
    BY <1>5
  <2>6. trailBuffer' \cup UNION TrailBatches' = 1 .. Len(trailLog')
    BY <2>1, <2>3, <1>3, <1>9
  <2>7. \A b \in TrailBatches' :
          b \cap trailBuffer' = {} /\ Cardinality(b) = TrailBatchSize
    BY <2>1, <2>2, <2>3, <1>4
  <2>8. \A b1, b2 \in TrailBatches' : b1 # b2 => b1 \cap b2 = {}
    BY <2>3, <1>4, <1>10
  <2>9. trailNet' \cap (trailReceived' \cup trailLost') = {}
    BY <2>1, <2>5, <1>2, <1>4 DEF TrailBatches
  <2>10. Cardinality(trailBuffer') < TrailBatchSize
    BY <2>4, <1>8
  <2>11. trailReceived' \cap trailLost' = {}
    BY <1>2, <1>4
  <2> QED
    BY <2>1, <2>6, <2>7, <2>8, <2>9, <2>10, <2>11, <1>3, <1>11, <1>12
       DEF EntriesArePostedOnce
<1>14. CASE ~TrailFull(buffer)
  <2>1. trailBuffer' = buffer /\ trailNet' = trailNet
    BY <1>2, <1>14 DEF TrailKept, TrailPosted
  <2>2. TrailBatches' = TrailBatches
    BY <2>1, <1>2 DEF TrailBatches
  <2>3. Cardinality(trailBuffer') < TrailBatchSize
    BY <1>14, <2>1, <1>6, <1>7, <1>8 DEF TrailFull
  <2>4. trailBuffer' \cup UNION TrailBatches' = 1 .. Len(trailLog')
    BY <2>1, <2>2, <1>3, <1>9
  <2>5. \A b \in TrailBatches' :
          b \cap trailBuffer' = {} /\ Cardinality(b) = TrailBatchSize
    BY <2>1, <2>2, <1>4, <1>10
  <2>6. /\ \A b1, b2 \in TrailBatches' : b1 # b2 => b1 \cap b2 = {}
        /\ trailNet' \cap (trailReceived' \cup trailLost') = {}
        /\ trailReceived' \cap trailLost' = {}
    BY <2>1, <2>2, <1>2, <1>4
  <2> QED
    BY <2>1, <2>3, <2>4, <2>5, <2>6, <1>3, <1>11, <1>12 DEF EntriesArePostedOnce
<1> QED
  BY <1>3, <1>13, <1>14

\* Every step keeps it.
LEMMA TrailInvNext == TrailInv /\ [TrailNext]_trailVars => TrailInv'
<1> SUFFICES ASSUME TrailInv, [TrailNext]_trailVars PROVE TrailInv'
  OBVIOUS
<1>1. TrailTypeOK /\ LatencyIsOwn /\ TrailCallIsLogged /\ EntriesArePostedOnce
  BY DEF TrailInv, TrailLogInv
<1>2. Len(trailLog) \in Nat /\ TrailMaxEntries \in Nat /\ "none" \notin TrailTools
  BY <1>1, LenProperties, TrailAssumption DEF TrailTypeOK
<1>3. ASSUME NEW t \in TrailTools, TrailInvoke(t) PROVE TrailInv'
  <2> DEFINE entry == [tool |-> t, type |-> "invocation", start |-> 0]
  <2>1. /\ Len(trailLog) < TrailMaxEntries /\ trailCall' = t
        /\ trailPending' = [trailPending EXCEPT ![t] = Len(trailLog) + 1]
        /\ TrailEmit(entry)
    BY <1>3 DEF TrailInvoke, TrailStarted
  <2>2. entry \in TrailEntries
    BY <1>2 DEF TrailEntries
  <2> HIDE DEF entry
  <2>3. /\ trailLog' \in Seq(TrailEntries) /\ Len(trailLog') = Len(trailLog) + 1
        /\ \A i \in 1 .. Len(trailLog) : trailLog'[i] = trailLog[i]
        /\ trailLog'[Len(trailLog) + 1] = entry
        /\ trailBuffer' \subseteq TrailPlaces /\ trailNet' \subseteq SUBSET TrailPlaces
        /\ EntriesArePostedOnce'
    BY <2>1, <2>2, TrailEmitFacts
  <2>4. entry.type = "invocation" /\ entry.tool = t
    BY DEF entry
  <2>5. trailReceived' = trailReceived /\ trailLost' = trailLost
    BY <2>1 DEF TrailEmit
  <2>6. TrailTypeOK'
    BY <1>1, <1>2, <2>1, <2>3, <2>5 DEF TrailTypeOK
  <2>7. LatencyIsOwn'
    BY <1>1, <1>2, <2>3, <2>4 DEF LatencyIsOwn
  <2>8. TrailCallIsLogged'
    BY <1>1, <1>2, <2>1, <2>3, <2>4 DEF TrailCallIsLogged, TrailTypeOK
  <2> QED
    BY <2>3, <2>6, <2>7, <2>8 DEF TrailInv, TrailLogInv
<1>4. CASE TrailResult
  <2> DEFINE entry ==
        [tool |-> trailCall, type |-> "result", start |-> trailPending[trailCall]]
  <2>1. /\ Len(trailLog) < TrailMaxEntries /\ trailCall # "none" /\ trailCall' = "none"
        /\ trailPending' = [trailPending EXCEPT ![trailCall] = 0]
        /\ TrailEmit(entry)
    BY <1>4 DEF TrailResult
  <2>2. trailCall \in TrailTools /\ trailPending[trailCall] \in 0 .. TrailMaxEntries
    BY <1>1, <2>1 DEF TrailTypeOK
  <2>3. entry \in TrailEntries
    BY <2>2 DEF TrailEntries
  <2>4. entry.type = "result" /\ entry.tool = trailCall
          /\ entry.start = trailPending[trailCall]
    OBVIOUS
  <2> HIDE DEF entry
  <2>5. /\ trailLog' \in Seq(TrailEntries) /\ Len(trailLog') = Len(trailLog) + 1
        /\ \A i \in 1 .. Len(trailLog) : trailLog'[i] = trailLog[i]
        /\ trailLog'[Len(trailLog) + 1] = entry
        /\ trailBuffer' \subseteq TrailPlaces /\ trailNet' \subseteq SUBSET TrailPlaces
        /\ EntriesArePostedOnce'
    BY <2>1, <2>3, TrailEmitFacts
  <2>6. trailReceived' = trailReceived /\ trailLost' = trailLost
    BY <2>1 DEF TrailEmit
  <2>7. TrailTypeOK'
    BY <1>1, <1>2, <2>1, <2>5, <2>6 DEF TrailTypeOK
  <2>8. /\ Len(trailLog) >= 1 /\ trailLog[Len(trailLog)].type = "invocation"
        /\ trailLog[Len(trailLog)].tool = trailCall
        /\ trailPending[trailCall] = Len(trailLog)
    BY <1>1, <2>1 DEF TrailCallIsLogged
  <2>9. LatencyIsOwn'
    BY <1>1, <1>2, <2>4, <2>5, <2>8 DEF LatencyIsOwn
  <2>10. TrailCallIsLogged'
    BY <2>1 DEF TrailCallIsLogged
  <2> QED
    BY <2>5, <2>7, <2>9, <2>10 DEF TrailInv, TrailLogInv
<1>5. CASE TrailRefuse
  <2>1. /\ trailCall' = "none"
        /\ UNCHANGED <<trailLog, trailBuffer, trailPending, trailNet, trailReceived,
                       trailLost>>
    BY <1>5 DEF TrailRefuse
  <2> QED
    BY <2>1, <1>1 DEF TrailInv, TrailLogInv, TrailTypeOK, LatencyIsOwn, TrailCallIsLogged,
      EntriesArePostedOnce, TrailBatches
<1>6. ASSUME NEW batch \in trailNet, TrailArrive(batch) PROVE TrailInv'
  <2>1. /\ trailNet' = trailNet \ {batch}
        /\ \/ trailReceived' = trailReceived \cup {batch} /\ UNCHANGED trailLost
           \/ trailLost' = trailLost \cup {batch} /\ UNCHANGED trailReceived
        /\ UNCHANGED <<trailLog, trailBuffer, trailPending, trailCall>>
    BY <1>6 DEF TrailArrive
  <2>2. TrailLogInv'
    BY <1>1, <2>1 DEF TrailLogInv, TrailTypeOK, LatencyIsOwn, TrailCallIsLogged
  <2>3. TrailBatches' = TrailBatches
    BY <2>1 DEF TrailBatches
  <2>4. /\ trailNet' \cap (trailReceived' \cup trailLost') = {}
        /\ trailReceived' \cap trailLost' = {}
    BY <1>1, <2>1 DEF EntriesArePostedOnce
  <2>5. EntriesArePostedOnce'
    BY <1>1, <2>1, <2>3, <2>4 DEF EntriesArePostedOnce
  <2> QED
    BY <2>2, <2>5 DEF TrailInv
<1>7. CASE UNCHANGED trailVars
  BY <1>7, <1>1 DEF trailVars, TrailInv, TrailLogInv, TrailTypeOK, LatencyIsOwn,
    TrailCallIsLogged, EntriesArePostedOnce, TrailBatches
<1> QED
  BY <1>3, <1>4, <1>5, <1>6, <1>7 DEF TrailNext

\* The plugin's entries, batches and starts have their types.
THEOREM TrailTypeCorrect == TrailSpec => []TrailTypeOK
<1>1. TrailInv => TrailTypeOK
  BY DEF TrailInv, TrailLogInv
<1> QED
  BY <1>1, TrailInvInit, TrailInvNext, PTL DEF TrailSpec

\* Whatever calls are refused or fail and whatever batches are late or lost, no entry of
\* the audit trail is posted twice, and a result's latency is that of its own call.
THEOREM TrailIsSound == TrailSpec => [](EntriesArePostedOnce /\ LatencyIsOwn)
<1>1. TrailInv => EntriesArePostedOnce /\ LatencyIsOwn
  BY DEF TrailInv, TrailLogInv
<1> QED
  BY <1>1, TrailInvInit, TrailInvNext, PTL DEF TrailSpec

-------------------------------------------------------------------------------
(* The compliance export. *)

\* Once the request has read the runs, what it found is the customer's and in its range,
\* and its rows are rows of those runs.
ExportReadIsOwn ==
  /\ exportStage = "runs" =>
       ExportInRange(exportAsked.from, exportAsked.to) /\ exportGot = {}
  /\ exportStage \in {"spans", "logs", "audit", "answered"} =>
       /\ ExportInRange(exportAsked.from, exportAsked.to)
       /\ exportFound \subseteq ExportSelected
       /\ \A row \in exportGot : row.run \in exportFound

\* What it owes stays stored, and has been read for each table it is past.
ExportDueIsRead ==
  /\ exportDue \subseteq exportRows
  /\ \A row \in exportDue : row.run \in exportFound /\ row.table \in exportAsked.include
  /\ exportStage \in {"logs", "audit", "answered"} =>
       \A row \in exportDue : row.table = "spans" => row \in exportGot
  /\ exportStage \in {"audit", "answered"} =>
       \A row \in exportDue : row.table = "logs" => row \in exportGot

ExportInv == ExportTypeOK /\ ExportReadIsOwn /\ ExportDueIsRead

\* The last instant of a day is an instant of that day: less than a day after to.
LEMMA ExportUntilIsNear ==
  ASSUME NEW to \in Nat PROVE ExportUntil(to) \in Int /\ ExportUntil(to) < to + ExportDay
<1>1. ExportDay \in Nat \ {0}
  BY ExportAssumption
<1> DEFINE q == to \div ExportDay
<1>2. q \in Int /\ ExportDay * q <= to
  BY <1>1
<1>3. q * ExportDay = ExportDay * q
  BY <1>1, <1>2
<1>4. ExportUntil(to) = q * ExportDay + ExportDay - 1
  BY DEF ExportUntil
<1> HIDE DEF q
<1>5. ExportDay * q \in Int
  BY <1>1, <1>2
<1> QED
  BY <1>1, <1>2, <1>3, <1>4, <1>5

\* The invariant gives what an answer promises.
LEMMA ExportInvImplies == ExportInv => ExportIsOwn /\ ExportIsComplete
<1> SUFFICES ASSUME ExportInv PROVE ExportIsOwn /\ ExportIsComplete
  OBVIOUS
<1>1. CASE exportStage # "answered"
  BY <1>1 DEF ExportIsOwn, ExportIsComplete
<1>2. CASE exportStage = "answered"
  <2> DEFINE from == exportAsked.from
             to == exportAsked.to
             cap == ExportMaxDays * ExportDay
  <2>1. /\ to - from <= cap /\ exportFound \subseteq ExportSelected
        /\ \A row \in exportGot : row.run \in exportFound
    BY <1>2 DEF ExportInv, ExportReadIsOwn, ExportInRange
  <2>2. /\ from \in Nat /\ to \in Nat /\ cap \in Int
        /\ ExportDay \in Nat /\ ExportMaxDays \in Nat
        /\ \A r \in ExportRunIds : exportRuns[r].at \in Nat
    <3>1. /\ from \in ExportInstants /\ to \in ExportInstants
          /\ \A r \in ExportRunIds : exportRuns[r].at \in ExportInstants
      BY DEF ExportInv, ExportTypeOK
    <3> QED
      BY <3>1, ExportAssumption DEF ExportInstants
  <2>3. ExportListed \subseteq exportFound
    BY <2>1 DEF ExportListed, ExportAnswer
  <2>4. \A r \in exportFound :
          /\ r \in ExportRunIds /\ exportRuns[r].owner = "own"
          /\ from <= exportRuns[r].at /\ exportRuns[r].at <= ExportUntil(to)
    BY <2>1 DEF ExportSelected
  <2>5. ExportUntil(to) \in Int /\ ExportUntil(to) < to + ExportDay
    BY <2>2, ExportUntilIsNear
  <2>6. (ExportMaxDays + 1) * ExportDay = cap + ExportDay
    BY <2>2
  <2> HIDE DEF from, to, cap
  <2>7. ASSUME NEW r1 \in ExportListed, NEW r2 \in ExportListed
        PROVE  exportRuns[r1].at - exportRuns[r2].at < cap + ExportDay
    <3>1. /\ exportRuns[r1].at \in Nat /\ exportRuns[r2].at \in Nat
          /\ exportRuns[r1].at <= ExportUntil(to) /\ from <= exportRuns[r2].at
      BY <2>2, <2>3, <2>4
    <3> QED
      BY <3>1, <2>1, <2>2, <2>5
  <2>8. ExportIsOwn
    BY <2>2, <2>3, <2>4, <2>6, <2>7 DEF ExportIsOwn, from
  <2>9. ExportIsComplete
    <3>1. \A row \in exportDue :
            /\ row.table \in ExportTables
            /\ row.table = "spans" => row \in exportGot
            /\ row.table = "logs" => row \in exportGot
      BY <1>2 DEF ExportInv, ExportDueIsRead, ExportTypeOK
    <3> QED
      BY <3>1 DEF ExportIsComplete, ExportAnswer, ExportTables
  <2> QED
    BY <2>8, <2>9
<1> QED
  BY <1>1, <1>2

\* It holds before the first request.
LEMMA ExportInvInit == ExportInit => ExportInv
<1> SUFFICES ASSUME ExportInit PROVE ExportInv
  OBVIOUS
<1>1. 0 \in ExportInstants
  BY ExportAssumption DEF ExportInstants
<1>2. ExportTypeOK
  BY <1>1 DEF ExportInit, ExportTypeOK, ExportStages
<1>3. ExportReadIsOwn /\ ExportDueIsRead
  BY DEF ExportInit, ExportReadIsOwn, ExportDueIsRead
<1> QED
  BY <1>2, <1>3 DEF ExportInv

\* What the ingest route stores meanwhile keeps it: runs stay as they are.
LEMMA ExportStoreKeepsInv ==
  ASSUME ExportInv, NEW r \in ExportRunIds,
         \/ \E owner \in {"own", "other"}, at \in ExportStarts : ExportStoreRun(r, owner, at)
         \/ \E table \in ExportTables : ExportStoreRow(table, r)
  PROVE  ExportInv'
<1>1. ASSUME NEW owner \in {"own", "other"}, NEW at \in ExportStarts,
             ExportStoreRun(r, owner, at)
      PROVE  ExportInv'
  <2>1. /\ exportRuns[r].owner = "none"
        /\ exportRuns' = [exportRuns EXCEPT ![r] = [owner |-> owner, at |-> at]]
        /\ UNCHANGED <<exportRows, ExportRequest>>
    BY <1>1 DEF ExportStoreRun
  <2>2. at \in ExportInstants
    BY ExportAssumption DEF ExportInstants
  <2>3. exportRuns \in
          [ExportRunIds -> [owner : {"none", "own", "other"}, at : ExportInstants]]
    BY DEF ExportInv, ExportTypeOK
  <2>4. exportRuns' \in
          [ExportRunIds -> [owner : {"none", "own", "other"}, at : ExportInstants]]
    BY <2>1, <2>2, <2>3
  <2>5. \A s \in ExportRunIds : exportRuns[s].owner = "own" => exportRuns'[s] = exportRuns[s]
    BY <2>1, <2>3
  <2>6. exportAsked' = exportAsked
    BY <2>1 DEF ExportRequest
  <2>7. ExportSelected \subseteq ExportSelected'
    BY <2>5, <2>6 DEF ExportSelected
  <2>8. ExportTypeOK'
    BY <2>1, <2>4 DEF ExportInv, ExportTypeOK, ExportRequest
  <2>9. ExportReadIsOwn'
    BY <2>1, <2>7 DEF ExportInv, ExportReadIsOwn, ExportRequest
  <2>10. ExportDueIsRead'
    BY <2>1 DEF ExportInv, ExportDueIsRead, ExportRequest
  <2> QED
    BY <2>8, <2>9, <2>10 DEF ExportInv
<1>2. ASSUME NEW table \in ExportTables, ExportStoreRow(table, r) PROVE ExportInv'
  <2>1. /\ exportRows' = exportRows \cup {[table |-> table, run |-> r]}
        /\ UNCHANGED <<exportRuns, ExportRequest>>
    BY <1>2 DEF ExportStoreRow
  <2>2. ExportTypeOK'
    BY <2>1 DEF ExportInv, ExportTypeOK, ExportRequest
  <2>3. ExportSelected' = ExportSelected
    BY <2>1 DEF ExportSelected, ExportRequest
  <2>4. ExportReadIsOwn'
    BY <2>1, <2>3 DEF ExportInv, ExportReadIsOwn, ExportRequest
  <2>5. ExportDueIsRead'
    BY <2>1 DEF ExportInv, ExportDueIsRead, ExportRequest
  <2> QED
    BY <2>2, <2>4, <2>5 DEF ExportInv
<1> QED
  BY <1>1, <1>2

\* Every statement of the request keeps it.
LEMMA ExportRequestKeepsInv ==
  ASSUME ExportInv,
         \/ \E from, to \in ExportDates, include \in ExportIncludes :
              ExportAsk(from, to, include)
         \/ ExportReadRuns \/ ExportReadSpans \/ ExportReadLogs \/ ExportAppendAudit
         \/ ExportRefuse
  PROVE  ExportInv'
<1>1. ExportTypeOK /\ ExportReadIsOwn /\ ExportDueIsRead
  BY DEF ExportInv
<1>2. ASSUME NEW from \in ExportDates, NEW to \in ExportDates, NEW include \in ExportIncludes,
             ExportAsk(from, to, include)
      PROVE  ExportInv'
  <2>1. /\ ExportInRange(from, to) /\ include \subseteq ExportValidIncludes
        /\ exportStage' = "runs"
        /\ exportAsked' = [from |-> from, to |-> to, include |-> ExportIncluded(include)]
        /\ exportFound' = {} /\ exportGot' = {} /\ exportDue' = {} /\ exportAudit' = "none"
        /\ UNCHANGED <<exportRuns, exportRows>>
    BY <1>2 DEF ExportAsk
  <2>2. from \in ExportInstants /\ to \in ExportInstants
    BY ExportAssumption DEF ExportInstants
  <2>3. ExportIncluded(include) \in SUBSET ExportValidIncludes
    BY <2>1 DEF ExportIncluded, ExportValidIncludes
  <2>4. ExportTypeOK'
    BY <1>1, <2>1, <2>2, <2>3 DEF ExportTypeOK, ExportStages
  <2>5. ExportReadIsOwn' /\ ExportDueIsRead'
    BY <2>1 DEF ExportReadIsOwn, ExportDueIsRead
  <2> QED
    BY <2>4, <2>5 DEF ExportInv
<1>3. CASE ExportReadRuns
  <2>1. /\ exportStage = "runs" /\ exportStage' = "spans" /\ exportFound' = ExportSelected
        /\ exportDue' = {row \in exportRows : /\ row.run \in ExportSelected
                                              /\ row.table \in exportAsked.include}
        /\ UNCHANGED <<exportRuns, exportRows, exportAsked, exportGot, exportAudit>>
    BY <1>3 DEF ExportReadRuns
  <2>2. ExportSelected \subseteq ExportRunIds /\ ExportSelected' = ExportSelected
    BY <2>1 DEF ExportSelected
  <2>3. ExportTypeOK'
    BY <1>1, <2>1, <2>2 DEF ExportTypeOK, ExportStages
  <2>4. ExportReadIsOwn' /\ ExportDueIsRead'
    BY <1>1, <2>1, <2>2 DEF ExportReadIsOwn, ExportDueIsRead
  <2> QED
    BY <2>3, <2>4 DEF ExportInv
<1>4. ASSUME NEW table \in ExportTables, ExportRead(table),
             UNCHANGED <<exportRuns, exportRows, exportAsked, exportFound, exportDue,
                         exportAudit>>,
             exportStage \in {"spans", "logs"}, exportStage' \in {"logs", "audit"}
      PROVE  /\ ExportTypeOK' /\ ExportReadIsOwn' /\ exportGot \subseteq exportGot'
             /\ \A row \in exportDue : row.table = table => row \in exportGot'
  <2>1. exportGot' = exportGot \cup (IF table \in exportAsked.include /\ exportFound # {}
                                     THEN ExportRowsOf(table, exportFound) ELSE {})
    BY <1>4 DEF ExportRead
  <2>2. ExportRowsOf(table, exportFound) \subseteq exportRows
    BY DEF ExportRowsOf
  <2>3. ExportTypeOK'
    BY <1>1, <1>4, <2>1, <2>2 DEF ExportTypeOK, ExportStages
  <2>4. \A row \in exportGot' : row.run \in exportFound
    BY <1>1, <1>4, <2>1 DEF ExportReadIsOwn, ExportRowsOf
  <2>5. ExportReadIsOwn'
    BY <1>1, <1>4, <2>4 DEF ExportReadIsOwn, ExportSelected
  <2>6. \A row \in exportDue : row.table = table => row \in exportGot'
    BY <1>1, <2>1 DEF ExportDueIsRead, ExportRowsOf
  <2> QED
    BY <2>1, <2>3, <2>5, <2>6
<1>5. CASE ExportReadSpans
  <2>1. /\ exportStage = "spans" /\ exportStage' = "logs" /\ ExportRead("spans")
        /\ UNCHANGED <<exportRuns, exportRows, exportAsked, exportFound, exportDue,
                       exportAudit>>
    BY <1>5 DEF ExportReadSpans
  <2>2. "spans" \in ExportTables
    BY DEF ExportTables
  <2>3. /\ ExportTypeOK' /\ ExportReadIsOwn' /\ exportGot \subseteq exportGot'
        /\ \A row \in exportDue : row.table = "spans" => row \in exportGot'
    BY <2>1, <2>2, <1>4
  <2>4. ExportDueIsRead'
    BY <1>1, <2>1, <2>3 DEF ExportDueIsRead
  <2> QED
    BY <2>3, <2>4 DEF ExportInv
<1>6. CASE ExportReadLogs
  <2>1. /\ exportStage = "logs" /\ exportStage' = "audit" /\ ExportRead("logs")
        /\ UNCHANGED <<exportRuns, exportRows, exportAsked, exportFound, exportDue,
                       exportAudit>>
    BY <1>6 DEF ExportReadLogs
  <2>2. "logs" \in ExportTables
    BY DEF ExportTables
  <2>3. /\ ExportTypeOK' /\ ExportReadIsOwn' /\ exportGot \subseteq exportGot'
        /\ \A row \in exportDue : row.table = "logs" => row \in exportGot'
    BY <2>1, <2>2, <1>4
  <2>4. ExportDueIsRead'
    BY <1>1, <2>1, <2>3 DEF ExportDueIsRead
  <2> QED
    BY <2>3, <2>4 DEF ExportInv
<1>7. CASE ExportAppendAudit
  <2>1. /\ exportStage = "audit" /\ exportStage' = "answered"
        /\ exportAudit' \in {"written", "failed"}
        /\ UNCHANGED <<exportRuns, exportRows, exportAsked, exportFound, exportGot, exportDue>>
    BY <1>7 DEF ExportAppendAudit
  <2>2. ExportTypeOK'
    BY <1>1, <2>1 DEF ExportTypeOK, ExportStages
  <2>3. ExportReadIsOwn' /\ ExportDueIsRead'
    BY <1>1, <2>1 DEF ExportReadIsOwn, ExportDueIsRead, ExportSelected
  <2> QED
    BY <2>2, <2>3 DEF ExportInv
<1>8. CASE ExportRefuse
  <2>1. /\ exportStage' = "refused"
        /\ exportAsked' = [from |-> 0, to |-> 0, include |-> {}]
        /\ exportFound' = {} /\ exportGot' = {} /\ exportDue' = {} /\ exportAudit' = "none"
        /\ UNCHANGED <<exportRuns, exportRows>>
    BY <1>8 DEF ExportRefuse
  <2>2. 0 \in ExportInstants
    BY ExportAssumption DEF ExportInstants
  <2>3. ExportTypeOK'
    BY <1>1, <2>1, <2>2 DEF ExportTypeOK, ExportStages
  <2>4. ExportReadIsOwn' /\ ExportDueIsRead'
    BY <2>1 DEF ExportReadIsOwn, ExportDueIsRead
  <2> QED
    BY <2>3, <2>4 DEF ExportInv
<1> QED
  BY <1>2, <1>3, <1>5, <1>6, <1>7, <1>8

\* Every step keeps it.
LEMMA ExportInvNext == ExportInv /\ [ExportNext]_exportVars => ExportInv'
<1>1. ASSUME ExportInv, UNCHANGED exportVars PROVE ExportInv'
  BY <1>1 DEF exportVars, ExportInv, ExportTypeOK, ExportReadIsOwn, ExportDueIsRead,
    ExportSelected
<1> QED
  BY <1>1, ExportStoreKeepsInv, ExportRequestKeepsInv DEF ExportNext

\* The tables and the request have their types.
THEOREM ExportTypeCorrect == ExportSpec => []ExportTypeOK
<1>1. ExportInv => ExportTypeOK
  BY DEF ExportInv
<1> QED
  BY <1>1, ExportInvInit, ExportInvNext, PTL DEF ExportSpec

\* Whatever the ingest route stores between its statements, an answered export lists only
\* the customer's runs of the range and their rows, and all rows stored when it began.
THEOREM ExportIsSound == ExportSpec => [](ExportIsOwn /\ ExportIsComplete)
<1> QED
  BY ExportInvImplies, ExportInvInit, ExportInvNext, PTL DEF ExportSpec

-------------------------------------------------------------------------------
(* The five side by side. *)

\* Each step is a step of one part and leaves the others alone.
LEMMA DeliveryParts ==
  /\ DeliveryInit => HttpInit /\ OrderInit /\ CloudInit /\ TrailInit /\ ExportInit
  /\ [DeliveryNext]_deliveryVars =>
       /\ [HttpNext]_httpVars /\ [OrderNext]_orderVars /\ [CloudNext]_cloudVars
       /\ [TrailNext]_trailVars /\ [ExportNext]_exportVars
<1>1. DeliveryInit => HttpInit /\ OrderInit /\ CloudInit /\ TrailInit /\ ExportInit
  BY DEF DeliveryInit
<1>2. ASSUME DeliveryNext
      PROVE  /\ [HttpNext]_httpVars /\ [OrderNext]_orderVars /\ [CloudNext]_cloudVars
             /\ [TrailNext]_trailVars /\ [ExportNext]_exportVars
  BY <1>2 DEF DeliveryNext, OfHttp, OfOrders, OfTelemetry, OfTrail, OfExport
<1>3. ASSUME UNCHANGED deliveryVars
      PROVE  /\ UNCHANGED httpVars /\ UNCHANGED orderVars /\ UNCHANGED cloudVars
             /\ UNCHANGED trailVars /\ UNCHANGED exportVars
  BY <1>3 DEF deliveryVars
<1> QED
  BY <1>1, <1>2, <1>3

\* A behaviour of the five is one of each.
LEMMA DeliverySpecs ==
  DeliverySpec => HttpSpec /\ OrderSpec /\ CloudSpec /\ TrailSpec /\ ExportSpec
BY DeliveryParts, PTL DEF DeliverySpec, HttpSpec, OrderSpec, CloudSpec, TrailSpec, ExportSpec

\* All that the five keep has its type.
THEOREM DeliveryTypeCorrect == DeliverySpec => []DeliveryTypeOK
BY DeliverySpecs, HttpTypeCorrect, OrderTypeCorrect, CloudTypeCorrect, TrailTypeCorrect,
   ExportTypeCorrect, PTL DEF DeliveryTypeOK

\* What the parts record is sent, kept and handed over soundly when they are composed.
THEOREM DeliveryRecords == DeliverySpec => []RecordsAreSound
BY DeliverySpecs, CloudIngestIsSound, TrailIsSound, ExportIsSound, PTL DEF RecordsAreSound

\* The rate is kept and the orders' events are sound when the parts are composed.
THEOREM DeliveryIsSound == DeliverySpec => []RateIsKept /\ OrderEventsAreSound
BY DeliverySpecs, HttpRateIsKept, OrderEventsSound
===============================================================================
