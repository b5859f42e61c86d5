---------------------------- MODULE CloudTelemetry ----------------------------
(***************************************************************************)
(* agorioCloud(), the telemetry handle an agent reports one run through,   *)
(* and the ingest route that stores what it sends.  Spans and log records  *)
(* are buffered and posted in batches nobody waits for, the start of the   *)
(* run is posted without waiting too, and requests arrive in any order or  *)
(* not at all.  The route admits a request by its API key, which it looks  *)
(* up in a cache first; a key can be revoked meanwhile.                    *)
(***************************************************************************)
EXTENDS Integers, FiniteSets

CONSTANTS
  CloudBatchSize,
  CloudKeyTtl,       \* KEY_CACHE_TTL_MS, in ticks
  CloudMaxEvents,    \* bound: spans and log records of the run
  CloudMaxTime       \* bound: the clock

ASSUME CloudAssumption ==
  /\ CloudBatchSize \in Nat \ {0} /\ CloudKeyTtl \in Nat \ {0}
  /\ CloudMaxEvents \in Nat /\ CloudMaxTime \in Nat \ {0}

VARIABLES
  cloudBuffer,     \* the handle: what each of its two buffers holds,
  cloudEmitted,    \* how many spans and log records there were,
  cloudRunState,   \* "new", "started", "draining", "ending" and "closed"
  cloudNet,        \* requests that no answer has come back for
  cloudTable,      \* trace_runs: "none", "in_progress" or "ended"
  cloudRows,       \* trace_spans and trace_logs
  cloudKey,        \* when the route's key cache lets the key expire, 0: not cached
  cloudRevokedAt,  \* when the key was revoked, 0: it was not
  cloudNow

cloudVars == <<cloudBuffer, cloudEmitted, cloudRunState, cloudNet, cloudTable,
               cloudRows, cloudKey, cloudRevokedAt, cloudNow>>

CloudChannels == {"spans", "logs"}
CloudEvents == 1 .. CloudMaxEvents

CloudInit ==
  /\ cloudBuffer = [ch \in CloudChannels |-> {}]
  /\ cloudEmitted = 0 /\ cloudRunState = "new"
  /\ cloudNet = {} /\ cloudTable = "none" /\ cloudRows = {}
  /\ cloudKey = 0 /\ cloudRevokedAt = 0 /\ cloudNow = 1

CloudTypeOK ==
  /\ cloudBuffer \in [CloudChannels -> SUBSET CloudEvents]
  /\ cloudEmitted \in 0 .. CloudMaxEvents
  /\ cloudRunState \in {"new", "started", "draining", "ending", "closed"}
  /\ cloudNet \subseteq [kind : {"run_start", "rows", "run_end"},
                         events : SUBSET CloudEvents,
                         at : {"sent", "looking", "known"},
                         since : 0 .. CloudMaxTime, drain : BOOLEAN]
  /\ cloudTable \in {"none", "in_progress", "ended"}
  /\ cloudRows \subseteq CloudEvents
  /\ cloudKey \in 0 .. (CloudMaxTime + CloudKeyTtl)
  /\ cloudRevokedAt \in 0 .. CloudMaxTime /\ cloudNow \in 1 .. CloudMaxTime

CloudServer == <<cloudTable, cloudRows, cloudKey, cloudRevokedAt, cloudNow>>

-------------------------------------------------------------------------------
(* Faulty variants, see AcpMerchant. *)

CloudFlushed_KeepsBuffer(chs) == cloudBuffer
CloudExpiry_FromAnswer(m) == cloudNow + CloudKeyTtl
CloudLose_Throws(m) ==
  /\ m.at = "sent"
  /\ cloudNet' = cloudNet \ {m}
  /\ cloudRunState' = IF m.drain THEN "started" ELSE cloudRunState
  /\ UNCHANGED <<cloudBuffer, cloudEmitted, cloudTable, cloudRows, cloudKey,
                 cloudRevokedAt, cloudNow>>

-------------------------------------------------------------------------------
(* The handle. *)

CloudRequest(kind, events, drain) ==
  [kind |-> kind, events |-> events, at |-> "sent", since |-> 0, drain |-> drain]

\* One request for each of the buffers chs that holds something.
CloudBatches(buffer, chs, drain) ==
  {CloudRequest("rows", buffer[ch], drain) : ch \in {c \in chs : buffer[c] # {}}}

\* The buffers after those of chs were spliced out.
CloudFlushed(chs) == [ch \in CloudChannels |-> IF ch \in chs THEN {} ELSE cloudBuffer[ch]]

\* The outermost span opens, or beginRun().
CloudRunStart ==
  /\ cloudRunState = "new"
  /\ cloudRunState' = "started"
  /\ cloudNet' = cloudNet \cup {CloudRequest("run_start", {}, FALSE)}
  /\ UNCHANGED <<cloudBuffer, cloudEmitted, CloudServer>>

\* A span ends or a record is logged; a full buffer is flushed.
CloudEmit(ch) ==
  /\ cloudRunState = "started" /\ cloudEmitted < CloudMaxEvents
  /\ cloudEmitted' = cloudEmitted + 1
  /\ LET buffer == [cloudBuffer EXCEPT ![ch] = @ \cup {cloudEmitted + 1}]
         full == Cardinality(buffer[ch]) >= CloudBatchSize
     IN /\ cloudBuffer' = IF full THEN [buffer EXCEPT ![ch] = {}] ELSE buffer
        /\ cloudNet' = IF full THEN cloudNet \cup CloudBatches(buffer, {ch}, FALSE)
                       ELSE cloudNet
  /\ UNCHANGED <<cloudRunState, CloudServer>>

\* flushAll(), from the interval timer or shutdown().
CloudFlush ==
  /\ cloudRunState # "closed"
  /\ \E ch \in CloudChannels : cloudBuffer[ch] # {}
  /\ cloudNet' = cloudNet \cup CloudBatches(cloudBuffer, CloudChannels, FALSE)
  /\ cloudBuffer' = CloudFlushed(CloudChannels)
  /\ UNCHANGED <<cloudEmitted, cloudRunState, CloudServer>>

\* onComplete(): the buffers are flushed and these posts are awaited.
CloudComplete ==
  /\ cloudRunState = "started"
  /\ cloudRunState' = "draining"
  /\ cloudNet' = cloudNet \cup CloudBatches(cloudBuffer, CloudChannels, TRUE)
  /\ cloudBuffer' = CloudFlushed(CloudChannels)
  /\ UNCHANGED <<cloudEmitted, CloudServer>>

CloudDrained == \A m \in cloudNet : ~m.drain

CloudRunEnd ==
  /\ cloudRunState = "draining" /\ CloudDrained
  /\ cloudRunState' = "ending"
  /\ cloudNet' = cloudNet \cup {CloudRequest("run_end", {}, FALSE)}
  /\ UNCHANGED <<cloudBuffer, cloudEmitted, CloudServer>>

CloudCompleted ==
  /\ cloudRunState = "ending" /\ \A m \in cloudNet : m.kind # "run_end"
  /\ cloudRunState' = "closed"
  /\ UNCHANGED <<cloudBuffer, cloudEmitted, cloudNet, CloudServer>>

CloudHandle == <<cloudBuffer, cloudEmitted, cloudRunState>>

-------------------------------------------------------------------------------
(* The ingest route. *)

CloudCached == cloudKey > cloudNow

CloudExpiry(m) == m.since + CloudKeyTtl

CloudInsert(m) ==
  CASE m.kind = "run_start" ->
         /\ cloudTable' = IF cloudTable = "none" THEN "in_progress" ELSE cloudTable
         /\ UNCHANGED cloudRows
    \* without the run's row the foreign key fails the insert: 500
    [] m.kind = "rows" ->
         /\ cloudRows' = IF cloudTable = "none" THEN cloudRows
                         ELSE cloudRows \cup m.events
         /\ UNCHANGED cloudTable
    \* an update of no row is no error
    [] m.kind = "run_end" ->
         /\ cloudTable' = IF cloudTable = "none" THEN "none" ELSE "ended"
         /\ UNCHANGED cloudRows

CloudAnswered(m) == cloudNet' = cloudNet \ {m}

CloudReceive(m) ==
  /\ m.at = "sent"
  /\ \/ CloudCached /\ CloudInsert(m) /\ CloudAnswered(m)
     \/ /\ ~CloudCached
        /\ cloudNet' = (cloudNet \ {m})
             \cup {[m EXCEPT !.at = "looking", !.since = cloudNow]}
        /\ UNCHANGED <<cloudTable, cloudRows>>
  /\ UNCHANGED <<CloudHandle, cloudKey, cloudRevokedAt, cloudNow>>

\* The key is read in the database, where a revoked one is not found.
CloudLookup(m) ==
  /\ m.at = "looking"
  /\ \/ /\ cloudRevokedAt = 0
        /\ cloudNet' = (cloudNet \ {m}) \cup {[m EXCEPT !.at = "known"]}
        /\ UNCHANGED cloudKey
     \/ /\ cloudRevokedAt # 0
        /\ cloudKey' = 0
        /\ CloudAnswered(m)
  /\ UNCHANGED <<CloudHandle, cloudTable, cloudRows, cloudRevokedAt, cloudNow>>

CloudAdmit(m) ==
  /\ m.at = "known"
  /\ cloudKey' = CloudExpiry(m)
  /\ CloudInsert(m) /\ CloudAnswered(m)
  /\ UNCHANGED <<CloudHandle, cloudRevokedAt, cloudNow>>

\* The request or its answer fails; post() only warns.
CloudLose(m) ==
  /\ m.at = "sent"
  /\ CloudAnswered(m)
  /\ UNCHANGED <<CloudHandle, CloudServer>>

CloudRevoke ==
  /\ cloudRevokedAt = 0
  /\ cloudRevokedAt' = cloudNow
  /\ UNCHANGED <<CloudHandle, cloudNet, cloudTable, cloudRows, cloudKey, cloudNow>>

CloudTick ==
  /\ cloudNow < CloudMaxTime
  /\ cloudNow' = cloudNow + 1
  /\ UNCHANGED <<CloudHandle, cloudNet, cloudTable, cloudRows, cloudKey, cloudRevokedAt>>

CloudServe == \E m \in cloudNet : CloudReceive(m) \/ CloudLookup(m) \/ CloudAdmit(m)

CloudNext ==
  \/ CloudRunStart \/ CloudFlush \/ CloudComplete \/ CloudRunEnd \/ CloudCompleted
  \/ \E ch \in CloudChannels : CloudEmit(ch)
  \/ CloudServe \/ \E m \in cloudNet : CloudLose(m)
  \/ CloudRevoke \/ CloudTick

CloudSpec == CloudInit /\ [][CloudNext]_cloudVars

-------------------------------------------------------------------------------
(* Properties. *)

CloudInFlight == UNION {m.events : m \in cloudNet}

\* A span or record is in one place: a buffer, one request, the database or, if
\* its request failed, none; overlapping flushes never send it twice.
EventsAreSentOnce ==
  /\ \A m1, m2 \in cloudNet : m1 # m2 => m1.events \cap m2.events = {}
  /\ \A ch \in CloudChannels : cloudBuffer[ch] \cap (CloudInFlight \cup cloudRows) = {}
  /\ CloudInFlight \cap cloudRows = {}

\* A revoked key is no longer admitted once the cache's lifetime has passed,
\* although a lookup may find it just before it is revoked and cache it later.
RevokedKeyExpires ==
  cloudRevokedAt # 0 => cloudKey <= cloudRevokedAt + CloudKeyTtl

\* The dashboard never shows an ended run before its child rows arrive (comment
\* in sendRunEnd).  Batches that were flushed earlier are not awaited.
EndedRunHasItsRows == cloudTable = "ended" => CloudInFlight = {}

\* onComplete() returns, whatever happens to what it posts.
CompletionReturns == cloudRunState = "draining" ~> cloudRunState = "closed"
===============================================================================
