------------------------------ MODULE AuditTrail ------------------------------
(***************************************************************************)
(* The audit-trail plugin with output "webhook": around every tool call it *)
(* logs an invocation and a result, and posts the entries in batches that  *)
(* it does not wait for.  The start of an invocation is kept by the name   *)
(* of the tool until its result is logged; a call that a later plugin      *)
(* refuses, or that throws, has no result.                                 *)
(***************************************************************************)
EXTENDS Integers, Sequences, FiniteSets

CONSTANTS
  TrailTools,
  TrailBatchSize,
  TrailMaxEntries     \* bound: entries of the log

ASSUME TrailAssumption ==
  TrailBatchSize \in Nat \ {0} /\ TrailMaxEntries \in Nat /\ "none" \notin TrailTools

VARIABLES
  trailLog,        \* the entries; an entry's place stands for its timestamp
  trailBuffer,     \* places of the entries that no request took yet
  trailPending,    \* per tool the start of its invocation, 0: none
  trailCall,       \* the call the agent is in, "none" between two
  trailNet,        \* batches that were posted and are under way,
  trailReceived,   \* that the webhook got
  trailLost        \* and that it did not

trailVars == <<trailLog, trailBuffer, trailPending, trailCall, trailNet,
               trailReceived, trailLost>>

TrailPlaces == 1 .. TrailMaxEntries
TrailEntries ==
  [tool : TrailTools, type : {"invocation", "result"}, start : 0 .. TrailMaxEntries]

TrailInit ==
  /\ trailLog = <<>> /\ trailBuffer = {}
  /\ trailPending = [t \in TrailTools |-> 0]
  /\ trailCall = "none"
  /\ trailNet = {} /\ trailReceived = {} /\ trailLost = {}

TrailTypeOK ==
  /\ trailLog \in Seq(TrailEntries) /\ Len(trailLog) <= TrailMaxEntries
  /\ trailBuffer \subseteq TrailPlaces
  /\ trailPending \in [TrailTools -> 0 .. TrailMaxEntries]
  /\ trailCall \in TrailTools \cup {"none"}
  /\ trailNet \subseteq SUBSET TrailPlaces
  /\ trailReceived \subseteq SUBSET TrailPlaces
  /\ trailLost \subseteq SUBSET TrailPlaces

-------------------------------------------------------------------------------
(* Faulty variants, see AcpMerchant. *)

TrailStarted_Once(t) ==
  IF trailPending[t] # 0 THEN trailPending
  ELSE [trailPending EXCEPT ![t] = Len(trailLog) + 1]
TrailKept_Whole(buffer) == buffer

-------------------------------------------------------------------------------
(* The hooks. *)

\* What stays in the buffer after an entry was pushed, and what is posted.
TrailFull(buffer) == Cardinality(buffer) >= TrailBatchSize
TrailKept(buffer) == IF TrailFull(buffer) THEN {} ELSE buffer
TrailPosted(buffer) == IF TrailFull(buffer) THEN {buffer} ELSE {}

TrailEmit(entry) ==
  LET buffer == trailBuffer \cup {Len(trailLog) + 1}
  IN /\ trailLog' = Append(trailLog, entry)
     /\ trailBuffer' = TrailKept(buffer)
     /\ trailNet' = trailNet \cup TrailPosted(buffer)
     /\ UNCHANGED <<trailReceived, trailLost>>

TrailStarted(t) == [trailPending EXCEPT ![t] = Len(trailLog) + 1]

\* onBeforeToolCall, when the plugins before this one have let the call pass.
TrailInvoke(t) ==
  /\ trailCall = "none" /\ Len(trailLog) < TrailMaxEntries
  /\ trailCall' = t
  /\ trailPending' = TrailStarted(t)
  /\ TrailEmit([tool |-> t, type |-> "invocation", start |-> 0])

\* A plugin after this one refuses the call, or the tool throws.
TrailRefuse ==
  /\ trailCall # "none"
  /\ trailCall' = "none"
  /\ UNCHANGED <<trailLog, trailBuffer, trailPending, trailNet, trailReceived, trailLost>>

\* onAfterToolCall: the latency is measured from the start kept for the tool.
TrailResult ==
  /\ trailCall # "none" /\ Len(trailLog) < TrailMaxEntries
  /\ trailCall' = "none"
  /\ trailPending' = [trailPending EXCEPT ![trailCall] = 0]
  /\ TrailEmit([tool |-> trailCall, type |-> "result", start |-> trailPending[trailCall]])

\* The batch arrives, in any order, or it does not: the failure is ignored.
TrailArrive(batch) ==
  /\ trailNet' = trailNet \ {batch}
  /\ \/ trailReceived' = trailReceived \cup {batch} /\ UNCHANGED trailLost
     \/ trailLost' = trailLost \cup {batch} /\ UNCHANGED trailReceived
  /\ UNCHANGED <<trailLog, trailBuffer, trailPending, trailCall>>

TrailNext ==
  \/ \E t \in TrailTools : TrailInvoke(t)
  \/ TrailRefuse \/ TrailResult
  \/ \E batch \in trailNet : TrailArrive(batch)

TrailSpec == TrailInit /\ [][TrailNext]_trailVars

-------------------------------------------------------------------------------
(* Properties. *)

TrailBatches == trailNet \cup trailReceived \cup trailLost

\* Each entry of the log is in one place: in the buffer, which never holds a whole
\* batch, or in one batch, which has exactly the size; no entry is posted twice.
EntriesArePostedOnce ==
  /\ trailBuffer \cup UNION TrailBatches = 1 .. Len(trailLog)
  /\ \A b \in TrailBatches : b \cap trailBuffer = {} /\ Cardinality(b) = TrailBatchSize
  /\ \A b1, b2 \in TrailBatches : b1 # b2 => b1 \cap b2 = {}
  /\ Cardinality(trailBuffer) < TrailBatchSize
  /\ trailNet \cap (trailReceived \cup trailLost) = {} /\ trailReceived \cap trailLost = {}

\* A result's latency is measured from the invocation right before it, of the same
\* tool, whatever starts earlier refused or failed calls of that tool left behind.
LatencyIsOwn ==
  \A i \in 1 .. Len(trailLog) :
    trailLog[i].type = "result" =>
      /\ i > 1 /\ trailLog[i].start = i - 1
      /\ trailLog[i - 1].type = "invocation" /\ trailLog[i - 1].tool = trailLog[i].tool
===============================================================================
