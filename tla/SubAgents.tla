------------------------------ MODULE SubAgents ------------------------------
(***************************************************************************)
(* An AgentChain whose steps are sub-agents, each of which may delegate to *)
(* further sub-agents with invoke_sub_agent.  An invocation has a span of  *)
(* its own and gives the child its parent's tracer and onLog, wrapped to   *)
(* put the invocation's id on what the child reports.                      *)
(***************************************************************************)
EXTENDS Integers, Sequences, SequencesExt

CONSTANTS
  ChainLength,      \* steps
  ChainMaxDepth,    \* maxDepth
  ChainMaxStack,    \* bound: agents that wait for one another
  ChainMaxCalls     \* bound: invocations in all

\* A chain of no steps succeeds at once.
ASSUME ChainAssumption ==
  /\ ChainLength \in Nat \ {0} /\ ChainMaxDepth \in Nat
  /\ ChainMaxStack \in Nat /\ ChainMaxCalls \in Nat

VARIABLES
  chainStack,     \* invocations under way, the chain's own first
  chainIssued,    \* ids given out
  chainSpans,     \* invocations whose span is open
  chainReports,   \* spans and log events: who made them, how far down, whose id
                  \* they carry
  chainResults,   \* how the steps that ran ended
  chainEnd        \* "running", or how run() ended

chainVars ==
  <<chainStack, chainIssued, chainSpans, chainReports, chainResults, chainEnd>>

ChainIds == 1 .. ChainMaxCalls

ChainInit ==
  /\ chainStack = <<>> /\ chainIssued = 0
  /\ chainSpans = {} /\ chainReports = {}
  /\ chainResults = <<>> /\ chainEnd = "running"

\* depth is what the agent takes its own depth to be, stamp the id that what it reports
\* ends up with.
ChainTypeOK ==
  /\ chainStack \in Seq([id : ChainIds, depth : 0 .. ChainMaxDepth, stamp : ChainIds])
  /\ chainIssued \in 0 .. ChainMaxCalls /\ chainSpans \subseteq ChainIds
  /\ chainReports \subseteq
       [by : ChainIds, carries : ChainIds, level : 1 .. ChainMaxStack]
  /\ chainResults \in Seq({"succeeded", "failed", "threw"})
  /\ chainEnd \in {"running", "succeeded", "failed", "threw"}

-------------------------------------------------------------------------------
(* Faulty variants, see AcpMerchant. *)

ChainGoesOn_AfterFailures(outcome) == outcome # "threw"
ChainSpansAfter_ResultsOnly(outcome, id) ==
  IF outcome = "threw" THEN chainSpans ELSE chainSpans \ {id}

-------------------------------------------------------------------------------
(* runSubAgent. *)

\* Each wrapper sets its id on what goes through it, over the one that the wrappers
\* within set: the parent's own, if it has one, comes last.
ChainWrapped(parentStamp, id) == IF parentStamp = 0 THEN id ELSE parentStamp
ChainStamp == IF chainStack = <<>> THEN 0 ELSE Last(chainStack).stamp

ChainMayInvoke(parentDepth) == parentDepth + 1 <= ChainMaxDepth

\* The child knows its depth if its builder passes the context's on; the README's do
\* not, and then it starts again at 0.
ChainInvoke(parentDepth) ==
  /\ ChainMayInvoke(parentDepth)
  /\ chainIssued < ChainMaxCalls /\ Len(chainStack) < ChainMaxStack
  /\ chainIssued' = chainIssued + 1
  /\ \E depth \in {0, parentDepth + 1} :
       chainStack' = Append(chainStack,
         [id |-> chainIssued + 1, depth |-> depth,
          stamp |-> ChainWrapped(ChainStamp, chainIssued + 1)])
  /\ chainSpans' = chainSpans \cup {chainIssued + 1}

ChainReport ==
  /\ chainStack # <<>>
  /\ chainReports' = chainReports
       \cup {[by |-> Last(chainStack).id, carries |-> ChainStamp,
              level |-> Len(chainStack)]}
  /\ UNCHANGED <<chainStack, chainIssued, chainSpans, chainResults, chainEnd>>

\* invoke_sub_agent; beyond the depth it only returns an error to the LLM.
ChainDelegate ==
  /\ chainStack # <<>>
  /\ ChainInvoke(Last(chainStack).depth)
  /\ UNCHANGED <<chainReports, chainResults, chainEnd>>

-------------------------------------------------------------------------------
(* The chain. *)

ChainStep ==
  /\ chainStack = <<>> /\ chainEnd = "running" /\ Len(chainResults) < ChainLength
  /\ ChainInvoke(0)
  /\ UNCHANGED <<chainReports, chainResults, chainEnd>>

\* The span ends in a finally, also when build() or run() throws.
ChainSpansAfter(outcome, id) == chainSpans \ {id}
ChainGoesOn(outcome) == outcome = "succeeded"

\* What a step's agent throws, run() throws.  A delegated agent's outcome is a tool
\* result, whatever it is.
ChainReturn(outcome) ==
  /\ chainStack # <<>>
  /\ chainStack' = Front(chainStack)
  /\ chainSpans' = ChainSpansAfter(outcome, Last(chainStack).id)
  /\ IF Len(chainStack) = 1
     THEN /\ chainResults' = Append(chainResults, outcome)
          /\ chainEnd' = IF ~ChainGoesOn(outcome) THEN outcome
                         ELSE IF Len(chainResults) + 1 = ChainLength THEN "succeeded"
                         ELSE "running"
     ELSE UNCHANGED <<chainResults, chainEnd>>
  /\ UNCHANGED <<chainIssued, chainReports>>

ChainNext ==
  \/ ChainReport \/ ChainDelegate \/ ChainStep
  \/ \E outcome \in {"succeeded", "failed", "threw"} : ChainReturn(outcome)

ChainSpec == ChainInit /\ [][ChainNext]_chainVars

-------------------------------------------------------------------------------
(* Properties. *)

\* The chain succeeds exactly when every step has, and stops at the first that has
\* not, whatever happened further down.
ChainHalts ==
  /\ \A i \in 1 .. Len(chainResults) - 1 : chainResults[i] = "succeeded"
  /\ (chainEnd = "succeeded") <=>
       (Len(chainResults) = ChainLength /\ Last(chainResults) = "succeeded")

\* The spans open at any time are those of the agents at work: none is left open by
\* one that threw.
SpansAreNested == chainSpans = {chainStack[i].id : i \in DOMAIN chainStack}

\* What the agent of a step reports carries the id of its own invocation (header of
\* sub-agent.ts).  Of agents further down that does not hold, see the README.
StepsNameTheirReports == \A r \in chainReports : r.level = 1 => r.carries = r.by
===============================================================================
