---------------------------- MODULE LlmConversation ----------------------------
(***************************************************************************)
(* The conversation a run keeps, and how the LLM adapters put it to their  *)
(* providers.  A tool result carries the NAME of the tool; the adapters of *)
(* OpenAI, Ollama and Claude find the id of the call it answers with one   *)
(* queue of ids per name, Gemini's sends the name.  Texts and arguments    *)
(* are left out; a call is its id and name.                                *)
(***************************************************************************)
EXTENDS Integers, Sequences, SequencesExt

CONSTANTS
  LlmNames,            \* of tools
  LlmMaxIterations,
  LlmMaxCalls          \* of one response

ASSUME LlmAssumption == LlmMaxIterations \in Nat /\ LlmMaxCalls \in Nat

VARIABLES
  llmSetup,      \* the provider, and whether the run streams
  llmMessages,   \* the history; a tool message also records the call it answers
  llmAt,         \* "new", "ready", "asked", "tools", "done" or "failed"
  llmCalls,      \* asked: calls received; tools: calls still to be executed
  llmIssued,     \* ids given out by the provider
  llmIteration,
  llmSaved       \* history and iteration in the saved session; none has no messages

llmVars == <<llmSetup, llmMessages, llmAt, llmCalls, llmIssued, llmIteration, llmSaved>>

LlmProviders == {"openai", "ollama", "claude", "gemini"}
LlmIds == 1 .. (LlmMaxIterations * LlmMaxCalls)
LlmCallSet == [id : LlmIds, name : LlmNames]

LlmUser == [role |-> "user"]

LlmInit ==
  /\ llmSetup = [provider |-> "none", streams |-> FALSE]
  /\ llmMessages = <<>>
  /\ llmAt = "new"
  /\ llmCalls = <<>>
  /\ llmIssued = 0
  /\ llmIteration = 0
  /\ llmSaved = [messages |-> <<>>, iteration |-> 0]

LlmIsMessage(m) ==
  \/ m = LlmUser
  \/ m.role = "assistant" /\ m.calls \in Seq(LlmCallSet)
  \/ m.role = "tool" /\ m.name \in LlmNames /\ m.answers \in LlmIds

LlmTypeOK ==
  /\ llmSetup \in [provider : LlmProviders \cup {"none"}, streams : BOOLEAN]
  /\ \A k \in DOMAIN llmMessages : LlmIsMessage(llmMessages[k])
  /\ llmAt \in {"new", "ready", "asked", "tools", "done", "failed"}
  /\ llmCalls \in Seq(LlmCallSet)
  /\ llmIssued \in LlmIds \cup {0}
  /\ llmIteration \in 0 .. LlmMaxIterations
  /\ \A k \in DOMAIN llmSaved.messages : LlmIsMessage(llmSaved.messages[k])
  /\ llmSaved.iteration \in 0 .. LlmMaxIterations

-------------------------------------------------------------------------------
(* The request an adapter makes of a history, message by message. *)

\* Faulty variants, see AcpMerchant.
LlmTakes_Last(queue, name) ==
  CHOOSE i \in DOMAIN queue :
    queue[i].name = name /\ \A j \in (i + 1) .. Len(queue) : queue[j].name # name
LlmMerges_Never(out) == FALSE

\* The messages so far, and the calls whose results are still to come.
LlmStart == [out |-> <<>>, queue |-> <<>>]

LlmEnqueue(queue, calls) == queue \o calls
LlmAwaits(queue, name) == \E i \in DOMAIN queue : queue[i].name = name

\* The first call of that name is the head of its name's queue.
LlmTakes(queue, name) ==
  CHOOSE i \in DOMAIN queue :
    queue[i].name = name /\ \A j \in 1 .. i - 1 : queue[j].name # name

\* Claude's adapter adds a result to the user message of the results before it.
LlmMerges(out) == Last(out).role = "user" /\ Last(out).results # <<>>

LlmSay(out, role, calls, results) ==
  Append(out, [role |-> role, calls |-> calls, results |-> results])

\* The id a result is sent with: shifted from its name's queue.  The name, if the
\* queue is empty, and always with Gemini, stands for itself.
LlmResolve(provider, queue, name) ==
  IF provider = "gemini" \/ ~LlmAwaits(queue, name) THEN name
  ELSE queue[LlmTakes(queue, name)].id

LlmToolRole(provider) ==
  CASE provider = "claude" -> "user" [] provider = "gemini" -> "function"
    [] OTHER -> "tool"

LlmTranslateTool(provider, so, m) ==
  LET result == [id |-> LlmResolve(provider, so.queue, m.name), answers |-> m.answers] IN
    [out |-> IF provider = "claude" /\ LlmMerges(so.out)
             THEN [so.out EXCEPT ![Len(so.out)] =
                     [@ EXCEPT !.results = Append(so.out[Len(so.out)].results, result)]]
             ELSE LlmSay(so.out, LlmToolRole(provider), <<>>, <<result>>),
     queue |-> IF LlmAwaits(so.queue, m.name)
               THEN RemoveAt(so.queue, LlmTakes(so.queue, m.name)) ELSE so.queue]

LlmTranslateNext(provider, so, m) ==
  CASE m.role = "user" -> [so EXCEPT !.out = LlmSay(so.out, "user", <<>>, <<>>)]
    [] m.role = "assistant" -> [out |-> LlmSay(so.out, "assistant", m.calls, <<>>),
                                queue |-> LlmEnqueue(so.queue, m.calls)]
    [] m.role = "tool" -> LlmTranslateTool(provider, so, m)

\* What the adapter has after each message of the history.
LlmSofar(provider, messages) ==
  LET sofar[k \in 0 .. Len(messages)] ==
        IF k = 0 THEN LlmStart ELSE LlmTranslateNext(provider, sofar[k - 1], messages[k])
  IN sofar

LlmTranslate(provider, messages) == LlmSofar(provider, messages)[Len(messages)].out

-------------------------------------------------------------------------------
(* The run. *)

\* run() or runStream() with one of the adapters.
LlmBegin ==
  /\ llmAt = "new"
  /\ llmSetup' \in [provider : LlmProviders, streams : BOOLEAN]
  /\ llmMessages' = <<LlmUser>> /\ llmAt' = "ready"
  /\ UNCHANGED <<llmCalls, llmIssued, llmIteration, llmSaved>>

\* A run asks; or it ends, at its last iteration.
LlmAsk ==
  /\ llmAt = "ready"
  /\ IF llmIteration < LlmMaxIterations
     THEN llmAt' = "asked" /\ llmIteration' = llmIteration + 1
     ELSE llmAt' = "done" /\ UNCHANGED llmIteration
  /\ UNCHANGED <<llmSetup, llmMessages, llmCalls, llmIssued, llmSaved>>

\* A call arrives, in a chunk of the stream or in the one response.
LlmCallArrives ==
  /\ llmAt = "asked" /\ Len(llmCalls) < LlmMaxCalls /\ llmIssued + 1 \in LlmIds
  /\ \E n \in LlmNames :
       llmCalls' = Append(llmCalls, [id |-> llmIssued + 1, name |-> n])
  /\ llmIssued' = llmIssued + 1
  /\ UNCHANGED <<llmSetup, llmMessages, llmAt, llmIteration, llmSaved>>

\* The response is complete; without calls it is the answer.
LlmRespond ==
  /\ llmAt = "asked"
  /\ IF llmCalls = <<>>
     THEN llmAt' = "done" /\ UNCHANGED llmMessages
     ELSE /\ llmAt' = "tools"
          /\ llmMessages' = Append(llmMessages,
               [role |-> "assistant", calls |-> llmCalls])
  /\ UNCHANGED <<llmSetup, llmCalls, llmIssued, llmIteration, llmSaved>>

\* An OpenAI stream that ends without a finish_reason loses the calls it has
\* accumulated, and its text passes for the answer.
LlmCut ==
  /\ llmAt = "asked" /\ llmSetup.streams /\ llmSetup.provider \in {"openai", "ollama"}
  /\ llmAt' = "done" /\ llmCalls' = <<>>
  /\ UNCHANGED <<llmSetup, llmMessages, llmIssued, llmIteration, llmSaved>>

\* The request fails, or the arguments of a call do not parse.
LlmFail ==
  /\ llmAt = "asked"
  /\ llmAt' = "failed" /\ llmCalls' = <<>>
  /\ UNCHANGED <<llmSetup, llmMessages, llmIssued, llmIteration, llmSaved>>

\* run() saves once the tools of an iteration are done, runStream() never.
LlmSaves(messages, left) ==
  IF llmSetup.streams \/ left # <<>> THEN llmSaved
  ELSE [messages |-> messages, iteration |-> llmIteration]

LlmExecute ==
  /\ llmAt = "tools"
  /\ LET call == Head(llmCalls)
         messages == Append(llmMessages,
           [role |-> "tool", name |-> call.name, answers |-> call.id]) IN
       /\ llmMessages' = messages
       /\ llmCalls' = Tail(llmCalls)
       /\ llmSaved' = LlmSaves(messages, Tail(llmCalls))
  /\ llmAt' = IF Len(llmCalls) = 1 THEN "ready" ELSE "tools"
  /\ UNCHANGED <<llmSetup, llmIssued, llmIteration>>

\* The process dies, or run() is called again: it resumes the saved session.
LlmRestart ==
  /\ llmAt \in {"asked", "tools", "done", "failed"} /\ llmSaved.messages # <<>>
  /\ llmMessages' = llmSaved.messages /\ llmIteration' = llmSaved.iteration
  /\ llmAt' = "ready" /\ llmCalls' = <<>>
  /\ UNCHANGED <<llmSetup, llmIssued, llmSaved>>

LlmNext ==
  \/ LlmBegin \/ LlmAsk \/ LlmCallArrives \/ LlmRespond \/ LlmCut \/ LlmFail
  \/ LlmExecute \/ LlmRestart

LlmSpec == LlmInit /\ [][LlmNext]_llmVars

-------------------------------------------------------------------------------
(* Properties. *)

LlmRequest == LlmTranslate(llmSetup.provider, llmMessages)

\* A result as it should reach the provider: Gemini pairs by name, the others by id.
LlmAnswerTo(provider, call) ==
  [id |-> IF provider = "gemini" THEN call.name ELSE call.id, answers |-> call.id]

\* The calls of message q are answered in order by what follows: one message of results
\* with Claude, one for each call with the others; then comes something else.
LlmIsAnswered(provider, request, q) ==
  LET calls == request[q].calls
      next == q + 1 + (IF provider = "claude" THEN 1 ELSE Len(calls)) IN
    /\ next <= Len(request) + 1
    /\ IF provider = "claude"
       THEN request[q + 1].results =
              [i \in 1 .. Len(calls) |-> LlmAnswerTo(provider, calls[i])]
       ELSE \A i \in 1 .. Len(calls) :
              request[q + i].results = <<LlmAnswerTo(provider, calls[i])>>
    /\ next <= Len(request) => request[next].results = <<>>

\* In every request each call is answered, before anything else is said, by its own
\* result, although results carry only the name of the tool, a response may call one
\* tool twice, and the run may have been resumed.
EveryCallIsAnswered ==
  llmAt = "asked" =>
    LET request == LlmRequest IN
      \A q \in DOMAIN request :
        request[q].calls # <<>> => LlmIsAnswered(llmSetup.provider, request, q)

\* Claude's requests alternate between user and assistant, starting with the user.
ClaudeTurnsAlternate ==
  (llmAt = "asked" /\ llmSetup.provider = "claude") =>
    LET request == LlmRequest IN
      \A q \in DOMAIN request :
        request[q].role = IF q % 2 = 1 THEN "user" ELSE "assistant"
===============================================================================
