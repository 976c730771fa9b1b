-------------------------- MODULE ProviderStream --------------------------
(***************************************************************************)
(* The conversation of a run with a model, as it goes over the wire: the   *)
(* messages converted to the dialect of the provider, the answer read      *)
(* whole or frame by frame, its tool calls put together, run and answered, *)
(* a failure retried or taken to the next model, and the intents the       *)
(* journal of a durable run keeps of the calls                             *)
(* (internal/provider; completeWithFallback, completeWithRetry, complete   *)
(* and runLoop in internal/harness/harness.go; internal/tools/intent.go;   *)
(* durableReplayBlockingIntent in durable_recovery.go).                    *)
(* A frame of a stream is lost only with the ones after it, as on a TCP    *)
(* connection. AgentLoop shows the budget and DurableRun the replay.       *)
(***************************************************************************)
EXTENDS Integers, Sequences, SequencesExt, FiniteSets

CONSTANTS Chains,          \* sequences of dialects: the model and its fallbacks
          Answers,         \* sequences of tool kinds a model may ask for in one answer
          MaxText,         \* the limit of a response's text, in deltas
          MaxTurns,        \* the budget of iterations
          ProviderRetries, \* retries of a call
          MaxFaults        \* bound: failed requests and broken streams of a behaviour

Dialects == {"anthropic", "openai", "gemini", "bedrock", "ollama"}

\* The effects a tool declares: read-only, idempotent, side-effecting.
ToolKinds == {"read", "once", "effect"}

ProviderConstants ==
  /\ Chains \subseteq Seq(Dialects) \ {<<>>} /\ Answers \subseteq Seq(ToolKinds)
  /\ {MaxText, MaxTurns, ProviderRetries, MaxFaults} \subseteq Nat

VARIABLES setup,   \* [models, deltas, named]: the chain, whether deltas are streamed and whether
                   \* Gemini gives its calls an id
          talk,    \* the messages after the first: "assistant" ones with calls and "tool" ones
          call,    \* the model call in progress, see Idle
          got,     \* the answer as far as it was read, see Nothing
          tool,    \* [at, pc, approved]: the tool call in progress
          intents, \* the rows of the interrupted step: [id, kind, done]
          effects, \* history: side-effecting calls begun
          faults   \* faults so far

providerVars == <<setup, talk, call, got, tool, intents, effects, faults>>

Idle == [pc |-> "ready", turn |-> 0, model |-> 1, tries |-> 0, retry |-> TRUE, shown |-> 0]

\* What the server means to send, and what was read: text, fragments of each call, the order in
\* which the calls began, and whether the stream was cut.
Nothing == [sent |-> <<>>, reason |-> "", empty |-> FALSE, text |-> 0, parts |-> <<>>,
            began |-> <<>>, cut |-> FALSE, calls |-> <<>>, stop |-> "none"]

Ended == {"completed", "truncated", "failed"}

ProviderInit ==
  /\ setup \in [models : Chains, deltas : BOOLEAN, named : BOOLEAN]
  /\ talk = <<>> /\ call = Idle /\ got = Nothing
  /\ tool = [at |-> 1, pc |-> "next", approved |-> FALSE]
  /\ intents = {} /\ effects = 0 /\ faults = 0

At(pc) == call.pc = pc
Dialect == setup.models[call.model]
Goes(pc) == call' = [call EXCEPT !.pc = pc]

\* Implementers of StreamingProvider, when the harness streams.
Streams == setup.deltas /\ Dialect \in {"anthropic", "openai"}

----------------------------------------------------------------------------
\* Requests.

\* Assembled from fragments: a call begun without arguments has empty ones, which become {}, and one
\* with some of its fragments has arguments that are no JSON.
ArgsOf(parts) == CASE parts = 1 -> "none" [] parts = 2 -> "broken" [] OTHER -> "whole"

\* Arguments that are no JSON do not marshal, whatever the dialect.
Buildable == \A m \in Range(talk) : \A b \in Range(m.blocks) : b.args # "broken"

\* What a message says of tools, as the dialects put it: a call or a result, with what ties them.
Part(block, ref) == [what |-> block.what, ref |-> ref]
Parts(blocks, RefOf(_)) == [i \in DOMAIN blocks |-> Part(blocks[i], RefOf(blocks[i]))]

\* tool_use and tool_result by id, the results in a message of the user.
AnthropicMessage(m) == Parts(m.blocks, LAMBDA b : <<b.id>>)

\* The calls of an assistant message, and a tool message for each result.
OpenAIMessages(m) ==
  FlattenSeq([i \in DOMAIN m.blocks |-> Parts(SubSeq(m.blocks, i, i), LAMBDA b : <<b.id>>)])

\* functionCall and functionResponse by id and name.
GeminiContent(m) == Parts(m.blocks, LAMBDA b : <<b.kind, b.id>>)

\* toolUse and toolResult by id.
BedrockMessage(m) == Parts(m.blocks, LAMBDA b : <<b.id>>)

\* Calls without ids, and results by the name of the tool.
OllamaMessage(m) == Parts(m.blocks, LAMBDA b : <<b.kind>>)

WireMessage(m) ==
  CASE Dialect = "anthropic" -> AnthropicMessage(m)
    [] Dialect = "openai"    -> OpenAIMessages(m)
    [] Dialect = "gemini"    -> GeminiContent(m)
    [] Dialect = "bedrock"   -> BedrockMessage(m)
    [] Dialect = "ollama"    -> OllamaMessage(m)

Wire == FlattenSeq([i \in DOMAIN talk |-> WireMessage(talk[i])])

\* runLoop: an iteration within the budget asks the model and its fallbacks afresh.
Ask ==
  /\ At("ready")
  /\ IF call.turn = MaxTurns THEN Goes("truncated")
     ELSE call' = [call EXCEPT !.pc = IF Buildable THEN "asked" ELSE "failed",
                               !.turn = @ + 1, !.model = 1, !.tries = 0, !.shown = 0]
  /\ got' = Nothing
  /\ UNCHANGED <<setup, talk, tool, intents, effects, faults>>

\* statusError and transportError: the class of a failed request.
Classes == {"transient", "rate_limit", "auth", "validation", "permanent", "plain"}
IsTransient(class) == class \in {"transient", "rate_limit"}
ShouldFallback(class) == IsTransient(class) \/ class = "auth"

\* completeWithRetry and completeWithFallback.
Failure(class) ==
  /\ got' = Nothing
  /\ IF IsTransient(class) /\ call.retry /\ call.tries < ProviderRetries
     THEN call' = [call EXCEPT !.pc = "asked", !.tries = @ + 1]
     ELSE IF ShouldFallback(class) /\ call.model < Len(setup.models)
     THEN call' = [call EXCEPT !.pc = "asked", !.model = @ + 1, !.tries = 0]
     ELSE Goes("failed")

Fault == faults < MaxFaults /\ faults' = faults + 1

RequestFails ==
  /\ At("asked") /\ Fault
  /\ \E class \in Classes : Failure(class)
  /\ UNCHANGED <<setup, talk, tool, intents, effects>>

----------------------------------------------------------------------------
\* Answers.

\* Stop reasons on the wire, and what they mean: the end of the turn, which asks for the calls in the
\* answer if there are any, or the limit of tokens. Other reasons are refused.
Reasons == [anthropic |-> {"end_turn", "tool_use", "max_tokens", "refusal"},
            openai    |-> {"stop", "tool_calls", "length", "content_filter"},
            gemini    |-> {"STOP", "MAX_TOKENS", "SAFETY"},
            bedrock   |-> {"end_turn", "tool_use", "max_tokens", "guardrail_intervened"},
            ollama    |-> {"stop", "length", "load"}]

\* Mutant: an unknown reason is a normal end.
AnthropicStopReasonLenient(r) == IF r = "max_tokens" THEN "max" ELSE "end"

AnthropicStopReason(r) ==
  CASE r \in {"", "end_turn", "stop_sequence", "tool_use"} -> "end"
    [] r = "max_tokens" -> "max" [] OTHER -> "refused"
OpenAIStopReason(r) ==
  CASE r \in {"", "stop", "tool_calls", "function_call"} -> "end"
    [] r \in {"length", "model_length"} -> "max" [] OTHER -> "refused"
GeminiStopReason(r) ==
  CASE r \in {"", "STOP"} -> "end" [] r = "MAX_TOKENS" -> "max" [] OTHER -> "refused"
BedrockStopReason(r) ==
  CASE r \in {"", "end_turn", "stop_sequence", "tool_use"} -> "end"
    [] r = "max_tokens" -> "max" [] OTHER -> "refused"
OllamaStopReason(r) ==
  CASE r \in {"", "stop"} -> "end" [] r \in {"length", "max_tokens"} -> "max" [] OTHER -> "refused"

\* A call the model named: its id is of this answer only.
Named(i) == [what |-> "call", id |-> <<call.turn, i>>, kind |-> got.sent[i], args |-> "whole"]

\* A call that is numbered in its answer: the ids of the next answer are the same.
Numbered(i) == [what |-> "call", id |-> <<i>>, kind |-> got.sent[i], args |-> "whole"]

\* Whole responses: the calls and what the stop reason means. A response with nothing in it ends the
\* turn, but for the choices one of OpenAI must have and the candidates one of Gemini may lack.
AnthropicResponse ==
  [calls |-> [i \in DOMAIN got.sent |-> Named(i)], stop |-> AnthropicStopReason(got.reason)]
OpenAIResponse ==
  [calls |-> [i \in DOMAIN got.sent |-> Named(i)],
   stop |-> IF got.empty THEN "refused" ELSE OpenAIStopReason(got.reason)]
GeminiResponse ==
  [calls |-> [i \in DOMAIN got.sent |-> IF setup.named THEN Named(i) ELSE Numbered(i)],
   stop |-> IF got.empty THEN "end" ELSE GeminiStopReason(got.reason)]
BedrockResponse ==
  [calls |-> [i \in DOMAIN got.sent |-> Named(i)], stop |-> BedrockStopReason(got.reason)]
OllamaResponse ==
  [calls |-> [i \in DOMAIN got.sent |-> Numbered(i)], stop |-> OllamaStopReason(got.reason)]

\* The reason a stream that was read to its end gave.
StreamStop(reason) ==
  IF Dialect = "anthropic" THEN AnthropicStopReason(reason) ELSE OpenAIStopReason(reason)

\* A call as far as its fragments came.
Partial(i) == [Named(i) EXCEPT !.args = ArgsOf(got.parts[i])]

\* Mutant: the calls in the order in which they began.
AssembleAsBegun == [k \in DOMAIN got.began |-> Partial(got.began[k])]

\* The calls that began, in the order of their indexes.
Assemble ==
  LET indexes == SelectSeq([i \in DOMAIN got.parts |-> i], LAMBDA i : got.parts[i] > 0)
  IN [k \in DOMAIN indexes |-> Partial(indexes[k])]

\* Mutant: a stream that breaks is tried again.
StreamFailureRetried == Failure("transient")
\* A failure in mid-stream has no class: no retry and no other model repeats what was shown.
StreamFailure == Failure("plain")

\* A server that answers: the whole response, or the head of a stream.
Begin ==
  /\ At("asked")
  /\ \E sent \in Answers, reason \in Reasons[Dialect], empty \in BOOLEAN :
       /\ empty => sent = <<>>
       /\ got' = [Nothing EXCEPT !.sent = sent, !.reason = reason, !.empty = empty,
                                 !.parts = [i \in DOMAIN sent |-> 0]]
  /\ Goes(IF Streams THEN "streaming" ELSE "reading")
  /\ UNCHANGED <<setup, talk, tool, intents, effects, faults>>

\* A whole response is read; a broken one does not decode.
Reads(response) ==
  /\ \/ Fault /\ Failure("plain")
     \/ /\ IF response.stop = "refused" THEN Failure("plain")
           ELSE /\ Goes("answered")
                /\ got' = [got EXCEPT !.calls = response.calls, !.stop = response.stop]
        /\ UNCHANGED faults
  /\ UNCHANGED <<setup, talk, tool, intents, effects>>

AnthropicComplete == At("reading") /\ Dialect = "anthropic" /\ Reads(AnthropicResponse)
OpenAIComplete    == At("reading") /\ Dialect = "openai"    /\ Reads(OpenAIResponse)
GeminiComplete    == At("reading") /\ Dialect = "gemini"    /\ Reads(GeminiResponse)
BedrockComplete   == At("reading") /\ Dialect = "bedrock"   /\ Reads(BedrockResponse)
OllamaComplete    == At("reading") /\ Dialect = "ollama"    /\ Reads(OllamaResponse)

TooLong == got.text = MaxText

\* A text delta, shown as it arrives; one above the limit ends the stream.
TextDelta ==
  /\ At("streaming") /\ ~got.empty
  /\ IF TooLong THEN StreamFailure
     ELSE /\ got' = [got EXCEPT !.text = @ + 1]
          /\ call' = [call EXCEPT !.shown = @ + 1]
  /\ UNCHANGED <<setup, talk, tool, intents, effects, faults>>

\* A call begins, or a fragment of its arguments arrives; fragments of different calls mix.
CallDelta(i) ==
  /\ At("streaming") /\ got.parts[i] < 3
  /\ got' = [got EXCEPT !.parts[i] = @ + 1,
                        !.began = IF got.parts[i] = 0 THEN Append(@, i) ELSE @]
  /\ UNCHANGED <<setup, talk, call, tool, intents, effects, faults>>

\* scanSSE takes the end of the body for the end of the answer.
Close(reason, cut) ==
  IF StreamStop(reason) = "refused" THEN StreamFailure
  ELSE /\ Goes("answered")
       /\ got' = [got EXCEPT !.calls = Assemble, !.cut = cut, !.stop = StreamStop(reason)]

StreamEnds ==
  /\ At("streaming") /\ \A i \in DOMAIN got.parts : got.parts[i] = 3
  /\ Close(IF got.empty THEN "" ELSE got.reason, FALSE)
  /\ UNCHANGED <<setup, talk, tool, intents, effects, faults>>

\* A body that ends early is an answer without a stop reason; a broken connection is a failure.
StreamBreaks ==
  /\ At("streaming") /\ Fault
  /\ Close("", TRUE) \/ StreamFailure
  /\ UNCHANGED <<setup, talk, tool, intents, effects>>

\* runLoop on the answer.
RetrySafe(kind) == kind # "effect"

Take ==
  /\ At("answered")
  /\ IF got.stop = "max" THEN Goes("truncated") /\ UNCHANGED talk
     ELSE IF got.calls = <<>> THEN Goes("completed") /\ UNCHANGED talk
     ELSE /\ call' = [call EXCEPT !.pc = "tools",
                        !.retry = @ /\ \A c \in Range(got.calls) : RetrySafe(c.kind)]
          /\ talk' = Append(talk, [role |-> "assistant", blocks |-> got.calls])
  /\ tool' = [at |-> 1, pc |-> "next", approved |-> FALSE]
  /\ UNCHANGED <<setup, got, intents, effects, faults>>

----------------------------------------------------------------------------
\* Tools.

Current == got.calls[tool.at]
Row(c, done) == [id |-> c.id, kind |-> c.kind, done |-> done]

\* The row of an id is the row of its last call.
WithIntent(c, done) == {r \in intents : r.id # c.id} \cup {Row(c, done)}

\* Mutants: the row goes when its call is done; a second row says that it is done.
CompletedDropped(c) == {r \in intents : r.id # c.id}
CompletedAdded(c) == intents \cup {Row(c, TRUE)}
Completed(c) == WithIntent(c, TRUE)

\* A call that needs an approval parks the run.
Suspend ==
  /\ At("tools") /\ tool.pc = "next" /\ tool.at <= Len(got.calls)
  /\ Current.kind = "effect" /\ ~tool.approved
  /\ tool' = [tool EXCEPT !.pc = "parked"]
  /\ UNCHANGED <<setup, talk, call, got, intents, effects, faults>>

\* Mutant: the resume runs the calls of the answer from the first.
RestFromStart == 1
\* callsFromSuspended: the resume goes on from the call with the id that was parked.
Rest == CHOOSE i \in DOMAIN got.calls : /\ got.calls[i].id = Current.id
                                        /\ \A j \in 1..(i - 1) : got.calls[j].id # Current.id

Resume ==
  /\ At("tools") /\ tool.pc = "parked"
  /\ tool' = [at |-> Rest, pc |-> "next", approved |-> TRUE]
  /\ UNCHANGED <<setup, talk, call, got, intents, effects, faults>>

BeginTool ==
  /\ At("tools") /\ tool.pc = "next" /\ tool.at <= Len(got.calls)
  /\ tool' = [tool EXCEPT !.pc = "running"]
  /\ intents' = IF Current.kind = "read" THEN intents ELSE WithIntent(Current, FALSE)
  /\ effects' = IF Current.kind = "effect" THEN effects + 1 ELSE effects
  /\ UNCHANGED <<setup, talk, call, got, faults>>

\* The result, of a failed call too, is a message with the id of its call.
EndTool ==
  /\ At("tools") /\ tool.pc = "running"
  /\ intents' = IF Current.kind = "read" THEN intents ELSE Completed(Current)
  /\ talk' = Append(talk, [role |-> "tool", blocks |-> <<[Current EXCEPT !.what = "result",
                                                                      !.args = "whole"]>>])
  /\ tool' = [at |-> tool.at + 1, pc |-> "next", approved |-> FALSE]
  /\ UNCHANGED <<setup, call, got, effects, faults>>

ToolsDone ==
  /\ At("tools") /\ tool.pc = "next" /\ tool.at > Len(got.calls)
  /\ Goes("ready")
  /\ UNCHANGED <<setup, talk, got, tool, intents, effects, faults>>

RunOver == call.pc \in Ended /\ UNCHANGED providerVars

ProviderNext ==
  \/ Ask \/ RequestFails \/ Begin \/ TextDelta \/ StreamEnds \/ StreamBreaks \/ Take
  \/ \E i \in DOMAIN got.parts : CallDelta(i)
  \/ AnthropicComplete \/ OpenAIComplete \/ GeminiComplete \/ BedrockComplete \/ OllamaComplete
  \/ Suspend \/ Resume \/ BeginTool \/ EndTool \/ ToolsDone \/ RunOver

ProviderSpec == ProviderInit /\ [][ProviderNext]_providerVars

----------------------------------------------------------------------------
Blocks == [what : {"call", "result"}, id : Seq(Nat), kind : ToolKinds,
           args : {"none", "broken", "whole"}]

\* Types of the conversation, the call in progress and the journal's rows.
ProviderTypeOK ==
  /\ call.pc \in {"ready", "asked", "reading", "streaming", "answered", "tools"} \cup Ended
  /\ call.turn \in 0..MaxTurns /\ call.model \in DOMAIN setup.models
  /\ call.tries \in 0..ProviderRetries /\ call.shown \in Nat
  /\ got.calls \in Seq(Blocks) /\ got.text \in 0..MaxText
  /\ tool.pc \in {"next", "running", "parked"} /\ effects \in Nat
  /\ \A r, s \in intents : r.id = s.id => r = s

\* An answer that is taken is the one the model gave: its calls, each whole, in the order of their
\* indexes, unless the stream was cut, and then calls of the model all the same; one that ran into
\* the limit of tokens never passes for a finished one, and one the provider does not understand is
\* never taken. (decodeAnthropicStream, decodeOpenAICompatStream, the toProviderResponse functions
\* and the stop reason functions.)
AnswerIsWhatWasSent ==
  At("answered") =>
    LET kinds == [i \in DOMAIN got.calls |-> got.calls[i].kind]
    IN IF got.cut THEN Range(kinds) \subseteq Range(got.sent)
       ELSE /\ kinds = got.sent /\ \A c \in Range(got.calls) : c.args = "whole"
            /\ ~got.empty => /\ got.reason \notin {"refusal", "content_filter", "SAFETY",
                                                   "guardrail_intervened", "load"}
                             /\ (got.stop = "max") =
                                  (got.reason \in {"max_tokens", "length", "MAX_TOKENS"})

\* What was shown as the answer came in is the text of the answer that is taken: nothing of an
\* attempt that failed. (complete and completeWithRetry in harness.go; a failure after the first
\* byte of a stream is an unclassified error in anthropic_stream.go and openai_compat_stream.go.)
ShownIsAnswered == At("answered") => call.shown = got.text

\* In every request the results answer the calls before them, one each and in their order, in the
\* dialect of whichever model is asked, approvals and fallbacks included. (The functions that build
\* messages; callsFromSuspended in harness.go.)
Of(w, what) == SelectSeq(w, LAMBDA p : p.what = what)
RequestsArePaired ==
  At("asked") =>
    LET w == Wire
    IN /\ [i \in DOMAIN Of(w, "call") |-> Of(w, "call")[i].ref]
            = [i \in DOMAIN Of(w, "result") |-> Of(w, "result")[i].ref]
       /\ \A n \in DOMAIN w : Len(Of(SubSeq(w, 1, n), "result")) <= Len(Of(SubSeq(w, 1, n), "call"))

\* durableReplayBlockingIntent, over the rows of the interrupted step.
Blocked == \E r \in intents : ~r.done \/ r.kind # "once"

\* If the process dies now and a side-effecting call was begun, the recovery does not replay the
\* step. (durable_recovery.go: "a COMPLETED side_effecting intent means the effect happened and has
\* no dedup, so replaying the step would duplicate it - never auto-replay".)
EffectsBlockReplay == effects > 0 => Blocked

\* The same where every model gives its calls ids of their own.
NamedEffectsBlockReplay ==
  (\A m \in Range(setup.models) : m # "ollama" /\ (m = "gemini" => setup.named))
    => EffectsBlockReplay

\* An instance: one model whose dialect has no ids for calls; what an answer may call.
UnnamedCalls == {<<"ollama">>}
EffectThenIdempotent == {<<>>, <<"once">>, <<"effect">>}
=============================================================================
