----------------------------- MODULE AgentLoop -----------------------------
(***************************************************************************)
(* The agent loop of one Pipe and of the sub-agents its tool calls start:  *)
(* the provider calls with their gate, retries and fallback models, the    *)
(* budget ledger they share, the batches of tool calls, the repair of a    *)
(* result that breaks its schema, and the suspension for an approval       *)
(* (internal/harness, internal/tools/executor.go, subagent_runtime.go).    *)
(*                                                                         *)
(* A provider call costs one token of the budget. A tool call is "read"    *)
(* (read-only or idempotent), "effect" (side-effecting), "gated" (requires *)
(* approval) or "sub" (a sub-agent).                                       *)
(***************************************************************************)
EXTENDS Integers, Sequences, FiniteSets

CONSTANTS Subs,          \* sub-agents, each the i-th sub call of a batch
          Batches,       \* tool-call batches the model may answer with to the main agent
          SubBatches,    \* and to a sub-agent
          MaxTokens,     \* Budget.MaxTokens
          MaxIterations, \* Budget.MaxIterations
          Retries,       \* Retry.ProviderRetries
          Models,        \* the primary model and its fallbacks
          Repairs,       \* schema repair attempts
          GateLimit,     \* in-flight calls the provider gate admits
          MaxParallel    \* highest MaxParallel a sub-agent declares

Kinds == {"read", "effect", "gated", "sub"}

AgentConstants ==
  /\ IsFiniteSet(Subs) /\ "main" \notin Subs
  /\ Batches \subseteq Seq(Kinds) /\ SubBatches \subseteq Seq(Kinds)
  /\ GateLimit \in Nat \ {0} /\ MaxParallel \in Nat \ {0}
  /\ MaxTokens \in Nat \ {0} /\ MaxIterations \in Nat \ {0} /\ Retries \in Nat
  /\ Models \in Nat \ {0} /\ Repairs \in Nat

VARIABLES agent,     \* the loop of each agent
          used,      \* tokens in the shared ledger
          parallel,  \* the concurrent invocations the sub-agent allows, fixed
          partialOK, \* the sub-agents are declared PartialOK, fixed
          schema,    \* the Pipe has a result schema, fixed
          cancelled  \* the context of the sub-agent group is cancelled

agentVars == <<agent, used, parallel, partialOK, schema, cancelled>>

Agents == {"main"} \cup Subs
LoopPCs == {"idle", "queued", "top", "gate", "calling", "callfailed", "tools", "group", "suspended",
            "completed", "failed", "truncated"}
Ended == {"completed", "failed", "truncated"}
\* A sub-agent that needs an approval ends as an error of its tool call.
SubEnded == Ended \cup {"suspended"}
Fresh(pc) ==
  [pc |-> pc, repairing |-> 0, iteration |-> 0, tries |-> 0, model |-> 1, retry |-> TRUE,
   calls |-> <<>>, at |-> 1, ran |-> 0, approved |-> FALSE, acted |-> FALSE, transient |-> FALSE]

AgentTypeOK ==
  /\ \A a \in Agents : agent[a] \in
       [pc : LoopPCs, repairing : 0..Repairs, iteration : 0..MaxIterations, tries : 0..Retries,
        model : 1..Models, retry : BOOLEAN, calls : Seq(Kinds), at : Nat, ran : 0..Retries + 1,
        approved : BOOLEAN, acted : BOOLEAN, transient : BOOLEAN]
  /\ used \in Nat /\ parallel \in 1..MaxParallel /\ partialOK \in BOOLEAN /\ schema \in BOOLEAN /\ cancelled \in BOOLEAN

AgentInit ==
  /\ agent = [a \in Agents |-> Fresh(IF a = "main" THEN "top" ELSE "idle")]
  /\ used = 0 /\ parallel \in 1..MaxParallel /\ partialOK \in BOOLEAN /\ schema \in BOOLEAN /\ cancelled = FALSE

Exceeded == used > MaxTokens
Now(a, loop) == agent' = [agent EXCEPT ![a] = loop]
Goes(a, pc) == Now(a, [agent[a] EXCEPT !.pc = pc])
\* finishExecution: an ended loop keeps only its status.
Ends(a, status) == Now(a, Fresh(status))
Fixed == UNCHANGED <<parallel, partialOK, schema>>
InFlight == Cardinality({a \in Agents : agent[a].pc = "calling"})

(***************************************************************************)
(* runLoop and the provider call.                                          *)
(***************************************************************************)
\* The ledger and the iterations are checked before a provider call is prepared.
BeginIteration(a) ==
  LET loop == agent[a] IN
  /\ loop.pc = "top"
  /\ IF loop.iteration >= MaxIterations \/ Exceeded
     THEN Ends(a, "truncated")
     ELSE Now(a, [loop EXCEPT !.pc = "gate", !.iteration = @ + 1, !.tries = 0, !.model = 1])
  /\ Fixed /\ UNCHANGED <<used, cancelled>>

\* A hook or the event store refuses an event, or the wall clock of the budget is over.
LoopStopsEarly(a) ==
  /\ agent[a].pc \in {"top", "gate", "tools"}
  /\ Ends(a, "failed") \/ Ends(a, "truncated")
  /\ Fixed /\ UNCHANGED <<used, cancelled>>

Acquire(a) ==
  /\ agent[a].pc = "gate" /\ InFlight < GateLimit
  /\ Goes(a, "calling")
  /\ Fixed /\ UNCHANGED <<used, cancelled>>

\* The call, or the wait for its slot, ends with an error; a cancelled one is not transient.
CallFails(a) ==
  /\ agent[a].pc \in {"gate", "calling"}
  /\ \E transient \in BOOLEAN :
       /\ transient => agent[a].pc = "calling"
       /\ Now(a, [agent[a] EXCEPT !.pc = "callfailed", !.transient = transient])
  /\ Fixed /\ UNCHANGED <<used, cancelled>>

Cancelled(a) == a \in Subs /\ cancelled
RetryAllowed(loop) == loop.retry \/ loop.repairing > 0

\* completeWithRetry, then completeWithFallback.
RetryCall(a) ==
  LET loop == agent[a] IN
  /\ loop.pc = "callfailed" /\ loop.transient /\ RetryAllowed(loop) /\ loop.tries < Retries
  /\ ~Cancelled(a)
  /\ Now(a, [loop EXCEPT !.pc = "gate", !.tries = @ + 1, !.transient = FALSE])
  /\ Fixed /\ UNCHANGED <<used, cancelled>>

\* What the repairs of a result spent is charged when the repair loop returns.
Charge(loop) == IF loop.repairing > 1 THEN used + loop.repairing - 1 ELSE used
EndsWith(a, pc, charged) ==
  /\ used' = charged
  /\ Ends(a, IF charged > MaxTokens /\ charged > used THEN "truncated" ELSE pc)

FallBack(a) ==
  LET loop == agent[a] IN
  /\ loop.pc = "callfailed"
  /\ loop.transient => ~RetryAllowed(loop) \/ loop.tries = Retries \/ Cancelled(a)
  /\ \/ /\ loop.transient /\ loop.model < Models /\ ~Cancelled(a)
        /\ Now(a, [loop EXCEPT !.pc = "gate", !.model = @ + 1, !.tries = 0, !.transient = FALSE]) /\ used' = used
     \/ /\ ~loop.transient \/ loop.model = Models \/ Cancelled(a)
        /\ EndsWith(a, "failed", Charge(loop))
  /\ Fixed /\ UNCHANGED cancelled

(***************************************************************************)
(* The answer.                                                             *)
(***************************************************************************)
Answered(a) == agent[a].pc = "calling" /\ agent[a].repairing = 0

\* The answer's event is refused: the loop fails before the ledger is charged.
AnswerUnrecorded(a) ==
  /\ Answered(a) /\ Ends(a, "failed")
  /\ Fixed /\ UNCHANGED <<used, cancelled>>

\* An answer that used up the budget, or the provider's own limit, truncates the run.
AnswerTruncated(a) ==
  /\ Answered(a) /\ used' = used + 1
  /\ Ends(a, "truncated")
  /\ Fixed /\ UNCHANGED cancelled

\* Mutant: the final answer is not checked against the ledger.
FinalAnswerUnchecked(a) ==
  /\ Answered(a) /\ used' = used + 1
  /\ \/ Ends(a, "completed")
     \/ schema /\ Repairs = 0 /\ Ends(a, "failed")
     \/ schema /\ Repairs > 0
        /\ Now(a, [agent[a] EXCEPT !.pc = "gate", !.repairing = 1, !.tries = 0, !.model = 1])
  /\ Fixed /\ UNCHANGED cancelled

\* A final text completes the run, or fails its schema with no repair allowed.
FinalAnswer(a) ==
  /\ Answered(a) /\ used' = used + 1 /\ used' <= MaxTokens
  /\ \/ Ends(a, "completed")
     \/ schema /\ Repairs = 0 /\ Ends(a, "failed")
     \/ schema /\ Repairs > 0
        /\ Now(a, [agent[a] EXCEPT !.pc = "gate", !.repairing = 1, !.tries = 0, !.model = 1])
  /\ Fixed /\ UNCHANGED cancelled

\* The batch of calls; one that is not retry-safe ends the retries of provider calls.
RetrySafe(kind) == kind = "read"
\* Mutant: the last batch alone decides whether provider calls may be retried.
ToolAnswerForgets(a) ==
  /\ Answered(a) /\ used' = used + 1 /\ used' <= MaxTokens
  /\ \E calls \in (IF a = "main" THEN Batches ELSE SubBatches) :
       Now(a, [agent[a] EXCEPT !.pc = "tools", !.calls = calls, !.at = 1, !.ran = 0,
                               !.approved = FALSE, !.retry = TRUE])
  /\ Fixed /\ UNCHANGED cancelled

ToolAnswer(a) ==
  /\ Answered(a) /\ used' = used + 1 /\ used' <= MaxTokens
  /\ \E calls \in (IF a = "main" THEN Batches ELSE SubBatches) :
       Now(a, [agent[a] EXCEPT !.pc = "tools", !.calls = calls, !.at = 1, !.ran = 0,
                               !.approved = FALSE,
                               !.retry = @ /\ \A i \in 1..Len(calls) : RetrySafe(calls[i])])
  /\ Fixed /\ UNCHANGED cancelled

\* repairResult: the repaired text is valid, or another repair is tried, or they are used
\* up, or the answer calls tools.
RepairAnswer(a) ==
  LET loop == agent[a] IN
  /\ loop.pc = "calling" /\ loop.repairing > 0
  /\ \/ EndsWith(a, "completed", used + loop.repairing)
     \/ /\ loop.repairing < Repairs /\ used' = used
        /\ Now(a, [loop EXCEPT !.pc = "gate", !.repairing = @ + 1, !.tries = 0, !.model = 1])
     \/ EndsWith(a, "failed", used + loop.repairing)
     \/ Ends(a, "truncated") /\ used' = used + loop.repairing
  /\ Fixed /\ UNCHANGED cancelled

(***************************************************************************)
(* executeToolCalls.                                                       *)
(***************************************************************************)
Current(a) == agent[a].calls[agent[a].at]
HasCall(a, kinds) ==
  agent[a].pc = "tools" /\ agent[a].at <= Len(agent[a].calls) /\ Current(a) \in kinds
NextCall(loop) == [loop EXCEPT !.at = @ + 1, !.ran = 0, !.approved = FALSE]

\* authorizeToolCall records a pending approval and suspends the run.
Suspend(a) ==
  /\ HasCall(a, {"gated"}) /\ ~agent[a].approved
  /\ Goes(a, "suspended")
  /\ Fixed /\ UNCHANGED <<used, cancelled>>

\* resumeAfterApproval runs the suspended call and those after it.
Resume ==
  /\ agent["main"].pc = "suspended"
  /\ Now("main", [agent["main"] EXCEPT !.pc = "tools", !.approved = TRUE])
  /\ Fixed /\ UNCHANGED <<used, cancelled>>

MayRun(a) == /\ HasCall(a, {"read", "effect", "gated"})
             /\ Current(a) = "gated" => agent[a].approved
Invoked(a) == [agent[a] EXCEPT !.ran = @ + 1, !.acted = @ \/ ~RetrySafe(Current(a))]

\* The tool's body runs; its result, an error included, goes back to the model.
RunTool(a) ==
  /\ MayRun(a) /\ agent[a].ran <= Retries
  /\ Now(a, NextCall(Invoked(a)))
  /\ Fixed /\ UNCHANGED <<used, cancelled>>

\* executeWithRetry invokes a retry-safe tool again after a transient failure.
ToolFails(a) ==
  /\ MayRun(a) /\ RetrySafe(Current(a)) /\ agent[a].ran < Retries
  /\ Now(a, Invoked(a))
  /\ Fixed /\ UNCHANGED <<used, cancelled>>

\* Consecutive sub calls run as one group, each sub-agent in a slot of MaxParallel.
GroupEnd(loop) ==
  CHOOSE n \in loop.at..Len(loop.calls) :
    /\ \A i \in loop.at..n : loop.calls[i] = "sub"
    /\ n = Len(loop.calls) \/ loop.calls[n + 1] # "sub"
StartGroup ==
  LET loop == agent["main"] IN
  /\ HasCall("main", {"sub"})
  /\ \E group \in SUBSET Subs :
       /\ Cardinality(group) = GroupEnd(loop) - loop.at + 1
       /\ agent' = [a \in Agents |->
            IF a = "main" THEN [loop EXCEPT !.pc = "group", !.acted = TRUE]
            ELSE IF a \in group THEN Fresh("queued") ELSE agent[a]]
  /\ cancelled' = FALSE
  /\ Fixed /\ UNCHANGED used

Group == {a \in Subs : agent[a].pc # "idle"}
RunningSubs == {a \in Group : agent[a].pc \notin SubEnded \cup {"queued"}}

\* Mutant: an ended sub-agent does not give its slot back.
BeginSubSlotsKept(a) ==
  /\ agent[a].pc = "queued"
  /\ \/ Cardinality({b \in Group : agent[b].pc # "queued"}) < parallel /\ Goes(a, "top")
     \/ cancelled /\ Ends(a, "failed")
  /\ Fixed /\ UNCHANGED <<used, cancelled>>

BeginSub(a) ==
  /\ agent[a].pc = "queued"
  /\ \/ Cardinality(RunningSubs) < parallel /\ Goes(a, "top")
     \/ cancelled /\ Ends(a, "failed")
  /\ Fixed /\ UNCHANGED <<used, cancelled>>

\* The failure of a sub-agent that is not PartialOK cancels the others.
CancelGroup ==
  /\ ~partialOK /\ ~cancelled /\ cancelled' = TRUE
  /\ \E a \in Group : agent[a].pc \in SubEnded \ {"completed"}
  /\ Fixed /\ UNCHANGED <<agent, used>>

\* When all ended, a fatal failure ends the parent, as truncated if the ledger says why.
JoinGroup ==
  LET loop == agent["main"]
      fatal == ~partialOK /\ \E a \in Group : agent[a].pc # "completed"
  IN  /\ loop.pc = "group" /\ \A a \in Group : agent[a].pc \in SubEnded
      /\ agent' = [a \in Agents |->
           IF a # "main" THEN Fresh("idle")
           ELSE IF ~fatal THEN [NextCall(loop) EXCEPT !.pc = "tools", !.at = GroupEnd(loop) + 1]
           ELSE Fresh(IF Exceeded THEN "truncated" ELSE "failed")]
      /\ Fixed /\ UNCHANGED <<used, cancelled>>

\* After the batch the ledger is read again, for what the sub-agents spent.
EndBatch(a) ==
  /\ agent[a].pc = "tools" /\ agent[a].at > Len(agent[a].calls)
  /\ IF Exceeded THEN Ends(a, "truncated")
     ELSE Now(a, [agent[a] EXCEPT !.pc = "top", !.calls = <<>>, !.at = 1])
  /\ Fixed /\ UNCHANGED <<used, cancelled>>

CallStep(a) == \/ BeginIteration(a) \/ LoopStopsEarly(a) \/ Acquire(a) \/ CallFails(a)
               \/ RetryCall(a) \/ FallBack(a) \/ AnswerUnrecorded(a) \/ AnswerTruncated(a)
               \/ FinalAnswer(a) \/ ToolAnswer(a) \/ RepairAnswer(a)
ToolStep(a) == Suspend(a) \/ RunTool(a) \/ ToolFails(a) \/ EndBatch(a)
GroupStep == StartGroup \/ CancelGroup \/ JoinGroup

AgentNext ==
  \/ \E a \in Agents : CallStep(a) \/ ToolStep(a)
  \/ \E a \in Subs : BeginSub(a)
  \/ GroupStep \/ Resume

\* Goroutines run and the provider answers or fails; an operator may never approve.
AgentFairness ==
  /\ \A a \in Agents : SF_agentVars(CallStep(a)) /\ WF_agentVars(ToolStep(a))
  /\ \A a \in Subs : SF_agentVars(BeginSub(a))
  /\ WF_agentVars(StartGroup) /\ WF_agentVars(JoinGroup)

AgentSpec == AgentInit /\ [][AgentNext]_agentVars /\ AgentFairness

(***************************************************************************)
(* Properties.                                                             *)
(***************************************************************************)
\* The shared token budget holds across sub-agents that run in parallel: a run completes
\* only within it, and the calls already under way when it was used up, or the repairs
\* charged at their end, are all that can exceed it.
BudgetHeld ==
  /\ agent["main"].pc = "completed" => used <= MaxTokens
  /\ used <= MaxTokens + MaxParallel * (IF Repairs > 1 THEN Repairs ELSE 1)

\* Nothing a tool did is done again behind the model's back: a provider call is not
\* retried once a tool that is not retry-safe has run, and the body of such a tool runs
\* once in a batch, whatever suspension and resume there was.
EffectsNotRepeated ==
  \A a \in Agents :
    /\ agent[a].acted /\ agent[a].repairing = 0 /\ agent[a].pc \in {"gate", "calling"} =>
         agent[a].tries = 0
    /\ agent[a].pc = "tools" /\ agent[a].at <= Len(agent[a].calls) /\ agent[a].ran > 0 =>
         RetrySafe(Current(a))

\* A run ends or waits for an approval: the gate, the slots of the sub-agents and the
\* cancellation of a group leave nobody waiting for ever.
AgentsFinish == []<>(agent["main"].pc \in SubEnded)
=============================================================================
