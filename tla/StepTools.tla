----------------------------- MODULE StepTools -----------------------------
(***************************************************************************)
(* The tools of a step: an executor of its own is filled with the Go       *)
(* functions, the Bash, the sub-agents and the tools of the MCP servers of *)
(* the step; the harness runs with it; the sessions with the servers are   *)
(* closed when the harness returns, be it with an answer, an error or a    *)
(* suspension (runStepsResult and registerStepTools in http_runtime.go,    *)
(* subagent_runtime.go, runtime_bash.go, http_runtime_skills.go,           *)
(* internal/mcpclient, internal/skills, Register in internal/tools). A     *)
(* call of a sub-agent runs a step inside the step, with tools of its own. *)
(* AgentLoop shows the loop of the harness and DurableRun the journal.     *)
(***************************************************************************)
EXTENDS Integers, Sequences, FiniteSets

CONSTANTS Parts,     \* "main" and "child" -> what a step declares, in order of registration, see Part
          Remote,    \* names of the tools of an MCP server
          LocalName, \* remote name -> the name the model is told
          MaxSteps,  \* steps of the pipeline
          MaxCalls,  \* bound: tool calls of a step
          MaxFaults  \* bound: failures of registration, model and servers

Part == [kind : {"go", "bash", "sub", "mcp"}, name : STRING, gated : BOOLEAN]

StepToolsConstants ==
  /\ \A p \in {"main", "child"} : \A i \in DOMAIN Parts[p] : Parts[p][i] \in Part
  /\ LocalName \in [Remote -> STRING] /\ {MaxSteps, MaxCalls, MaxFaults} \subseteq Nat

VARIABLES stack,   \* the steps running, the innermost last, see Fresh
          parked,  \* the step of a suspended run, or a sequence without one
          open,    \* the MCP sessions that are open: [step, depth, server]
          reached, \* history: calls of MCP tools, see Call
          faults,  \* failures so far
          outcome  \* of the pipeline: "none", "done", "failed"

stepToolsVars == <<stack, parked, open, reached, faults, outcome>>

\* A step: the part it registers next, its executor, the calls it made and how it ended. A resumed
\* step went on after an approval.
Fresh(declares, depth, number) ==
  [declares |-> declares, depth |-> depth, number |-> number, pc |-> "registering", part |-> 1,
   executor |-> <<>>, calls |-> 0, resumed |-> FALSE]

Top == stack[Len(stack)]
Below == SubSeq(stack, 1, Len(stack) - 1)
Becomes(step) == stack' = Append(Below, step)
At(pc) == stack # <<>> /\ Top.pc = pc
PartNow == Parts[Top.declares][Top.part]
Registered == Top.part > Len(Parts[Top.declares])

StepToolsInit ==
  /\ stack = <<Fresh("main", 1, 1)>> /\ parked = <<>> /\ open = {} /\ reached = {}
  /\ faults = 0 /\ outcome = "none"

Fault == faults < MaxFaults /\ faults' = faults + 1

----------------------------------------------------------------------------
\* Registration.

Session(step, server) == [number |-> step.number, depth |-> step.depth, server |-> server]

\* Mutant: sessions are found by their server, and those of the step around are closed with them.
OwnByServer(step) == {s \in open : \E p \in DOMAIN Parts[step.declares] :
                                     Parts[step.declares][p].name = s.server}

\* closeSessions: the sessions of the step, and only those.
Own(step) == {s \in open : s.number = step.number /\ s.depth = step.depth}

\* A failure before the harness runs closes what was connected.
Abort == Becomes([Top EXCEPT !.pc = "failed"]) /\ open' = open \ Own(Top)

\* What an executor holds for a name.
Handler(part, remote) == [kind |-> part.kind, server |-> part.name, remote |-> remote,
                          gated |-> part.gated]

\* Register and RegisterHandler: the last tool of a name replaces the one before it.
With(executor, more) == [n \in DOMAIN executor \cup DOMAIN more |->
                           IF n \in DOMAIN more THEN more[n] ELSE executor[n]]

\* registerRuntimeTools, registerRuntimeBash, registerRuntimeSubAgents.
RegisterLocal ==
  /\ At("registering") /\ ~Registered /\ PartNow.kind # "mcp"
  /\ \/ /\ Becomes([Top EXCEPT !.part = @ + 1,
                      !.executor = With(@, [n \in {PartNow.name} |-> Handler(PartNow, "none")])])
        /\ UNCHANGED <<open, faults>>
     \/ Fault /\ Abort
  /\ UNCHANGED <<parked, reached, outcome>>

\* transport: the endpoint, the token and the transport of the server are in the environment, and
\* wrong ones refuse the step.
EndpointRefused == Fault /\ Abort

\* Connect: a session with the server.
Connect ==
  /\ At("registering") /\ ~Registered /\ PartNow.kind = "mcp"
  /\ \/ /\ Becomes([Top EXCEPT !.pc = "listing"]) /\ UNCHANGED faults
        /\ open' = open \cup {Session(Top, PartNow.name)}
     \/ EndpointRefused
  /\ UNCHANGED <<parked, reached, outcome>>

\* Mutant: a server whose tools cannot be registered keeps its session.
ListingFailsOpen == Becomes([Top EXCEPT !.pc = "failed"]) /\ UNCHANGED open

\* registerStepTools: the sessions are closed when the tools of a server cannot be registered.
ListingFails == Abort

\* RegisterTools: the tools the server lists, refused when two of them have one local name.
Ambiguous(tools) == \E t, u \in tools : t # u /\ LocalName[t] = LocalName[u]

\* LocalToolName: two remote names may be one after the characters a model may not use are gone.
LocalNames(tools) == {LocalName[t] : t \in tools}

RegisterMCP ==
  /\ At("listing")
  /\ \/ Fault /\ ListingFails
     \/ \E tools \in SUBSET Remote :
          IF Ambiguous(tools) THEN ListingFails /\ UNCHANGED faults
          ELSE /\ Becomes([Top EXCEPT !.pc = "registering", !.part = @ + 1,
                             !.executor = With(@, [n \in LocalNames(tools) |->
                                Handler(PartNow, CHOOSE t \in tools : LocalName[t] = n)])])
               /\ UNCHANGED <<open, faults>>
  /\ UNCHANGED <<parked, reached, outcome>>

\* providerForModel.
Provider == At("registering") /\ Registered /\ Becomes([Top EXCEPT !.pc = "prompting"])
            /\ UNCHANGED <<parked, open, reached, faults, outcome>>

\* Load: a skill that is missing, too long or malformed.
SkillRefused == Fault /\ Abort

\* systemPromptForStep: the goal of the step and its skills.
Prompt ==
  /\ At("prompting")
  /\ \/ Becomes([Top EXCEPT !.pc = "running"]) /\ UNCHANGED <<open, faults>>
     \/ SkillRefused
  /\ UNCHANGED <<parked, reached, outcome>>

----------------------------------------------------------------------------
\* The harness runs and calls tools.

MayCall == At("running") /\ Top.calls < MaxCalls
Called == [Top EXCEPT !.calls = @ + 1]
Names == IF MayCall THEN DOMAIN Top.executor ELSE {}
Calls(kinds, n) == Top.executor[n].kind \in kinds

\* A Go function or the Bash.
CallLocal ==
  /\ \E n \in Names : Calls({"go", "bash"}, n) /\ ~Top.executor[n].gated
  /\ Becomes(Called) /\ UNCHANGED <<parked, open, reached, faults, outcome>>

\* Execute of mcpToolHandler: a closed session or a server that fails is the error of the call.
Call(step, n) == [server |-> step.executor[n].server, name |-> n, remote |-> step.executor[n].remote,
                  alive |-> Session(step, step.executor[n].server) \in open,
                  resumed |-> step.resumed]

CallMCP ==
  \E n \in Names :
    /\ Calls({"mcp"}, n)
    /\ Becomes(Called) /\ reached' = reached \cup {Call(Top, n)}
    /\ UNCHANGED <<parked, open, faults, outcome>>

\* Execute of subAgentHandler: the step of the sub-agent runs while its caller waits.
CallSubAgent ==
  /\ \E n \in Names : Calls({"sub"}, n)
  /\ stack' = Append(Append(Below, Called), Fresh("child", Top.depth + 1, Top.number))
  /\ UNCHANGED <<parked, open, reached, faults, outcome>>

\* A call waits for an approval: the continuation of a top-level step is kept without its sessions;
\* a sub-agent fails.
Suspend ==
  /\ \E n \in Names : Calls({"go"}, n) /\ Top.executor[n].gated
  /\ open' = open \ Own(Top)
  /\ IF Len(stack) = 1 THEN parked' = <<Called>> /\ stack' = <<>>
     ELSE Becomes([Top EXCEPT !.pc = "failed"]) /\ UNCHANGED parked
  /\ UNCHANGED <<reached, faults, outcome>>

\* The resume of newSuspendedPlanError: the suspended call runs, then the rest of the step.
Resume ==
  /\ parked # <<>> /\ parked' = <<>>
  /\ \/ stack' = <<[parked[1] EXCEPT !.resumed = TRUE]>> /\ UNCHANGED outcome
     \/ outcome' = "failed" /\ UNCHANGED stack
  /\ UNCHANGED <<open, reached, faults>>

\* The harness returns, and the sessions are closed: a session that fails to close fails a step
\* that was answered.
Return ==
  /\ At("running") /\ open' = open \ Own(Top)
  /\ \/ Becomes([Top EXCEPT !.pc = "done"]) /\ UNCHANGED faults
     \/ Fault /\ Becomes([Top EXCEPT !.pc = "failed"])
  /\ UNCHANGED <<parked, reached, outcome>>

\* The caller of a sub-agent has its result or its error.
ReturnToCaller ==
  /\ Len(stack) > 1 /\ Top.pc \in {"done", "failed"} /\ stack' = Below
  /\ UNCHANGED <<parked, open, reached, faults, outcome>>

\* The checkpoint of the step, and the step after it.
NextStep ==
  /\ Len(stack) = 1 /\ At("done") /\ Top.number < MaxSteps
  /\ stack' = <<Fresh("main", 1, Top.number + 1)>>
  /\ UNCHANGED <<parked, open, reached, faults, outcome>>

EndPipeline ==
  /\ Len(stack) = 1 /\ stack' = <<>>
  /\ \/ At("done") /\ Top.number = MaxSteps /\ outcome' = "done"
     \/ At("failed") /\ outcome' = "failed"
  /\ UNCHANGED <<parked, open, reached, faults>>

Over == outcome # "none" /\ UNCHANGED stepToolsVars

StepToolsStep == \/ RegisterLocal \/ Connect \/ RegisterMCP \/ Provider \/ Prompt \/ CallLocal
                 \/ CallMCP \/ CallSubAgent \/ Suspend \/ Return \/ ReturnToCaller \/ NextStep
                 \/ EndPipeline

StepToolsNext == StepToolsStep \/ Resume \/ Over

\* Every call is answered; an operator may never decide.
StepToolsFairness == WF_stepToolsVars(StepToolsStep)

----------------------------------------------------------------------------

Sessions == [number : 1..MaxSteps, depth : 1..2,
             server : {Parts["main"][i].name : i \in DOMAIN Parts["main"]}]

StepToolsTypeOK ==
  /\ Len(stack) <= 2 /\ Len(parked) <= 1 /\ open \subseteq Sessions /\ faults \in 0..MaxFaults
  /\ outcome \in {"none", "done", "failed"}

\* No step that ended or was parked, in whatever way, leaves a session with an MCP server open; and
\* a call finds its session open, the steps of sub-agents that came and went beside it
\* notwithstanding. Only a step that was resumed after an approval calls servers it has left.
SessionsFollowSteps ==
  /\ \A s \in open : \E i \in DOMAIN stack :
       /\ s.number = stack[i].number /\ s.depth = stack[i].depth
       /\ stack[i].pc \notin {"done", "failed"}
  /\ \A c \in reached : ~c.alive => c.resumed

\* The pipeline ends unless an operator lets it wait.
PipelineReturns == <>[](outcome # "none" \/ parked # <<>>)
=============================================================================
