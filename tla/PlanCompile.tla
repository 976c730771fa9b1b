---------------------------- MODULE PlanCompile ----------------------------
(***************************************************************************)
(* From a declaration to a serving worker: From, Pipe, Parallel, Map,      *)
(* Reply, Push and Sink nodes with their options (pipeline.go, trigger.go, *)
(* tool.go, bash.go, composition.go, options.go), the pass that compiles   *)
(* them to plans (compile.go, compile_step.go), and what Run does with the *)
(* plans: the runtimes it groups them in, the guards that refuse them and  *)
(* the routes it registers (runner.go, runtime_mixed.go, runtime_http.go,  *)
(* routes.go). The pass reads the nodes from left to right and stops at    *)
(* the first refusal, so a node is declared here when it is read.          *)
(***************************************************************************)
EXTENDS Integers, Sequences, FiniteSets

CONSTANTS Paths,      \* paths an HTTP trigger may name; HookPath and MetricsPath may be among them
          HookPath,   \* the path of a webhook
          MetricsPath,\* the path of the metrics, an administrative route
          Schemas,    \* result schemas
          NoSchema,
          Chains,     \* names of nested sub-agents, from the outermost to the innermost
          MaxDepth,   \* defaultSubAgentMaxDepth
          Settings,   \* environments of Run, see SettingType
          MaxPlans,   \* bound: pipelines of a declaration
          MaxSteps,   \* bound: steps of a pipeline
          MaxOptions  \* bound: options of a declaration; one of several pipelines has none

SettingType == [durable : BOOLEAN, split : BOOLEAN, publicMetrics : BOOLEAN,
                isolation : BOOLEAN, secret : BOOLEAN]

PlanConstants ==
  /\ NoSchema \notin Schemas /\ Settings \subseteq SettingType
  /\ {MaxDepth, MaxPlans, MaxSteps, MaxOptions} \subseteq Nat

VARIABLES at,      \* what is read next: "first", "next", "inside"; then the stage of Run
          node,    \* the node being declared, or NoNode
          plan,    \* the plan being compiled, or NoPlan
          plans,   \* the compiled plans
          setting, \* the environment, once the declaration is compiled
          groups,  \* runtime -> indexes of the plans it serves
          mux,     \* index of a plan -> the path registered for it
          options  \* options declared so far

planVars == <<at, node, plan, plans, setting, groups, mux, options>>

Reading == {"first", "next", "inside"}
NoNode == [kind |-> "none"]
NoPlan == [trigger |-> "none"]
NoTool == [effect |-> "none", keyed |-> FALSE]
NoGroups == [http |-> {}, cron |-> {}, stream |-> {}]
Unset == [durable |-> FALSE, split |-> FALSE, publicMetrics |-> FALSE, isolation |-> TRUE,
          secret |-> TRUE]

PlanInit ==
  /\ at = "first" /\ node = NoNode /\ plan = NoPlan /\ plans = <<>> /\ setting = Unset
  /\ groups = NoGroups /\ mux = <<>> /\ options = 0

\* Run returns the error and keeps nothing.
Refuse ==
  /\ at' = "refused" /\ node' = NoNode /\ plan' = NoPlan /\ plans' = <<>> /\ setting' = Unset
  /\ groups' = NoGroups /\ mux' = <<>> /\ UNCHANGED options
Keep == UNCHANGED <<setting, groups, mux, options>>

----------------------------------------------------------------------------
\* The nodes of a declaration.

FromNode(trigger, path) ==
  [kind |-> "from", trigger |-> trigger, path |-> path, config |-> {}, err |-> FALSE]

PipeNode == [kind |-> "pipe", output |-> NoSchema, retry |-> FALSE, fallback |-> FALSE,
             bash |-> "none", tool |-> NoTool, agents |-> <<>>, inner |-> "none", err |-> FALSE]

TerminalNode(kind, schema, err) == [kind |-> kind, schema |-> schema, err |-> err]

Triggers == {FromNode("http", p) : p \in Paths} \cup {FromNode("webhook", HookPath)}
            \cup {FromNode(t, "none") : t \in {"cron", "stream"}}

Terminals == {TerminalNode("reply", s, FALSE) : s \in Schemas \cup {NoSchema}}
             \cup {TerminalNode(k, NoSchema, e) : k \in {"push", "sink"}, e \in BOOLEAN}

\* The bounds on a declaration.
Room(n) == /\ (n.kind = "from" => Len(plans) < MaxPlans /\ (plans = <<>> \/ options = 0))
           /\ (n.kind = "pipe" /\ at = "inside" => Len(plan.steps) < MaxSteps)

Declare ==
  /\ at \in Reading /\ node = NoNode
  /\ node' \in {n \in Triggers \cup Terminals \cup {PipeNode, [kind |-> "nil", err |-> TRUE]} : Room(n)}
  /\ UNCHANGED <<at, plan, plans, setting, groups, mux, options>>

\* applyFrom: a setting is overwritten by a later one; a malformed one spoils the node.
HTTPOptions   == {"signature", "idempotency"}
StreamOptions == {"dlq", "inFlight", "ackPolicy"}

FromOption ==
  /\ node.kind = "from"
  /\ \/ \E o \in HTTPOptions \cup StreamOptions \cup {"workerPool"} :
          node' = [node EXCEPT !.config = @ \cup {o}]
     \/ node' = [node EXCEPT !.err = TRUE]

\* A setting a Pipe takes once: the second one spoils the node and leaves the first in place.
Once(field, unset, value) ==
  node' = IF node[field] = unset THEN [node EXCEPT ![field] = value] ELSE [node EXCEPT !.err = TRUE]

PipeOnce ==
  \/ \E s \in Schemas : Once("output", NoSchema, s)
  \/ Once("retry", FALSE, TRUE)
  \/ Once("fallback", FALSE, TRUE)

Spoil == node' = [node EXCEPT !.err = TRUE]

\* Timeout, MaxTokens, MaxCostUSD: nothing is compared to a budget here but that it is positive.
PipeBudget == Spoil

\* Bash, with its timeout and its limit of output; validateBash refuses a spoilt one.
PipeBash == Spoil \/ \E b \in {"isolated", "unsafe"} : Once("bash", "none", b)

\* Mutant: a tool made read-only or side-effecting keeps the key of the Idempotent before it.
ApplyToolKeepsKey(tool, option) ==
  CASE option = "idempotent" -> [effect |-> "idempotent", keyed |-> TRUE]
    [] OTHER -> [effect |-> option, keyed |-> tool.keyed]

\* applyTool, the last option wins: ReadOnly and SideEffecting drop an idempotency key.
ApplyTool(tool, option) ==
  CASE option = "idempotent" -> [effect |-> "idempotent", keyed |-> TRUE]
    [] OTHER -> [effect |-> option, keyed |-> FALSE]

PlainTool == [effect |-> "sideEffecting", keyed |-> FALSE]
Effects == {"readOnly", "sideEffecting", "idempotent"}

\* validateTool: a function of another form, a side effect without a label.
ToolMalformed == Spoil

PipeTool ==
  \E first, second \in Effects :
    node' = [node EXCEPT !.tool = ApplyTool(ApplyTool(PlainTool, first), second)]

\* SubAgent: pipelines nested in each other, the Pipe of the innermost may hold a Bash.
PipeAgents ==
  \E names \in Chains, bash \in {"none", "isolated"} :
    node' = [node EXCEPT !.agents = names, !.inner = bash]

\* Parallel and Map around the node declared last, which may be no Pipe, or around nothing.
Compose ==
  \E kind \in {"parallel", "map"}, empty \in BOOLEAN :
    node' = [kind |-> kind, items |-> IF empty THEN <<>> ELSE <<node>>, err |-> FALSE]

Option ==
  /\ at \in Reading /\ node # NoNode /\ options' = options + 1
  /\ options < MaxOptions /\ Len(plans) = 0
  /\ \/ FromOption
     \/ node.kind = "pipe" /\ (PipeOnce \/ PipeBudget \/ PipeBash \/ PipeTool \/ ToolMalformed
                              \/ PipeAgents)
     \/ node.kind # "nil" /\ Compose
  /\ UNCHANGED <<at, plan, plans, setting, groups, mux>>

----------------------------------------------------------------------------
\* The compiling pass.

\* Mutant: the depth of a sub-agent is counted from zero.
DepthAllowedFromZero(depth) == depth - 1 <= MaxDepth

\* validateSubAgentWithContext: the depth, counted from one, and the names already on the stack.
DepthAllowed(depth) == depth <= MaxDepth

AgentsValid(names) ==
  /\ DepthAllowed(Len(names))
  /\ \A i, j \in DOMAIN names : names[i] = names[j] => i = j

PipeValid(n) == n.kind = "pipe" /\ ~n.err /\ AgentsValid(n.agents)

\* validateNode.
Valid(n) ==
  CASE n.kind = "pipe" -> PipeValid(n)
    [] n.kind \in {"parallel", "map"} ->
         n.items # <<>> /\ \A i \in DOMAIN n.items : PipeValid(n.items[i])
    [] OTHER -> ~n.err

\* validateTriggerOptionCompatibility.
OptionsFit(n) ==
  /\ (n.trigger \notin {"http", "webhook"} => n.config \cap HTTPOptions = {})
  /\ (n.trigger # "stream" => n.config \cap StreamOptions = {})

\* compileStep, compileParallelStep, compileMapStep.
PipeStep(n) == [kind |-> "pipe", schema |-> n.output, bash |-> n.bash, tool |-> n.tool,
                agents |-> n.agents, inner |-> n.inner]
Step(n) == IF n.kind = "pipe" THEN PipeStep(n)
           ELSE [kind |-> n.kind, branches |-> [i \in DOMAIN n.items |-> PipeStep(n.items[i])]]

\* compilePlans: a pipeline starts with a From, the first and the one after a terminal.
ReadStart ==
  /\ at \in {"first", "next"} /\ node # NoNode
  /\ IF node.kind = "from" /\ Valid(node) /\ OptionsFit(node)
       THEN /\ at' = "inside" /\ node' = NoNode /\ UNCHANGED plans /\ Keep
            /\ plan' = [trigger |-> node.trigger, path |-> node.path, config |-> node.config,
                        steps |-> <<>>]
       ELSE Refuse

\* compilePlanAt: a step.
ReadStep ==
  /\ at = "inside" /\ node.kind \in {"pipe", "parallel", "map"}
  /\ IF Valid(node)
       THEN /\ plan' = [plan EXCEPT !.steps = Append(@, Step(node))]
            /\ node' = NoNode /\ UNCHANGED <<at, plans>> /\ Keep
       ELSE Refuse

Last(p) == p.steps[Len(p.steps)]
Typed(p, n) == n.kind = "reply" /\ n.schema # NoSchema /\ p.steps # <<>> /\ Last(p).kind = "pipe"

\* Mutant: the schema of the reply is only given to a Pipe that has none.
SchemasFitAlways(p, n) == TRUE

\* compatibleResultSchemas, in reconcileTerminalResultSchema.
SchemasFit(p, n) == Typed(p, n) => Last(p).schema \in {NoSchema, n.schema}

\* reconcileTerminalResultSchema: a last Pipe without a schema takes the one of the reply.
Reconciled(p, n) ==
  IF Typed(p, n) /\ Last(p).schema = NoSchema
  THEN [p EXCEPT !.steps[Len(p.steps)].schema = n.schema] ELSE p

Finished(p, n) == [trigger |-> p.trigger, path |-> p.path, config |-> p.config,
                   steps |-> p.steps, terminal |-> n.kind, schema |-> n.schema]

\* compilePlanAt: the terminal. A Reply needs a caller.
ReadTerminal ==
  /\ at = "inside" /\ node.kind \in {"reply", "push", "sink"}
  /\ IF Valid(node) /\ (node.kind = "reply" => plan.trigger = "http") /\ SchemasFit(plan, node)
       THEN /\ plans' = Append(plans, Finished(Reconciled(plan, node), node))
            /\ plan' = NoPlan /\ at' = "next" /\ node' = NoNode /\ Keep
       ELSE Refuse

\* compilePlanAt: a From or a nil inside a pipeline.
ReadStray == at = "inside" /\ node.kind \in {"from", "nil"} /\ Refuse

\* The declaration is over: ErrPipelineEmpty, ErrTerminalMissing, or Run goes on.
ReadEnd ==
  /\ at \in Reading /\ node = NoNode
  /\ IF at = "next"
       THEN /\ at' = "grouping" /\ setting' \in Settings
            /\ UNCHANGED <<node, plan, plans, groups, mux, options>>
       ELSE Refuse

----------------------------------------------------------------------------
\* Run.

Indexes == DOMAIN plans
OnHTTP(i) == plans[i].trigger \in {"http", "webhook"}
Kinds == {plans[i].trigger : i \in Indexes}

\* Mutant: a mixed worker groups its HTTP triggers and forgets its webhooks.
GroupedHTTPOnly(i) == plans[i].trigger = "http" \/ (OnHTTP(i) /\ Kinds \subseteq {"http", "webhook"})

\* plansHTTPCompatible, plansTriggerKind, runtimePlanGroups: the plans with a route.
Grouped(i) == OnHTTP(i)

Group ==
  /\ at = "grouping" /\ at' = "guarding"
  /\ groups' = [http |-> {i \in Indexes : Grouped(i)},
                cron |-> {i \in Indexes : plans[i].trigger = "cron"},
                stream |-> {i \in Indexes : plans[i].trigger = "stream"}]
  /\ UNCHANGED <<node, plan, plans, setting, mux, options>>

\* Mutant: the guard looks at the Bash of a step and not at those of its sub-agents.
PipeNeedsIsolationShallow(s) == s.bash = "isolated"

\* validateRuntimeGuardsForStep.
PipeNeedsIsolation(s) == s.bash = "isolated" \/ s.inner = "isolated"
NeedsIsolation(s) ==
  IF s.kind = "pipe" THEN PipeNeedsIsolation(s)
  ELSE \E b \in DOMAIN s.branches : PipeNeedsIsolation(s.branches[b])

\* validateHTTPTriggerSecurityConfig: the secret of every signature a route verifies.
SecretsSet == \A i \in groups.http : "signature" \in plans[i].config => setting.secret

\* validateDurableRunPlanCoverage.
Covered == \A i \in Indexes : setting.durable /\ OnHTTP(i) => plans[i].steps # <<>>

\* prepareHTTPServeRuntime and newAdminHandlerWithRuntime.
Guard ==
  /\ at = "guarding"
  /\ IF /\ SecretsSet /\ Covered
        /\ setting.isolation \/ \A i \in Indexes : \A s \in DOMAIN plans[i].steps :
                                  ~NeedsIsolation(plans[i].steps[s])
       THEN at' = "registering" /\ UNCHANGED <<node, plan, plans, setting, groups, mux, options>>
       ELSE Refuse

\* What the mux of the triggers holds before them.
Reserved ==
  IF setting.split THEN IF setting.publicMetrics THEN {MetricsPath} ELSE {} ELSE {MetricsPath}

\* Mutant: a path that is registered already is taken over.
PathFreeUnlessReserved(path) == path \notin Reserved

\* registerHTTPRoute: the mux panics on a pattern it holds, and the panic is an error.
PathFree(path) == path \notin Reserved \cup {mux[i] : i \in DOMAIN mux}

\* registerPublicHTTPRoutes: one route after the other, in the order of the declaration.
Register ==
  /\ at = "registering"
  /\ LET left == groups.http \ DOMAIN mux
         i == CHOOSE i \in left : \A j \in left : i <= j
         Rest == UNCHANGED <<node, plan, plans, setting, groups, options>>
     IN IF left = {} THEN at' = "serving" /\ UNCHANGED mux /\ Rest
        ELSE IF PathFree(plans[i].path)
          THEN mux' = [j \in DOMAIN mux \cup {i} |-> plans[j].path] /\ UNCHANGED at /\ Rest
          ELSE Refuse

Settled == at \in {"serving", "refused"} /\ UNCHANGED planVars

PlanNext == \/ Declare \/ Option \/ ReadStart \/ ReadStep \/ ReadTerminal \/ ReadStray \/ ReadEnd
            \/ Group \/ Guard \/ Register \/ Settled

----------------------------------------------------------------------------

PlanTypeOK ==
  /\ at \in Reading \cup {"grouping", "guarding", "registering", "serving", "refused"}
  /\ node.kind \in {"none", "nil", "from", "pipe", "parallel", "map", "reply", "push", "sink"}
  /\ Len(plans) <= MaxPlans /\ setting \in SettingType /\ options \in 0..MaxOptions
  /\ DOMAIN groups = {"http", "cron", "stream"} /\ DOMAIN mux \subseteq Indexes

\* The Pipes a step runs in the worker.
Pipes(s) == IF s.kind = "pipe" THEN {s} ELSE {s.branches[b] : b \in DOMAIN s.branches}

\* What a compiled plan promises its runtime: a caller is answered with the schema its last Pipe
\* was held to, no sub-agent runs below the depth limit or under itself, a tool has a key exactly
\* when it is replayed by one, and no option of another kind of trigger is silently lost.
PlansKeepTheirContracts ==
  \A i \in Indexes : LET p == plans[i] IN
    /\ (p.terminal = "reply" /\ p.schema # NoSchema /\ p.steps # <<>> /\ Last(p).kind = "pipe"
          => Last(p).schema = p.schema)
    /\ \A s \in DOMAIN p.steps : \A pipe \in Pipes(p.steps[s]) :
         /\ Len(pipe.agents) <= MaxDepth
         /\ Cardinality({pipe.agents[d] : d \in DOMAIN pipe.agents}) = Len(pipe.agents)
         /\ (pipe.tool.keyed <=> pipe.tool.effect = "idempotent")
    /\ (p.config \cap HTTPOptions # {} => p.trigger \in {"http", "webhook"})
    /\ (p.config \cap StreamOptions # {} => p.trigger = "stream")

\* A worker that serves runs every plan of its declaration in exactly one runtime, gives every
\* plan with a route a path of its own that no administrative route holds, never runs an isolated
\* Bash on a host without isolation at whatever depth, and promises durability for steps only.
ServesWhatItDeclares ==
  at = "serving" =>
    /\ \A i \in Indexes : Cardinality({r \in DOMAIN groups : i \in groups[r]}) = 1
    /\ \A i \in Indexes : OnHTTP(i) => i \in DOMAIN mux /\ mux[i] \notin Reserved
    /\ \A i, j \in DOMAIN mux : mux[i] = mux[j] => i = j
    /\ ~setting.isolation =>
         \A i \in Indexes : \A s \in DOMAIN plans[i].steps :
           \A pipe \in Pipes(plans[i].steps[s]) : "isolated" \notin {pipe.bash, pipe.inner}
    /\ setting.durable => \A i \in Indexes : OnHTTP(i) => plans[i].steps # <<>>
=============================================================================
