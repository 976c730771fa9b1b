------------------------------ MODULE MCWorker ------------------------------
(***************************************************************************)
(* The parts of a worker process that share no variable, checked in one    *)
(* run: each behaviour runs the part `chosen` names, the others stand in   *)
(* their initial state.                                                    *)
(***************************************************************************)
EXTENDS AgentLoop, PlanSteps, BashRun, EventLog, TLC

\* What the triggers are parameterised by.
CONSTANTS NumMessages, Workers, MaxAttempts, MaxDeliveries, MaxReplays, MaxRestarts,  \* StreamTrigger
          Requests, Keys, PoolSize                                                  \* HttpServing

VARIABLES chosen,
          sBroker, sBudget, sAppended, sCursor, sCommitted, sLoop, sTask, sAttempts, sKey, sDlq,
          sTodo, sEffects, sAcked, sRouted, sDeliveries, sReplays, sRestarts,
          hRoute, hRequest, hJob, hSlots, hTrigger, hSignalled, hListener, hStopped, hTimedOut,
          hStoreOpen

\* The triggers, HttpServing and StreamTrigger, with what is proved about them.
Triggers == INSTANCE TriggerProofs WITH
  broker <- sBroker, budget <- sBudget, appended <- sAppended, cursor <- sCursor,
  committed <- sCommitted, loop <- sLoop, task <- sTask, attempts <- sAttempts, key <- sKey,
  dlq <- sDlq, todo <- sTodo, effects <- sEffects, acked <- sAcked, routed <- sRouted,
  deliveries <- sDeliveries, replays <- sReplays, restarts <- sRestarts,
  route <- hRoute, request <- hRequest, job <- hJob, slots <- hSlots, trigger <- hTrigger,
  signalled <- hSignalled, listener <- hListener, stopped <- hStopped, timedOut <- hTimedOut,
  storeOpen <- hStoreOpen

\* What the parts require of their constants.
ASSUME WorkerConstants ==
  /\ Triggers!StreamConstants /\ Triggers!ServingConstants /\ EventConstants
  /\ AgentConstants /\ PlanConstants /\ BashConstants

streamVars == <<sBroker, sBudget, sAppended, sCursor, sCommitted, sLoop, sTask, sAttempts, sKey,
                sDlq, sTodo, sEffects, sAcked, sRouted, sDeliveries, sReplays, sRestarts>>
httpVars == <<hRoute, hRequest, hJob, hSlots, hTrigger, hSignalled, hListener, hStopped, hTimedOut,
              hStoreOpen>>

\* What the tools of a turn do, for the agent and for its sub-agents.
Turns == {<<"read">>, <<"effect", "gated">>, <<"sub", "sub">>}
SubTurns == {<<"effect">>}

\* The parts that do not run have one initial state.
Init ==
  /\ chosen \in {"stream", "http", "events", "loop", "plan", "bash"}
  /\ Triggers!StreamInit /\ (chosen # "stream" => sBroker = "redis" /\ sBudget = 0)
  /\ Triggers!ServingInit /\ (chosen # "http" => hRoute = "sync")
  /\ EventInit /\ (chosen # "events" => storage = "memory")
  /\ AgentInit /\ (chosen # "loop" => parallel = 1 /\ ~partialOK /\ ~schema)
  /\ PlanInit /\ (chosen # "plan" => plan = [s \in 1 .. Steps |-> "pipe"])
  /\ BashInit /\ (chosen # "bash" => mode = "host")

Next ==
  /\ chosen' = chosen
  /\ \/ /\ chosen = "stream" /\ Triggers!StreamNext
        /\ UNCHANGED <<httpVars, eventVars, agentVars, planVars, bashVars>>
     \/ /\ chosen = "http" /\ Triggers!ServingNext
        /\ UNCHANGED <<streamVars, eventVars, agentVars, planVars, bashVars>>
     \/ /\ chosen = "events" /\ EventNext
        /\ UNCHANGED <<streamVars, httpVars, agentVars, planVars, bashVars>>
     \/ /\ chosen = "loop" /\ AgentNext
        /\ UNCHANGED <<streamVars, httpVars, eventVars, planVars, bashVars>>
     \/ /\ chosen = "plan" /\ PlanNext
        /\ UNCHANGED <<streamVars, httpVars, eventVars, agentVars, bashVars>>
     \/ /\ chosen = "bash" /\ BashNext
        /\ UNCHANGED <<streamVars, httpVars, eventVars, agentVars, planVars>>

vars == <<chosen, streamVars, httpVars, eventVars, agentVars, planVars, bashVars>>
Spec == Init /\ [][Next]_vars

\* The variables of every part keep their types.
TypeOK ==
  /\ Triggers!StreamTypeOK /\ Triggers!ServingTypeOK /\ EventTypeOK
  /\ AgentTypeOK /\ PlanTypeOK /\ BashTypeOK

\* Triggers: the effect of a stream message happens at most once and an acknowledged message was
\* handled (StreamTrigger); no slot of the pool of a request is lost, no trigger key is left
\* pending, and the store is closed after the work (HttpServing).
TriggersSettled ==
  /\ Triggers!EffectAtMostOnce /\ Triggers!AckedIsHandled
  /\ Triggers!PoolConserved /\ Triggers!PendingHasOwner /\ Triggers!CloseAfterWork

\* Events: subscribers see IDs in order and an SSE reply misses none silently (EventLog).
EventsInOrder == NotifiedInOrder /\ RepliesComplete

\* Runs: the token budget holds across parallel sub-agents, retries and resumes repeat no effect
\* of a tool (AgentLoop), a checkpoint is saved for every step that ran, in order, and for no
\* other (PlanSteps), and a command of the bash tool answers with all it wrote and leaves nothing
\* behind when it is killed (BashRun).
RunsAreFaithful ==
  /\ BudgetHeld /\ EffectsNotRepeated /\ CheckpointsFollowRun
  /\ OutputIsWhole /\ KilledLeavesNothing

\* Each part, under its own fairness: the stream loop returns once stopped, the server
\* returns once signalled, an agent ends or waits for an approval, and a command returns.
WorkerProgress ==
  /\ chosen = "stream" /\ Triggers!StreamFairness => Triggers!LoopStops
  /\ chosen = "http" /\ Triggers!ServingFairness => Triggers!RunReturns
  /\ chosen = "loop" /\ AgentFairness => AgentsFinish
  /\ chosen = "bash" /\ BashFairness => ExecuteReturns
=============================================================================
