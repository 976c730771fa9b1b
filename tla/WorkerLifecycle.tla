-------------------------- MODULE WorkerLifecycle --------------------------
(***************************************************************************)
(* A worker process from Run to its return: the checks that refuse a       *)
(* configuration, the state store it opens, the runners of its triggers    *)
(* (listeners, cron loop, stream loop) and what supervises them, the       *)
(* recovery loop started beside them, the shutdown, and the closing of the *)
(* store (runner.go, runtime_mixed.go, durable_runs.go, routes.go).        *)
(* HttpServing shows a listener from inside, StreamTrigger a stream loop,  *)
(* CronLeader the leased cron loop; here is the loop without a lease.      *)
(***************************************************************************)
EXTENDS Integers, FiniteSets

CONSTANTS Configs,  \* configurations, see ConfigType
          MaxFires, \* bound: ticks of the cron schedule
          Pool      \* WorkerPool of the cron trigger

ConfigType == [token : BOOLEAN, dev : BOOLEAN, insecure : BOOLEAN,
               public : {"loopback", "network"}, admin : {"none", "loopback", "network"},
               triggers : (SUBSET {"http", "cron", "stream"}) \ {{}}, pipe : BOOLEAN,
               store : {"memory", "builtin", "custom"}, durable : BOOLEAN,
               journal : {"none", "own", "otherBuild", "otherPlan"}]

LifeConstants == Configs \subseteq ConfigType /\ MaxFires \in Nat /\ Pool \in Nat \ {0}

VARIABLES cfg, pc,
          store,     \* "none", "open", "closed"
          runners,   \* runner -> "absent", "up", "draining", "failed", "ended"
          cancelled, \* the context of the runners
          signalled, \* SIGINT or SIGTERM
          recovery,  \* the recovery loop: "none", "scanning", "replaying", "ended"
          stopped,   \* runtimeAsyncGroup.stopped
          request,   \* a request is being served by the public listener
          cron,      \* [loop, fires, ticks]
          abandoned, \* history: something was left running on purpose or by an early return
          result

lifeVars == <<cfg, pc, store, runners, cancelled, signalled, recovery, stopped, request, cron,
              abandoned, result>>

Names == {"public", "admin", "cron", "stream"}
Listeners == {"public", "admin"}
Idle == [loop |-> "waiting", fires |-> 0, ticks |-> 0]

LifeInit ==
  /\ cfg \in Configs /\ pc = "validating" /\ store = "none"
  /\ runners = [n \in Names |-> "absent"] /\ cancelled = FALSE /\ signalled = FALSE
  /\ recovery = "none" /\ stopped = FALSE /\ request = FALSE /\ cron = Idle
  /\ abandoned = FALSE /\ result = "none"

Running == UNCHANGED <<cfg, runners, cancelled, signalled, recovery, stopped, request, cron,
                       abandoned>>
Refuse(closes) == pc' = "returned" /\ result' = "error"
                  /\ store' = IF closes THEN "closed" ELSE store
Continue(next) == pc' = next /\ UNCHANGED <<store, result>>

----------------------------------------------------------------------------

\* Run: the options, the legacy environment and the declaration.
Validate == pc = "validating" /\ (Refuse(FALSE) \/ Continue("opening")) /\ Running

\* defaultHTTPRuntimeForRun.
OpenStore ==
  /\ pc = "opening" /\ Running
  /\ \/ Refuse(FALSE)
     \/ pc' = "durable" /\ store' = "open" /\ UNCHANGED result

\* durableRunsConfigForStore: the flag, the retention, the backend and the identity of the build.
DurableRefused == cfg.durable /\ cfg.store # "builtin"

CheckDurable ==
  /\ pc = "durable" /\ Running
  /\ \/ (DurableRefused \/ cfg.durable) /\ Refuse(TRUE)
     \/ ~DurableRefused /\ Continue("configuring")

\* Mutant: the store is left open when the configuration of the runner fails.
ConfigureLeaks == pc = "configuring" /\ (Refuse(FALSE) \/ Continue("exposing")) /\ Running

\* The stream is seeded from the store, then configureHTTPRuntime: hooks, tracer, sandbox.
Configure == pc = "configuring" /\ (Refuse(TRUE) \/ Continue("exposing")) /\ Running

\* checkAdminExposure, and checkAdminAddrExposure when the admin routes have a listener of their own.
Unauthenticated == ~cfg.token /\ cfg.dev
SharedRefused == Unauthenticated /\ cfg.public = "network" /\ ~cfg.insecure
SplitRefused  == cfg.admin = "network" /\ ~cfg.insecure

\* Mutant: the bind address of the admin listener is not looked at.
RefusedByPublic == SharedRefused

Refused == IF cfg.admin = "none" THEN SharedRefused ELSE SplitRefused

Expose == pc = "exposing" /\ (IF Refused THEN Refuse(TRUE) ELSE Continue("building")) /\ Running

\* validateDurableRunPlanCoverage.
Uncovered == cfg.durable /\ ~cfg.pipe /\ "http" \in cfg.triggers

\* prepareHTTPServeRuntime and newAdminHandlerWithRuntime start the recovery loop; the routes are
\* registered after it, and a worker whose routes are refused returns with the loop running.
Recovers == cfg.durable /\ cfg.store = "builtin"

BuildHandlers ==
  /\ pc = "building" /\ UNCHANGED <<cfg, runners, cancelled, signalled, stopped, request, cron>>
  /\ \/ Refuse(TRUE) /\ UNCHANGED <<recovery, abandoned>>
     \/ /\ ~Uncovered /\ Recovers /\ Refuse(TRUE)
        /\ recovery' = "scanning" /\ abandoned' = TRUE
     \/ /\ ~Uncovered /\ Continue("starting")
        /\ recovery' = IF Recovers THEN "scanning" ELSE "none"
        /\ UNCHANGED abandoned

\* serveMixedPlans, serveCronPlans, serveStreamPlans, serveHTTP: every worker owns its address.
Planned == {"public"} \cup (IF cfg.admin # "none" THEN {"admin"} ELSE {})
           \cup (cfg.triggers \cap {"cron", "stream"})

StartRunners ==
  /\ pc = "starting" /\ Continue("serving")
  /\ runners' = [n \in Names |-> IF n \in Planned THEN "up" ELSE "absent"]
  /\ UNCHANGED <<cfg, cancelled, signalled, recovery, stopped, request, cron, abandoned>>

----------------------------------------------------------------------------
Serving == UNCHANGED <<cfg, pc, store, result>>
Becomes(n, s) == runners' = [runners EXCEPT ![n] = s]

\* serveHTTPWithContext: the bind or Serve fails; the handler is not shut down.
ListenerFails(l) ==
  /\ runners[l] = "up" /\ Becomes(l, "failed") /\ abandoned' = TRUE
  /\ UNCHANGED <<cancelled, signalled, recovery, stopped, request, cron>> /\ Serving

RequestArrives ==
  /\ runners["public"] = "up" /\ ~request /\ request' = TRUE
  /\ UNCHANGED <<runners, cancelled, signalled, recovery, stopped, cron, abandoned>> /\ Serving

RequestEnds ==
  /\ request /\ request' = FALSE
  /\ UNCHANGED <<runners, cancelled, signalled, recovery, stopped, cron, abandoned>> /\ Serving

\* Mutant: the listener closes without its handlers.
ListenerCloses(l) ==
  /\ runners[l] = "up" /\ cancelled /\ Becomes(l, "draining") /\ stopped' = TRUE
  /\ UNCHANGED <<cancelled, signalled, recovery, request, cron, abandoned>> /\ Serving

\* server.Shutdown returns when the requests are answered, then the handler stops the group.
ListenerDrains(l) ==
  /\ runners[l] = "up" /\ cancelled /\ (l = "public" => ~request)
  /\ Becomes(l, "draining") /\ stopped' = TRUE
  /\ UNCHANGED <<cancelled, signalled, recovery, request, cron, abandoned>> /\ Serving

ListenerEnds(l) ==
  /\ runners[l] = "draining" /\ recovery \in {"none", "ended"} /\ Becomes(l, "ended")
  /\ UNCHANGED <<cancelled, signalled, recovery, stopped, request, cron, abandoned>> /\ Serving

\* The shutdown timeout passes: with an error, and the group stopped.
ShutdownTimesOut(l) ==
  /\ runners[l] \in {"up", "draining"} /\ cancelled
  /\ request \/ recovery \notin {"none", "ended"}
  /\ Becomes(l, "failed") /\ stopped' = TRUE /\ abandoned' = TRUE
  /\ UNCHANGED <<cancelled, signalled, recovery, request, cron>> /\ Serving

\* runCronLoop: a tick waits for a free worker; ticks that pass meanwhile are not made up for.
CronTick ==
  /\ runners["cron"] = "up" /\ cron.loop = "waiting" /\ ~cancelled /\ cron.ticks < MaxFires
  /\ cron' = [cron EXCEPT !.loop = "acquiring", !.ticks = @ + 1]
  /\ UNCHANGED <<runners, cancelled, signalled, recovery, stopped, request, abandoned>> /\ Serving

\* A free worker and a cancelled context at once: select takes either.
CronFire ==
  /\ runners["cron"] = "up" /\ cron.loop = "acquiring" /\ cron.fires < Pool
  /\ cron' = [cron EXCEPT !.loop = "waiting", !.fires = @ + 1]
  /\ UNCHANGED <<runners, cancelled, signalled, recovery, stopped, request, abandoned>> /\ Serving

FireEnds ==
  /\ cron.fires > 0 /\ cron' = [cron EXCEPT !.fires = @ - 1]
  /\ UNCHANGED <<runners, cancelled, signalled, recovery, stopped, request, abandoned>> /\ Serving

CronLeaves ==
  /\ runners["cron"] = "up" /\ cancelled /\ Becomes("cron", "draining")
  /\ UNCHANGED <<cancelled, signalled, recovery, stopped, request, cron, abandoned>> /\ Serving

\* The fires are waited for, however long they take.
CronEnds ==
  /\ runners["cron"] = "draining" /\ cron.fires = 0 /\ Becomes("cron", "ended")
  /\ UNCHANGED <<cancelled, signalled, recovery, stopped, request, cron, abandoned>> /\ Serving

\* runStreamPlans: a receive error ends it, or the context does.
StreamEnds ==
  /\ runners["stream"] = "up" /\ Becomes("stream", IF cancelled THEN "ended" ELSE "failed")
  /\ UNCHANGED <<cancelled, signalled, recovery, stopped, request, cron, abandoned>> /\ Serving

----------------------------------------------------------------------------

Current == [build |-> "this", plan |-> "this"]

\* Mutant: the identity of the executable is left out.
PlanHashOfPlan(build, plan) == <<plan>>

\* durablePlanHash: the executable and the whole declaration, for the plan of the same trigger.
PlanHash(build, plan) == <<build, plan>>

Journaled == PlanHash(IF cfg.journal = "otherBuild" THEN "other" ELSE "this",
                      IF cfg.journal = "otherPlan" THEN "other" ELSE "this")

\* The recovery loop finds an interrupted run and replays it, unless its hash is not the plan's.
ReplayRun ==
  /\ recovery = "scanning" /\ ~stopped /\ store = "open"
  /\ cfg.journal # "none" /\ Journaled = PlanHash(Current.build, Current.plan)
  /\ recovery' = "replaying"
  /\ UNCHANGED <<runners, cancelled, signalled, stopped, request, cron, abandoned>> /\ Serving

ReplayEnds ==
  /\ recovery = "replaying" /\ recovery' = "scanning"
  /\ UNCHANGED <<runners, cancelled, signalled, stopped, request, cron, abandoned>> /\ Serving

RecoveryEnds ==
  /\ recovery = "scanning" /\ stopped /\ recovery' = "ended"
  /\ UNCHANGED <<runners, cancelled, signalled, stopped, request, cron, abandoned>> /\ Serving

Signal ==
  /\ pc = "serving" /\ ~signalled /\ signalled' = TRUE /\ cancelled' = TRUE
  /\ UNCHANGED <<runners, recovery, stopped, request, cron, abandoned>> /\ Serving

\* runSupervisedRuntimes: the first error cancels the others.
CancelOthers ==
  /\ pc = "serving" /\ ~cancelled /\ \E n \in Planned : runners[n] = "failed"
  /\ cancelled' = TRUE
  /\ UNCHANGED <<runners, signalled, recovery, stopped, request, cron, abandoned>> /\ Serving

AllEnded == \A n \in Planned : runners[n] \in {"ended", "failed"}

\* All runners are waited for.  After a signal the errors of a supervised shutdown may be dropped;
\* a single listener is not supervised.
Supervise ==
  /\ pc = "serving" /\ AllEnded /\ pc' = "closing"
  /\ LET failed == \E n \in Planned : runners[n] = "failed"
     IN  result' \in IF failed /\ (~signalled \/ Planned = {"public"}) THEN {"error"}
                     ELSE IF failed THEN {"error", "ok"} ELSE {"ok"}
  /\ UNCHANGED store /\ Running

CloseRuntime ==
  /\ pc = "closing" /\ pc' = "returned" /\ store' = "closed"
  /\ (UNCHANGED result \/ result' = "error")
  /\ Running

Startup == Validate \/ OpenStore \/ CheckDurable \/ Configure \/ Expose \/ BuildHandlers
           \/ StartRunners
ListenerStep(l) == ListenerDrains(l) \/ ListenerEnds(l) \/ ShutdownTimesOut(l)
CronStep == CronFire \/ CronLeaves \/ CronEnds
RecoveryStep == ReplayEnds \/ RecoveryEnds
Finish == CancelOthers \/ Supervise \/ CloseRuntime

LifeStep ==
  \/ Startup \/ Finish \/ Signal \/ CronTick \/ CronStep \/ FireEnds \/ StreamEnds
  \/ RequestArrives \/ RequestEnds \/ ReplayRun \/ RecoveryStep
  \/ \E l \in Listeners : ListenerStep(l) \/ ListenerFails(l)

\* A listener's shutdown is bounded by its timeout; the end of a cron fire is not, and is assumed.
LifeFairness ==
  /\ WF_lifeVars(Startup) /\ WF_lifeVars(Finish)
  /\ \A l \in Listeners : WF_lifeVars(ListenerStep(l))
  /\ WF_lifeVars(CronStep) /\ WF_lifeVars(FireEnds)
  /\ WF_lifeVars(StreamEnds /\ cancelled)

LifeSpec == LifeInit /\ [][LifeStep]_lifeVars /\ LifeFairness

----------------------------------------------------------------------------
LifeTypeOK ==
  /\ cfg \in Configs /\ store \in {"none", "open", "closed"}
  /\ runners \in [Names -> {"absent", "up", "draining", "failed", "ended"}]
  /\ recovery \in {"none", "scanning", "replaying", "ended"}
  /\ cron \in [loop : {"waiting", "acquiring"}, fires : 0..Pool, ticks : 0..MaxFires]
  /\ result \in {"none", "ok", "error"}

AdminListener == IF cfg.admin = "none" THEN "public" ELSE "admin"
Reachable == IF cfg.admin = "none" THEN cfg.public = "network" ELSE cfg.admin = "network"

\* Admin routes that ask for no token are served to the network only by an explicit opt-in
\* (routes.go:1259-1268, 1282-1288).
NeverOpenUnasked ==
  runners[AdminListener] \in {"up", "draining"} /\ Unauthenticated /\ Reachable => cfg.insecure

\* The store is open while a runner, a request, a fire or a replay uses it, unless a listener failed,
\* a shutdown ran out of time or the routes were refused after the recovery had started; it is
\* closed on every return.
StoreOutlivesWork ==
  /\ (\E n \in Names : runners[n] \in {"up", "draining"}) \/ cron.fires > 0 => store = "open"
  /\ request \/ recovery = "replaying" => store = "open" \/ abandoned
  /\ pc = "returned" => store # "open"

\* A run is replayed only by the executable and the declaration that began it
\* (durable_runs.go:225-232).
ReplaysOwnRuns == recovery = "replaying" => cfg.journal = "own"

\* A worker that is told to stop returns.
RunReturns == <>[](signalled => pc = "returned")
=============================================================================
