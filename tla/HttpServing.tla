---------------------------- MODULE HttpServing ----------------------------
(***************************************************************************)
(* The HTTP side of one worker process: requests that reserve their        *)
(* trigger key, take a slot of the route's worker pool and run the plan in *)
(* the handler, in the async group or in the goroutine of an SSE reply,    *)
(* and the shutdown of the listeners, the group and the state store        *)
(* (runtime_http.go, runtime_http_sse.go, http_runtime.go, runner.go).     *)
(***************************************************************************)
EXTENDS Integers, FiniteSets

CONSTANTS Requests,   \* HTTP requests
          Keys,       \* values of the idempotency header
          PoolSize    \* WorkerPool of the route

ServingConstants == PoolSize \in Nat \ {0}

VARIABLES route,     \* how the route answers: "sync", "async" or "sse", fixed
          request,   \* [pc, key, gone] of each request's handler
          job,       \* the plan run of each request
          slots,     \* occupied slots of the worker pool
          trigger,   \* [outcome, owner] of each trigger key
          signalled, \* SIGTERM: the context every request derives from is cancelled
          listener,  \* phase of the public and of the admin listener
          stopped,   \* the async group accepts no more work and is cancelled
          timedOut,  \* a shutdown ran into shutdownTimeout
          storeOpen  \* closeRuntime has not closed the state store

servingVars == <<route, request, job, slots, trigger, signalled, listener, stopped, timedOut, storeOpen>>

Kinds == {"sync", "async", "sse"}
Listeners == {"public", "admin"}
HandlerPCs == {"none", "reading", "reserved", "admitted", "waiting", "full", "refused", "answered"}
JobPCs == {"none", "running", "succeeded", "failed", "finished"}
NoRequest == [pc |-> "none", key |-> "nokey", gone |-> FALSE]
FreeKey == [outcome |-> "none", owner |-> "noone"]

ServingTypeOK ==
  /\ route \in Kinds
  /\ request \in [Requests -> [pc : HandlerPCs, key : Keys \cup {"nokey"}, gone : BOOLEAN]]
  /\ job \in [Requests -> JobPCs]
  /\ slots \in 0..PoolSize
  /\ trigger \in [Keys -> [outcome : {"none", "pending", "succeeded", "failed"},
                           owner : Requests \cup {"noone"}]]
  /\ listener \in [Listeners -> {"serving", "draining", "stopping", "returned"}]
  /\ signalled \in BOOLEAN /\ stopped \in BOOLEAN /\ timedOut \in BOOLEAN /\ storeOpen \in BOOLEAN

ServingInit ==
  /\ route \in Kinds
  /\ request = [r \in Requests |-> NoRequest]
  /\ job = [r \in Requests |-> "none"]
  /\ slots = 0
  /\ trigger = [k \in Keys |-> FreeKey]
  /\ signalled = FALSE
  /\ listener = [l \in Listeners |-> "serving"]
  /\ stopped = FALSE /\ timedOut = FALSE /\ storeOpen = TRUE

InHandler(r) == request[r].pc \notin {"none", "answered"}
JobActive(r) == job[r] \notin {"none", "finished"}
\* The contexts of the group, and of a request whose client left or whose process stops.
JobCancelled(r) ==
  IF route = "async" THEN stopped ELSE signalled \/ request[r].gone

(***************************************************************************)
(* The handler: prepareRequestInput, then the pool.                        *)
(***************************************************************************)
ServerUnchanged == UNCHANGED <<route, signalled, listener, stopped, timedOut, storeOpen>>
Goes(r, pc) == request' = [request EXCEPT ![r].pc = pc]

Arrive(r, k) ==
  /\ request[r].pc = "none" /\ listener["public"] = "serving"
  /\ request' = [request EXCEPT ![r] = [NoRequest EXCEPT !.pc = "reading", !.key = k]]
  /\ ServerUnchanged /\ UNCHANGED <<job, slots, trigger>>

\* reserveTriggerIdempotency takes a free or failed key; any other is a duplicate. A
\* cancelled request, or a failing store, reserves nothing.
ReserveKey(r) ==
  LET k == request[r].key IN
  /\ request[r].pc = "reading"
  /\ \/ /\ trigger[k].outcome \in {"none", "failed"}
        /\ trigger' = [trigger EXCEPT ![k] = [outcome |-> "pending", owner |-> r]]
        /\ Goes(r, "reserved")
     \/ /\ \/ trigger[k].outcome \in {"pending", "succeeded"}
           \/ signalled \/ request[r].gone
        /\ Goes(r, "answered") /\ UNCHANGED trigger
  /\ ServerUnchanged /\ UNCHANGED <<job, slots>>

\* A bodiless direct plan needs no key in the model; the event after a reservation may fail.
ReserveEventFails(r) ==
  LET k == request[r].key IN
  /\ request[r].pc = "reading" /\ trigger[k].outcome \in {"none", "failed"}
  /\ trigger' = [trigger EXCEPT ![k] = [outcome |-> "failed", owner |-> r]]
  /\ Goes(r, "answered")
  /\ ServerUnchanged /\ UNCHANGED <<job, slots>>

\* Mutant: an off-by-one in the size of the pool.
AdmitOneMore(r) ==
  /\ request[r].pc = "reserved"
  /\ IF slots <= PoolSize
     THEN slots' = slots + 1 /\ Goes(r, "admitted")
     ELSE slots' = slots /\ Goes(r, "full")
  /\ ServerUnchanged /\ UNCHANGED <<job, trigger>>

\* tryAcquireWorker: take a slot or answer worker_pool_full.
Admit(r) ==
  /\ request[r].pc = "reserved"
  /\ IF slots < PoolSize
     THEN slots' = slots + 1 /\ Goes(r, "admitted")
     ELSE slots' = slots /\ Goes(r, "full")
  /\ ServerUnchanged /\ UNCHANGED <<job, trigger>>

\* Mutant: a refused async run keeps its slot.
StartKeepsSlot(r) ==
  /\ request[r].pc = "admitted"
  /\ IF route = "async" /\ stopped
     THEN Goes(r, "refused") /\ job' = job
     ELSE /\ job' = [job EXCEPT ![r] = "running"]
          /\ Goes(r, IF route = "async" THEN "answered" ELSE "waiting")
  /\ slots' = slots
  /\ ServerUnchanged /\ UNCHANGED trigger

\* startAsync refuses work once the group is stopped: give the slot back.
Start(r) ==
  /\ request[r].pc = "admitted"
  /\ IF route = "async" /\ stopped
     THEN slots' = slots - 1 /\ Goes(r, "refused") /\ job' = job
     ELSE /\ job' = [job EXCEPT ![r] = "running"]
          /\ Goes(r, IF route = "async" THEN "answered" ELSE "waiting")
          /\ slots' = slots
  /\ ServerUnchanged /\ UNCHANGED trigger

\* resolveReservedTriggerFailure: only the pending key of this run is settled, and only
\* while the store is open.
Settles(r, outcome) ==
  LET k == request[r].key IN
  trigger' = IF storeOpen /\ trigger[k] = [outcome |-> "pending", owner |-> r]
             THEN [trigger EXCEPT ![k].outcome = outcome] ELSE trigger

\* Mutant: the early return on a full pool forgets the key.
RejectKeepsKey(r) ==
  /\ request[r].pc \in {"full", "refused"}
  /\ Goes(r, "answered")
  /\ ServerUnchanged /\ UNCHANGED <<job, slots, trigger>>

Reject(r) ==
  /\ request[r].pc \in {"full", "refused"}
  /\ Settles(r, "failed") /\ Goes(r, "answered")
  /\ ServerUnchanged /\ UNCHANGED <<job, slots>>

\* A waiting handler answers when its run ended; an SSE handler also leaves when the
\* request is cancelled, and its run goes on without it.
Answer(r) ==
  /\ request[r].pc = "waiting"
  /\ \/ job[r] = "finished"
     \/ route = "sse" /\ JobCancelled(r)
  /\ Goes(r, "answered")
  /\ ServerUnchanged /\ UNCHANGED <<job, slots, trigger>>

ClientLeaves(r) ==
  /\ InHandler(r) /\ ~request[r].gone
  /\ request' = [request EXCEPT ![r].gone = TRUE]
  /\ ServerUnchanged /\ UNCHANGED <<job, slots, trigger>>

(***************************************************************************)
(* The run: runPlanResultWithSessionAndTerminal and its finish.            *)
(***************************************************************************)
RunPlan(r) ==
  /\ job[r] = "running"
  /\ job' = [job EXCEPT ![r] = IF JobCancelled(r) THEN "failed" ELSE "succeeded"]
  /\ ServerUnchanged /\ UNCHANGED <<request, slots, trigger>>

PlanFails(r) ==
  /\ job[r] = "running"
  /\ job' = [job EXCEPT ![r] = "failed"]
  /\ ServerUnchanged /\ UNCHANGED <<request, slots, trigger>>

\* The finish settles the key in the finalization window, then the slot is released.
FinishPlan(r) ==
  /\ job[r] \in {"succeeded", "failed"}
  /\ Settles(r, job[r])
  /\ job' = [job EXCEPT ![r] = "finished"]
  /\ slots' = slots - 1
  /\ ServerUnchanged /\ UNCHANGED request

(***************************************************************************)
(* Shutdown: serveHTTPWithContext for each listener, runSupervisedRuntimes *)
(* around them, closeRuntime last.                                         *)
(***************************************************************************)
WorkUnchanged == UNCHANGED <<route, request, job, slots, trigger>>
Enters(l, phase) == listener' = [listener EXCEPT ![l] = phase]

\* SIGTERM, or a listener that failed cancels its sibling through the supervisor.
Terminate ==
  /\ ~signalled /\ signalled' = TRUE
  /\ WorkUnchanged /\ UNCHANGED <<listener, stopped, timedOut, storeOpen>>

\* Mutant: the admin listener does not watch the context.
BeginShutdownPublic(l) ==
  /\ l = "public" /\ signalled /\ listener[l] = "serving" /\ Enters(l, "draining")
  /\ WorkUnchanged /\ UNCHANGED <<signalled, stopped, timedOut, storeOpen>>

BeginShutdown(l) ==
  /\ signalled /\ listener[l] = "serving" /\ Enters(l, "draining")
  /\ WorkUnchanged /\ UNCHANGED <<signalled, stopped, timedOut, storeOpen>>

\* server.Shutdown returns when the listener's handlers have; then the group is
\* stopped and its runs are cancelled, also by the listener that had no handler.
StopGroup(l) ==
  /\ listener[l] = "draining"
  /\ l = "public" => \A r \in Requests : ~InHandler(r)
  /\ stopped' = TRUE /\ Enters(l, "stopping")
  /\ WorkUnchanged /\ UNCHANGED <<signalled, timedOut, storeOpen>>

\* Mutant: the async group is stopped but not waited for.
GroupNotAwaited(l) ==
  /\ listener[l] = "stopping" /\ Enters(l, "returned")
  /\ WorkUnchanged /\ UNCHANGED <<signalled, stopped, timedOut, storeOpen>>

GroupDrained(l) ==
  /\ listener[l] = "stopping"
  /\ \A r \in Requests : route = "async" => ~JobActive(r)
  /\ Enters(l, "returned")
  /\ WorkUnchanged /\ UNCHANGED <<signalled, stopped, timedOut, storeOpen>>

\* shutdownTimeout passes while handlers or runs of the group are left: the group is
\* stopped in any case, and the listener returns.
ShutdownTimesOut(l) ==
  /\ \/ /\ listener[l] = "draining" /\ l = "public"
        /\ \E r \in Requests : InHandler(r)
     \/ /\ listener[l] = "stopping"
        /\ \E r \in Requests : route = "async" /\ JobActive(r)
  /\ timedOut' = TRUE /\ stopped' = TRUE /\ Enters(l, "returned")
  /\ WorkUnchanged /\ UNCHANGED <<signalled, storeOpen>>

CloseRuntime ==
  /\ storeOpen /\ \A l \in Listeners : listener[l] = "returned"
  /\ storeOpen' = FALSE
  /\ WorkUnchanged /\ UNCHANGED <<signalled, listener, stopped, timedOut>>

HandlerStep(r) == ReserveKey(r) \/ ReserveEventFails(r) \/ Admit(r) \/ Start(r) \/ Reject(r)
                  \/ Answer(r)
JobStep(r) == RunPlan(r) \/ PlanFails(r) \/ FinishPlan(r)
ShutdownStep(l) == BeginShutdown(l) \/ StopGroup(l) \/ GroupDrained(l) \/ ShutdownTimesOut(l)

ServingNext ==
  \/ \E r \in Requests : \/ \E k \in Keys : Arrive(r, k)
                         \/ HandlerStep(r) \/ JobStep(r) \/ ClientLeaves(r)
  \/ Terminate \/ CloseRuntime
  \/ \E l \in Listeners : ShutdownStep(l)

\* Handlers run and a shutdown is bounded by its timeout; a run of a plan may hang.
ServingFairness ==
  /\ \A r \in Requests : WF_servingVars(HandlerStep(r))
  /\ \A l \in Listeners : WF_servingVars(ShutdownStep(l))
  /\ WF_servingVars(CloseRuntime)

ServingSpec == ServingInit /\ [][ServingNext]_servingVars /\ ServingFairness

(***************************************************************************)
(* Properties.                                                             *)
(***************************************************************************)
HoldsSlot(r) == request[r].pc = "admitted" \/ JobActive(r)

\* No path loses a slot of the worker pool or gives one back twice, whichever way a
\* request ends: full, refused, cancelled, abandoned by its client.
PoolConserved == slots = Cardinality({r \in Requests : HoldsSlot(r)})

\* A pending trigger key always has a handler or a run that is going to settle it: no
\* early return of servePipeline leaves one behind, which would refuse every retry.
PendingHasOwner ==
  storeOpen => \A k \in Keys : trigger[k].outcome = "pending" =>
    \E r \in Requests : /\ trigger[k].owner = r
                        /\ \/ request[r].pc \in {"reserved", "admitted", "full", "refused"}
                           \/ JobActive(r)

\* The state store is closed only after every handler and every run of the async group
\* ended, unless the shutdown timed out.
CloseAfterWork ==
  ~storeOpen /\ ~timedOut =>
    \A r \in Requests : /\ ~InHandler(r)
                        /\ route # "sse" => ~JobActive(r)

\* After a termination signal Run returns with the store closed.
RunReturns == <>[](signalled => ~storeOpen)
=============================================================================
