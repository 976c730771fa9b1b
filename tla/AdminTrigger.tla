---------------------------- MODULE AdminTrigger ----------------------------
(***************************************************************************)
(* POST /admin/triggers: an operator runs a plan by hand (routes.go), and  *)
(* the terminal that the run ends with: the reply, the file or log sink,   *)
(* the webhook or the queue it pushes to (runtime_http.go,                 *)
(* runtime_queue*.go).  A behaviour has one plan, and the requests of a    *)
(* stream plan carry the same message.                                     *)
(***************************************************************************)
EXTENDS Integers, FiniteSets

CONSTANTS Requests, \* requests to the trigger route
          Pool,     \* WorkerPool of the plan
          Plans     \* [kind, steps, async, terminal] of the plans a behaviour may have

VARIABLES plan,     \* the plan of the behaviour
          request,  \* of a request: where it is, the answer, the status of its execution
          slots,    \* requests and background runs that hold a place in the pool
          key,      \* idempotency outcome of the message of a stream plan
          pushed,   \* history: requests whose output reached the target
          lost,     \* history: requests whose output reached it, and that were told it did not
          stopping  \* the asynchronous group was shut down

adminVars == <<plan, request, slots, key, pushed, lost, stopping>>

AdminTriggerConstants ==
  /\ Pool \in Nat \ {0}
  /\ \A p \in Plans : /\ p.kind \in {"http", "cron", "stream"} /\ p.steps \in BOOLEAN
                      /\ p.terminal \in {"reply", "push", "sink"}
                      /\ p.async => p.terminal = "reply" /\ p.kind = "http"

PCs == {"new", "acquire", "reserve", "start", "steps", "terminal", "finish", "answered", "async"}
Answers == {"none", "invalid_trigger", "not_found", "worker_pool_full", "failed", "shutting_down",
            "accepted", "duplicate", "suspended"}

AdminInit ==
  /\ plan \in Plans
  /\ request = [r \in Requests |-> [pc |-> "new", answer |-> "none", exec |-> "none", ended |-> "none"]]
  /\ slots = {} /\ key = "none" /\ pushed = {} /\ lost = {} /\ stopping = FALSE

Goes(r, pc) == request' = [request EXCEPT ![r].pc = pc]
Answer(r, answer) == request' = [request EXCEPT ![r].pc = "answered", ![r].answer = answer]
Holds(r, pc) == request[r].pc = pc
Keyed == plan.kind = "stream"

\* Mutant: a request that is refused keeps its place.
KeepSlot(r) == slots

\* releaseWorker, which every way out of the handler runs.
ReleaseWorker(r) == slots \ {r}

\* The request is read: a malformed one, or one that names no plan, or a plan by its kind when
\* there are two, runs nothing.
Parse(r) ==
  /\ Holds(r, "new")
  /\ \/ Answer(r, "invalid_trigger")
     \/ Answer(r, "not_found")
     \/ Goes(r, "acquire")
  /\ UNCHANGED <<plan, slots, key, pushed, lost, stopping>>

\* tryAcquireWorker: a full pool refuses at once.
Acquire(r) ==
  /\ Holds(r, "acquire")
  /\ IF Cardinality(slots) < Pool
     THEN /\ slots' = slots \cup {r}
          /\ Goes(r, IF Keyed THEN "reserve" ELSE "start")
     ELSE Answer(r, "worker_pool_full") /\ UNCHANGED slots
  /\ UNCHANGED <<plan, key, pushed, lost, stopping>>

\* runStreamPlanOnce reserves the key of the message, which the stream itself uses too.
Reserve(r) ==
  /\ Holds(r, "reserve")
  /\ \/ /\ key \in {"none", "failed"} /\ key' = "pending"
        /\ Goes(r, "start") /\ UNCHANGED slots
     \/ /\ key = "succeeded" /\ Answer(r, "duplicate")
        /\ slots' = ReleaseWorker(r) /\ UNCHANGED key
     \/ /\ key = "pending" /\ Answer(r, "failed")
        /\ slots' = ReleaseWorker(r) /\ UNCHANGED key
  /\ UNCHANGED <<plan, pushed, lost, stopping>>

\* An asynchronous plan runs in the background, unless the group was shut down.
StartAsync(r) ==
  /\ Holds(r, "start") /\ plan.async /\ plan.steps
  /\ IF stopping
     THEN Answer(r, "shutting_down") /\ slots' = ReleaseWorker(r)
     ELSE /\ request' = [request EXCEPT ![r].pc = "async", ![r].answer = "accepted", ![r].exec = "running"]
          /\ UNCHANGED slots
  /\ UNCHANGED <<plan, key, pushed, lost, stopping>>

KeyFails == key' = IF Keyed THEN "failed" ELSE key

\* startPipelineExecution saves the execution and its first events, or the run fails there.
Start(r) ==
  /\ Holds(r, "start") /\ ~(plan.async /\ plan.steps)
  /\ \/ /\ request' = [request EXCEPT ![r].pc = IF plan.steps THEN "steps" ELSE "terminal",
                                      ![r].exec = "running"]
        /\ UNCHANGED <<slots, key>>
     \/ /\ Answer(r, "failed") /\ KeyFails
        /\ slots' = ReleaseWorker(r)
  /\ UNCHANGED <<plan, pushed, lost, stopping>>

\* The steps complete, park for an approval, or fail, as they do when the client is gone.
Steps(r) ==
  /\ Holds(r, "steps")
  /\ \/ Goes(r, "terminal") /\ UNCHANGED <<slots, key>>
     \/ /\ request' = [request EXCEPT ![r].pc = "answered", ![r].answer = "suspended", ![r].exec = "suspended"]
        /\ slots' = ReleaseWorker(r) /\ UNCHANGED key
     \/ /\ request' = [request EXCEPT ![r].pc = "finish", ![r].ended = "failed"]
        /\ KeyFails /\ UNCHANGED slots
  /\ UNCHANGED <<plan, pushed, lost, stopping>>

Ends(r, status) == request' = [request EXCEPT ![r].pc = "finish", ![r].ended = status]
Confirmed(r) == Ends(r, "completed") /\ key' = IF Keyed THEN "succeeded" ELSE key
Denied(r) == Ends(r, "failed") /\ KeyFails

\* Reply: the output has the schema of the reply, or the run fails.
Reply(r) ==
  /\ Holds(r, "terminal") /\ plan.terminal = "reply"
  /\ Confirmed(r) \/ (~plan.async /\ Denied(r))
  /\ UNCHANGED <<plan, slots, pushed, lost, stopping>>

\* Sink: an event of the log, or a file that is replaced as a whole.
Sink(r) ==
  /\ Holds(r, "terminal") /\ plan.terminal = "sink"
  /\ \/ Confirmed(r) /\ pushed' = pushed \cup {r}
     \/ Denied(r) /\ UNCHANGED pushed
  /\ UNCHANGED <<plan, slots, lost, stopping>>

\* Mutant: an answer that is lost counts as one that came.
PublishTrusts == {[reached |-> TRUE, answered |-> TRUE], [reached |-> FALSE, answered |-> TRUE]}

\* What publishing comes to, within its deadline: the target has the output and says so (2xx,
\* PONG after PUB, the id of XADD), it refuses or cannot be reached, or its answer is lost.
Publish == [reached : BOOLEAN, answered : {FALSE}] \cup [reached : {TRUE}, answered : {TRUE}]

Push(r) ==
  /\ Holds(r, "terminal") /\ plan.terminal = "push"
  /\ \E end \in Publish :
       /\ pushed' = IF end.reached THEN pushed \cup {r} ELSE pushed
       /\ lost' = IF end.reached /\ ~end.answered THEN lost \cup {r} ELSE lost
       /\ IF end.answered THEN Confirmed(r) ELSE Denied(r)
  /\ UNCHANGED <<plan, slots, stopping>>

\* Mutant: the answer does not look at how saving the end of the run went.
FinishAnswersAnyway(r, saved) == IF request[r].ended = "completed" THEN "accepted" ELSE "failed"

\* A run that is not saved as completed is answered as failed, its effect notwithstanding.
FinishAnswers(r, saved) == IF saved /\ request[r].ended = "completed" THEN "accepted" ELSE "failed"

\* finishPipelineExecution: the last events and the status, which may not be saved.
Finish(r) ==
  /\ Holds(r, "finish")
  /\ \E saved \in BOOLEAN :
       request' = [request EXCEPT ![r].pc = "answered", ![r].answer = FinishAnswers(r, saved),
                                  ![r].exec = IF saved THEN request[r].ended ELSE @]
  /\ slots' = ReleaseWorker(r)
  /\ UNCHANGED <<plan, key, pushed, lost, stopping>>

\* The background run ends, and gives its place back.
AsyncEnds(r) ==
  /\ Holds(r, "async")
  /\ \E status \in {"completed", "failed", "suspended"} :
       request' = [request EXCEPT ![r].pc = "answered", ![r].exec = status]
  /\ slots' = ReleaseWorker(r)
  /\ UNCHANGED <<plan, key, pushed, lost, stopping>>

Shutdown ==
  /\ ~stopping /\ stopping' = TRUE
  /\ UNCHANGED <<plan, request, slots, key, pushed, lost>>

Handle(r) ==
  \/ Parse(r) \/ Acquire(r) \/ Reserve(r) \/ StartAsync(r) \/ Start(r) \/ Steps(r)
  \/ Reply(r) \/ Sink(r) \/ Push(r) \/ Finish(r) \/ AsyncEnds(r)

AdminNext == Shutdown \/ \E r \in Requests : Handle(r)

\* A handler runs on, its steps end, and publishing has a deadline.
AdminFairness == \A r \in Requests : WF_adminVars(Handle(r))

AdminSpec == AdminInit /\ [][AdminNext]_adminVars /\ AdminFairness

----------------------------------------------------------------------------
AdminTypeOK ==
  /\ plan \in Plans /\ slots \subseteq Requests
  /\ request \in [Requests -> [pc : PCs, answer : Answers,
                               exec : {"none", "running", "completed", "failed", "suspended"},
                               ended : {"none", "completed", "failed"}]]
  /\ key \in {"none", "pending", "succeeded", "failed"}
  /\ pushed \subseteq Requests /\ lost \subseteq Requests /\ stopping \in BOOLEAN

\* An operator who reads "accepted" from a run that was waited for has its effect and an
\* execution that says completed; "duplicate" is another request's accepted effect.
AcceptedHappened ==
  \A r \in Requests :
    /\ request[r].answer = "accepted" /\ ~plan.async =>
         request[r].exec = "completed" /\ (plan.terminal = "reply" \/ r \in pushed)
    /\ request[r].answer = "duplicate" => \E s \in Requests : s \in pushed

\* One message is pushed again only when an earlier push was told to have failed: what a retry
\* repeats is bounded by the answers that were lost.
RepeatsAreLostAnswers == Keyed => Cardinality(pushed) <= Cardinality(lost) + 1

\* A place in the pool belongs to a run that is on its way.
SlotsAreHeld ==
  slots = {r \in Requests : request[r].pc \in {"reserve", "start", "steps", "terminal", "finish", "async"}}

\* Every request is answered and gives its place back.
TriggersEnd == \A r \in Requests : <>[](request[r].pc = "answered" /\ r \notin slots)
=============================================================================
