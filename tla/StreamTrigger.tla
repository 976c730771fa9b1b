--------------------------- MODULE StreamTrigger ---------------------------
(***************************************************************************)
(* A stream trigger of one worker process: the receive loop, the bounded   *)
(* pool of processing goroutines, the read position each broker gives, the *)
(* idempotency key of a message, the attempt counter, the dead-letter      *)
(* queue and its replay (runtime_stream*.go).                              *)
(*                                                                         *)
(* Messages are the numbers 1..NumMessages in the order of the stream.     *)
(* Redis re-reads from a cursor that acknowledgements and rejections move, *)
(* Kafka reads on and commits, NATS gives messages no identity and cannot  *)
(* be read again.                                                          *)
(***************************************************************************)
EXTENDS Integers, Sequences, FiniteSets

CONSTANTS NumMessages,  \* messages the stream ever holds
          Workers,      \* processing goroutines: StreamMaxInFlight is their number
          MaxAttempts,  \* StreamDLQ's maxAttempts
          MaxDeliveries,\* bound: messages received from the broker, redeliveries included
          MaxReplays,   \* bound: calls of ReplayStreamDLQ
          MaxRestarts   \* bound: times the process dies

StreamConstants ==
  /\ NumMessages \in Nat \ {0} /\ MaxAttempts \in Nat \ {0}
  /\ MaxDeliveries \in Nat /\ MaxReplays \in Nat /\ MaxRestarts \in Nat
  /\ "replay" \notin Workers

VARIABLES broker,     \* "redis", "kafka" or "nats", fixed
          budget,     \* plan.Trigger.MaxAttempts: 0 without a StreamDLQ
          appended,   \* messages the stream holds so far
          cursor,     \* redisLastID, None for "$"; the next Kafka fetch minus one
          committed,  \* offset the Kafka group committed
          loop,       \* [pc, from, held, stop] of runStreamLoop
          task,       \* what each goroutine, and the replay, is doing
          attempts,   \* streamAttemptTracker
          key,        \* idempotency outcome of each message
          dlq,        \* the in-process dead-letter queue
          todo,       \* messages a replay drained and has not started
          effects,    \* history: terminal effects of each message
          acked,      \* history: messages acknowledged to the broker
          routed,     \* history: messages routed to the dead-letter target
          deliveries, replays, restarts  \* counters of the bounds

brokerVars == <<broker, appended, cursor, committed>>
historyVars == <<effects, acked, routed>>
streamVars == <<brokerVars, budget, loop, task, attempts, key, dlq, todo, historyVars,
                deliveries, replays, restarts>>

None == -1
Messages == 1..NumMessages
Runners == Workers \cup {"replay"}
HasID == broker # "nats"
\* Counters are compared with the budget only, so they need not count beyond it.
Saturated(n) == IF n > MaxAttempts THEN MaxAttempts ELSE n
NoTask == [pc |-> "idle", msg |-> 0, attempt |-> 0]
NoLoop == [pc |-> "idle", from |-> 0, held |-> 0, stop |-> FALSE]
TaskPCs == {"idle", "started", "reserving", "running", "confirmed", "ok", "failed",
            "pending", "interrupted"}
Busy == {w \in Workers : task[w].pc # "idle"}

StreamTypeOK ==
  /\ broker \in {"redis", "kafka", "nats"} /\ budget \in {0, MaxAttempts}
  /\ appended \in 0..NumMessages /\ committed \in 0..NumMessages
  /\ cursor \in {None} \cup 0..NumMessages
  /\ loop \in [pc : {"idle", "reading", "holding", "draining", "returned"},
               from : 0..NumMessages, held : 0..NumMessages, stop : BOOLEAN]
  /\ task \in [Runners -> [pc : TaskPCs, msg : 0..NumMessages, attempt : Nat]]
  /\ attempts \in [Messages -> 0..MaxAttempts] /\ effects \in [Messages -> 0..MaxAttempts]
  /\ key \in [Messages -> {"none", "pending", "succeeded", "failed"}]
  /\ dlq \in Seq(Messages) /\ todo \in Seq(Messages)
  /\ acked \subseteq Messages /\ routed \subseteq Messages
  /\ deliveries \in 0..MaxDeliveries /\ replays \in 0..MaxReplays /\ restarts \in 0..MaxRestarts

StreamInit ==
  /\ broker \in {"redis", "kafka", "nats"} /\ budget \in {0, MaxAttempts}
  /\ appended = 0 /\ cursor = (IF broker = "kafka" THEN 0 ELSE None) /\ committed = 0
  /\ loop = NoLoop /\ task = [w \in Runners |-> NoTask]
  /\ attempts = [m \in Messages |-> 0] /\ key = [m \in Messages |-> "none"]
  /\ dlq = <<>> /\ todo = <<>>
  /\ effects = [m \in Messages |-> 0]
  /\ acked = {} /\ routed = {}
  /\ deliveries = 0 /\ replays = 0 /\ restarts = 0

(***************************************************************************)
(* Brokers.                                                                *)
(***************************************************************************)
\* A producer appends the next message.
Produce ==
  /\ appended < NumMessages
  /\ appended' = appended + 1
  /\ UNCHANGED <<broker, cursor, committed, budget, loop, task, attempts, key, dlq, todo,
                 historyVars, deliveries, replays, restarts>>

\* Where a Receive that starts now begins to read: "$" is the end of the stream.
ReadFrom == IF broker = "nats" \/ cursor = None THEN appended ELSE cursor

\* message.ack: the Redis cursor jumps to the message, Kafka commits its offset.
AckMoves(m) ==
  /\ acked' = acked \cup {m}
  /\ cursor' = IF broker = "redis" THEN m ELSE cursor
  /\ committed' = IF broker = "kafka" THEN m ELSE committed

\* message.nack: the Redis cursor moves before the message; the others have none.
NackMoves(m) ==
  /\ cursor' = IF broker = "redis" THEN m - 1 ELSE cursor
  /\ UNCHANGED <<acked, committed>>

(***************************************************************************)
(* The receive loop.                                                       *)
(***************************************************************************)
LoopOnly == UNCHANGED <<broker, appended, committed, budget, key, dlq, todo, historyVars,
                        attempts, replays, restarts>>

Receive ==
  /\ loop.pc = "idle" /\ ~loop.stop
  /\ loop' = [loop EXCEPT !.pc = "reading", !.from = ReadFrom]
  /\ LoopOnly /\ UNCHANGED <<cursor, task, deliveries>>

Deliver ==
  /\ loop.pc = "reading" /\ loop.from < appended /\ deliveries < MaxDeliveries
  /\ deliveries' = deliveries + 1
  /\ loop' = [loop EXCEPT !.pc = "holding", !.held = loop.from + 1, !.from = 0]
  /\ cursor' = IF broker = "kafka" THEN loop.from + 1 ELSE cursor
  /\ LoopOnly /\ UNCHANGED task

Dispatch(w) ==
  /\ loop.pc = "holding" /\ w \notin Busy
  /\ task' = [task EXCEPT ![w] = [NoTask EXCEPT !.pc = "started", !.msg = loop.held]]
  /\ loop' = [loop EXCEPT !.pc = "idle", !.held = 0]
  /\ LoopOnly /\ UNCHANGED <<cursor, deliveries>>

\* Mutant: a loop that waits for a free goroutine is not woken by its context.
StopReceivingUnlessHolding ==
  /\ loop.stop /\ loop.pc \in {"idle", "reading"}
  /\ loop' = [loop EXCEPT !.pc = "draining", !.held = 0, !.from = 0]
  /\ LoopOnly /\ UNCHANGED <<cursor, task, deliveries>>

\* Cancelled, or told of a processing error, the loop stops receiving.
StopReceiving ==
  /\ loop.stop /\ loop.pc \in {"idle", "reading", "holding"}
  /\ loop' = [loop EXCEPT !.pc = "draining", !.held = 0, !.from = 0]
  /\ LoopOnly /\ UNCHANGED <<cursor, task, deliveries>>

\* The broker connection breaks: the loop returns the error once the goroutines ended.
ReceiveFails ==
  /\ loop.pc = "reading"
  /\ loop' = [loop EXCEPT !.pc = "draining", !.from = 0]
  /\ LoopOnly /\ UNCHANGED <<cursor, task, deliveries>>

LoopReturns ==
  /\ loop.pc = "draining" /\ Busy = {}
  /\ loop' = [loop EXCEPT !.pc = "returned", !.stop = TRUE]
  /\ LoopOnly /\ UNCHANGED <<cursor, task, deliveries>>

\* SIGTERM, or another runtime of the process failed.
Cancel ==
  /\ ~loop.stop /\ loop.pc # "returned"
  /\ loop' = [loop EXCEPT !.stop = TRUE]
  /\ LoopOnly /\ UNCHANGED <<cursor, task, deliveries>>

(***************************************************************************)
(* processStreamMessage and runStreamPlanOnce, for a goroutine or a replay *)
(***************************************************************************)
Moves(w, pc) == task' = [task EXCEPT ![w].pc = pc]
RunOnly == UNCHANGED <<brokerVars, budget, loop, attempts, dlq, todo, acked, routed,
                       deliveries, replays, restarts>>

\* attempts.next: a message without an identity is always at its first attempt.
Count(w) ==
  LET m == task[w].msg
      n == IF HasID THEN Saturated(attempts[m] + 1) ELSE 1
  IN  /\ task[w].pc = "started"
      /\ attempts' = IF HasID THEN [attempts EXCEPT ![m] = n] ELSE attempts
      /\ task' = [task EXCEPT ![w].pc = "reserving", ![w].attempt = n]
      /\ UNCHANGED <<brokerVars, budget, loop, key, dlq, todo, historyVars, deliveries, replays, restarts>>

\* Mutant: a pending key is taken like a failed one.
ReserveAnyUnsettled(w) ==
  LET m == task[w].msg IN
  /\ task[w].pc = "reserving"
  /\ \/ ~HasID /\ Moves(w, "running") /\ key' = key
     \/ HasID /\ key[m] # "succeeded"
        /\ key' = [key EXCEPT ![m] = "pending"] /\ Moves(w, "running")
     \/ HasID /\ key[m] = "succeeded" /\ Moves(w, "ok") /\ key' = key
  /\ RunOnly /\ UNCHANGED effects

\* reserveStreamIdempotency: a free or failed key is taken, a pending one parks the
\* delivery, a succeeded one makes it a duplicate.
Reserve(w) ==
  LET m == task[w].msg IN
  /\ task[w].pc = "reserving"
  /\ \/ ~HasID /\ Moves(w, "running") /\ key' = key
     \/ HasID /\ key[m] \in {"none", "failed"}
        /\ key' = [key EXCEPT ![m] = "pending"] /\ Moves(w, "running")
     \/ HasID /\ key[m] = "pending" /\ Moves(w, "pending") /\ key' = key
     \/ HasID /\ key[m] = "succeeded" /\ Moves(w, "ok") /\ key' = key
  /\ RunOnly /\ UNCHANGED effects

\* The session of a reserved message cannot be saved: the key is settled as failed.
ReserveFails(w) ==
  LET m == task[w].msg IN
  /\ task[w].pc = "reserving" /\ HasID /\ key[m] \in {"none", "failed"}
  /\ key' = [key EXCEPT ![m] = "failed"]
  /\ Moves(w, "failed")
  /\ RunOnly /\ UNCHANGED effects

KeyFails(m) == key' = IF HasID THEN [key EXCEPT ![m] = "failed"] ELSE key

\* The plan runs to its terminal effect, fails before it, or is interrupted by a
\* cancellation or a deadline.
Execute(w) ==
  LET m == task[w].msg IN
  /\ task[w].pc = "running"
  /\ \/ /\ effects' = [effects EXCEPT ![m] = Saturated(@ + 1)]
        /\ Moves(w, "confirmed") /\ UNCHANGED key
     \/ KeyFails(m) /\ Moves(w, "failed") /\ UNCHANGED effects
     \/ KeyFails(m) /\ Moves(w, "interrupted") /\ UNCHANGED effects
  /\ RunOnly

\* The confirmed effect settles the key; a failed event or save after it still
\* makes the delivery fail.
Confirm(w) ==
  LET m == task[w].msg IN
  /\ task[w].pc = "confirmed"
  /\ key' = IF HasID THEN [key EXCEPT ![m] = "succeeded"] ELSE key
  /\ Moves(w, "ok") \/ Moves(w, "failed")
  /\ RunOnly /\ UNCHANGED effects

Frees(w) == task' = [task EXCEPT ![w] = NoTask]
Clears(m) == attempts' = [attempts EXCEPT ![m] = 0]
Routes(m) == dlq' = Append(dlq, m) /\ routed' = routed \cup {m}
\* The first error of a goroutine is handed to the loop and cancels it.
Fatal == loop' = [loop EXCEPT !.stop = TRUE]
SettleOnly == UNCHANGED <<broker, appended, budget, key, todo, effects, deliveries, replays, restarts>>

\* Success: forget the attempts and acknowledge.
Acknowledge(w) ==
  /\ task[w].pc = "ok" /\ Clears(task[w].msg) /\ AckMoves(task[w].msg) /\ Frees(w)
  /\ SettleOnly /\ UNCHANGED <<loop, dlq, routed>>

\* StreamAckManual: acknowledging is left to the handler.
LeaveUnacked(w) ==
  /\ task[w].pc = "ok" /\ Clears(task[w].msg) /\ Frees(w)
  /\ SettleOnly /\ UNCHANGED <<cursor, committed, acked, loop, dlq, routed>>

\* The acknowledgement fails: the message is dead-lettered; when it can be routed,
\* acknowledging it again must still succeed or the loop stops.
AckFails(w) ==
  LET m == task[w].msg IN
  /\ task[w].pc = "ok" /\ Clears(m) /\ Frees(w) /\ SettleOnly
  /\ \/ /\ budget = 0
        /\ UNCHANGED <<cursor, committed, acked, loop, dlq, routed>>
     \/ /\ budget > 0 /\ Routes(m)
        /\ \/ AckMoves(m) /\ UNCHANGED loop
           \/ Fatal /\ UNCHANGED <<cursor, committed, acked>>
     \/ /\ budget > 0 /\ Fatal /\ NackMoves(m) /\ UNCHANGED <<dlq, routed>>

\* Another delivery owns the key: leave the message to the broker.
Park(w) ==
  /\ task[w].pc = "pending" /\ NackMoves(task[w].msg) /\ Frees(w)
  /\ SettleOnly /\ UNCHANGED <<loop, dlq, routed, attempts>>

\* A failure within the budget is left to the broker too.
Retry(w) ==
  /\ task[w].pc = "failed" /\ budget > 0 /\ task[w].attempt < budget
  /\ NackMoves(task[w].msg) /\ Frees(w)
  /\ SettleOnly /\ UNCHANGED <<loop, dlq, routed, attempts>>

\* Without a dead-letter target the first failure is only reported, and rejected.
GiveUp(w) ==
  /\ task[w].pc = "failed" /\ budget = 0
  /\ Clears(task[w].msg) /\ NackMoves(task[w].msg) /\ Frees(w)
  /\ SettleOnly /\ UNCHANGED <<loop, dlq, routed>>

\* Mutant: acknowledged although the dead-letter target cannot be reached.
DeadLetterAcksAnyway(w) ==
  LET m == task[w].msg IN
  /\ task[w].pc = "failed" /\ budget > 0 /\ task[w].attempt >= budget
  /\ Clears(m) /\ Frees(w) /\ SettleOnly /\ AckMoves(m)
  /\ \/ Routes(m) /\ UNCHANGED loop
     \/ Fatal /\ UNCHANGED <<dlq, routed>>

\* The budget is used up: route to the dead-letter target and acknowledge, or, when
\* the target cannot be reached, reject the message and stop the loop.
DeadLetter(w) ==
  LET m == task[w].msg IN
  /\ task[w].pc = "failed" /\ budget > 0 /\ task[w].attempt >= budget
  /\ Clears(m) /\ Frees(w) /\ SettleOnly
  /\ \/ /\ Routes(m) /\ AckMoves(m) /\ UNCHANGED loop
     \/ Fatal /\ NackMoves(m) /\ UNCHANGED <<dlq, routed>>

\* An interrupted delivery is neither acknowledged nor rejected; its error stops the loop.
Abort(w) ==
  /\ task[w].pc = "interrupted" /\ Fatal /\ Frees(w)
  /\ SettleOnly /\ UNCHANGED <<cursor, committed, acked, dlq, routed, attempts>>

(***************************************************************************)
(* ReplayStreamDLQ, beside the loop or after it.                           *)
(***************************************************************************)
Replaying(m) == [NoTask EXCEPT !.pc = "reserving", !.msg = m]
ReplayOnly == UNCHANGED <<brokerVars, budget, loop, attempts, key, effects, acked, deliveries,
                          restarts>>

Drain ==
  /\ replays < MaxReplays /\ budget > 0 /\ task["replay"].pc = "idle" /\ dlq # <<>>
  /\ replays' = replays + 1
  /\ dlq' = <<>> /\ todo' = Tail(dlq)
  /\ task' = [task EXCEPT !["replay"] = Replaying(Head(dlq))]
  /\ ReplayOnly /\ UNCHANGED routed

ReplayNext ==
  /\ task["replay"].pc = "ok"
  /\ IF todo = <<>>
     THEN todo' = todo /\ Frees("replay")
     ELSE todo' = Tail(todo) /\ task' = [task EXCEPT !["replay"] = Replaying(Head(todo))]
  /\ ReplayOnly /\ UNCHANGED <<dlq, routed, replays>>

\* The first error routes its message back and ends the replay.
ReplayStops ==
  /\ task["replay"].pc \in {"failed", "pending", "interrupted"}
  /\ Routes(task["replay"].msg) /\ todo' = <<>> /\ Frees("replay")
  /\ ReplayOnly /\ UNCHANGED replays

\* The process dies and starts again: what it kept in memory is gone.
Restart ==
  /\ restarts < MaxRestarts /\ restarts' = restarts + 1
  /\ loop' = NoLoop /\ task' = [w \in Runners |-> NoTask]
  /\ attempts' = [m \in Messages |-> 0]
  /\ dlq' = <<>> /\ todo' = <<>>
  /\ cursor' = IF broker = "kafka" THEN committed ELSE None
  /\ UNCHANGED <<broker, appended, committed, budget, key, effects, acked, routed, deliveries, replays>>

RunStep(w) == Reserve(w) \/ ReserveFails(w) \/ Execute(w) \/ Confirm(w)
WorkerStep(w) ==
  \/ Count(w) \/ RunStep(w) \/ Acknowledge(w) \/ LeaveUnacked(w) \/ AckFails(w)
  \/ Park(w) \/ Retry(w) \/ GiveUp(w) \/ DeadLetter(w) \/ Abort(w)

StreamNext ==
  \/ Produce \/ Receive \/ Deliver \/ StopReceiving \/ ReceiveFails \/ LoopReturns \/ Cancel
  \/ \E w \in Workers : Dispatch(w) \/ WorkerStep(w)
  \/ Drain \/ RunStep("replay") \/ ReplayNext \/ ReplayStops \/ Restart

\* A goroutine that was started runs on, and a cancelled Receive returns.
StreamFairness ==
  /\ \A w \in Workers : WF_streamVars(WorkerStep(w))
  /\ WF_streamVars(StopReceiving) /\ WF_streamVars(LoopReturns)

StreamSpec == StreamInit /\ [][StreamNext]_streamVars /\ StreamFairness

(***************************************************************************)
(* Properties.                                                             *)
(***************************************************************************)
\* The effect of a message with an identity happens at most once, whatever
\* redeliveries, parallel deliveries, replays and restarts there are.
EffectAtMostOnce == \A m \in Messages : HasID => effects[m] <= 1

\* A message is acknowledged only after its effect or after it reached the
\* dead-letter target: the broker may forget it then.
AckedIsHandled == \A m \in acked : effects[m] > 0 \/ m \in routed

\* Once cancelled, or after the first fatal error, the loop returns with no
\* goroutine left behind.
LoopStops == []<>(loop.stop => Busy = {} /\ loop.pc = "returned")
=============================================================================
