----------------------------- MODULE CronLeader -----------------------------
(***************************************************************************)
(* The leased cron loop (runtime_cron_lease.go): replicas that share one   *)
(* state store elect a leader for one cron plan through a fenced lease,    *)
(* the leader fires ticks through a bounded worker pool, and a reservation *)
(* per tick (cronFireKey) dedupes what two leaders could both believe in.  *)
(*                                                                         *)
(* Wall clocks of replicas are unrelated.  A tick is a number; clock[r] is *)
(* the last tick r's clock has reached.  The TTL is abstracted: a live     *)
(* lease may expire at any moment (RunLease has the timed version).  The   *)
(* holder column distinguishes nothing: replicas may share one identity.   *)
(***************************************************************************)
EXTENDS Integers, FiniteSets

CONSTANTS
    Replicas,       \* processes that run the cron loop of the plan
    Nobody,         \* the owner of a key that was never reserved
    MaxTick,        \* bound: ticks 1 .. MaxTick of the schedule
    Pool,           \* worker pool size of the trigger, at least one
    MaxFence        \* bound: leadership terms explored

ASSUME PoolAssumption == Pool \in Nat \ {0}
ASSUME TickAssumption == MaxTick \in Nat
ASSUME NobodyAssumption == Nobody \notin Replicas

VARIABLES
    lease,      \* the lease row: last fence, and whether it is unexpired
    key,        \* per tick, the idempotency row of cronFireKey: outcome and exec
    rep,        \* per replica: pc, fence, renewer, lost, next
    inflight,   \* per replica: ticks whose run is executing
    clock,      \* per replica: the last tick its wall clock has reached
    stopping    \* per replica: the runtime context is done

vars == <<lease, key, rep, inflight, clock, stopping>>

Ticks == 1 .. MaxTick

\* down: no process. follower: polling. armed: waiting for the timer of next.
\* renewed: about to reserve next. reserved: about to take a worker. drain: teardown.
PCs == {"down", "follower", "armed", "renewed", "reserved", "drain"}
Leading == {"armed", "renewed", "reserved"}
Outcomes == {"none", "pending", "failed", "succeeded"}

Lease == [fence : Nat, live : BOOLEAN]
Replica == [pc : PCs, fence : Nat, renewer : BOOLEAN, lost : BOOLEAN, next : 0 .. MaxTick + 1]

TypeOK ==
    /\ lease \in Lease
    /\ key \in [Ticks -> [outcome : Outcomes, exec : Replicas \cup {Nobody}]]
    /\ rep \in [Replicas -> Replica]
    /\ inflight \in [Replicas -> SUBSET Ticks]
    /\ clock \in [Replicas -> 0 .. MaxTick]
    /\ stopping \in [Replicas -> BOOLEAN]

Polling == [pc |-> "follower", fence |-> 0, renewer |-> FALSE, lost |-> FALSE, next |-> 0]
Goes(h, pc) == [h EXCEPT !.pc = pc]
Down == Goes(Polling, "down")
ArmedFor(h, tick) == [Goes(h, "armed") EXCEPT !.next = tick]
Silent(h) == [h EXCEPT !.renewer = FALSE]
Signalled(h, lost) == [Silent(h) EXCEPT !.lost = lost]

Init ==
    /\ lease = [fence |-> 0, live |-> FALSE]
    /\ key = [t \in Ticks |-> [outcome |-> "none", exec |-> Nobody]]
    /\ rep = [r \in Replicas |-> Polling]
    /\ inflight = [r \in Replicas |-> {}]
    /\ clock \in [Replicas -> 0 .. MaxTick]
    /\ stopping = [r \in Replicas |-> FALSE]

----------------------------------------------------------------------------
(* The store. *)

\* Mutant: the store matches on the holder alone.
CurrentByHolder(r) == rep[r].fence # 0

Current(r) == rep[r].fence = lease.fence
Extended == [lease EXCEPT !.live = TRUE]
MayBeExtended(r) == lease' = lease \/ (Current(r) /\ lease' = Extended)

\* ReserveIdempotency: an absent key, or one whose run failed.
\* Mutant: a pending reservation can be taken over.
FreeUntilSucceeded(t) == key[t].outcome # "succeeded"

Free(t) == key[t].outcome \in {"none", "failed"}
Reserved(t, r) == [key EXCEPT ![t] = [outcome |-> "pending", exec |-> r]]

\* ResolveIdempotencyByExecution: only a pending key of this run.
Resolved(t, r, outcome) ==
    IF key[t] = [outcome |-> "pending", exec |-> r]
    THEN [key EXCEPT ![t].outcome = outcome]
    ELSE key

----------------------------------------------------------------------------
(* runLeasedCronLoop: the follower. *)

\* schedule.Next(time.Now()): the first tick strictly after the clock.
Armed(r, fence) == [pc |-> "armed", fence |-> fence, renewer |-> TRUE, lost |-> FALSE,
                    next |-> clock[r] + 1]
\* Mutant: an off-by-one in the next tick.
RearmedOneLate(r) == [rep EXCEPT ![r] = ArmedFor(@, clock[r] + 2)]

Rearmed(r) == [rep EXCEPT ![r] = ArmedFor(@, clock[r] + 1)]

\* Mutant: the insert has no takeover clause.
AcquireUntaken(r) ==
    /\ rep[r].pc = "follower"
    /\ ~stopping[r]
    /\ lease.fence = 0
    /\ lease.fence < MaxFence
    /\ lease' = [fence |-> lease.fence + 1, live |-> TRUE]
    /\ rep' = [rep EXCEPT ![r] = Armed(r, lease.fence + 1)]
    /\ UNCHANGED <<key, inflight, clock, stopping>>

AcquireLease(r) ==
    /\ rep[r].pc = "follower"
    /\ ~stopping[r]
    /\ ~lease.live
    /\ lease.fence < MaxFence
    /\ lease' = [fence |-> lease.fence + 1, live |-> TRUE]
    /\ rep' = [rep EXCEPT ![r] = Armed(r, lease.fence + 1)]
    /\ UNCHANGED <<key, inflight, clock, stopping>>

\* The loop ends when the context is done.
LeaveLoop(r) ==
    /\ rep[r].pc = "follower"
    /\ stopping[r]
    /\ rep' = [rep EXCEPT ![r] = Down]
    /\ UNCHANGED <<lease, key, inflight, clock, stopping>>

----------------------------------------------------------------------------
(* runCronLeaderLoop: the renewal goroutine. *)

BackgroundRenew(r) ==
    /\ rep[r].renewer
    /\ ~stopping[r]
    /\ Current(r)
    /\ lease' = Extended
    /\ UNCHANGED <<key, rep, inflight, clock, stopping>>

\* Not renewed, or a store error: close(lost) unless the context is done.
BackgroundRenewFails(r) ==
    /\ rep[r].renewer
    /\ MayBeExtended(r)
    /\ rep' = [rep EXCEPT ![r] = Signalled(@, ~stopping[r])]
    /\ UNCHANGED <<key, inflight, clock, stopping>>

----------------------------------------------------------------------------
(* runCronLeaderLoop: the timer loop. *)

\* ctx.Done or lost: return, which starts the deferred teardown.
LeaveTimerLoop(r) ==
    /\ rep[r].pc = "armed"
    /\ stopping[r] \/ rep[r].lost
    /\ rep' = [rep EXCEPT ![r] = Goes(@, "drain")]
    /\ UNCHANGED <<lease, key, inflight, clock, stopping>>

TimerFired(r) == rep[r].pc = "armed" /\ clock[r] >= rep[r].next

\* The synchronous renewal immediately before the fire.
RenewBeforeFire(r) ==
    /\ TimerFired(r)
    /\ ~stopping[r]
    /\ Current(r)
    /\ lease' = Extended
    /\ rep' = [rep EXCEPT ![r] = Goes(@, "renewed")]
    /\ UNCHANGED <<key, inflight, clock, stopping>>

RenewBeforeFireFails(r) ==
    /\ TimerFired(r)
    /\ MayBeExtended(r)
    /\ rep' = [rep EXCEPT ![r] = Goes(@, "drain")]
    /\ UNCHANGED <<key, inflight, clock, stopping>>

Reserve(r) ==
    /\ rep[r].pc = "renewed"
    /\ ~stopping[r]
    /\ Free(rep[r].next)
    /\ key' = Reserved(rep[r].next, r)
    /\ rep' = [rep EXCEPT ![r] = Goes(@, "reserved")]
    /\ UNCHANGED <<lease, inflight, clock, stopping>>

\* Mutant: a store error lets the fire go ahead.
SkipTickFailOpen(r) ==
    /\ rep[r].pc = "renewed"
    /\ UNCHANGED key
    /\ rep' = [rep EXCEPT ![r] = Goes(@, "reserved")]
    /\ UNCHANGED <<lease, inflight, clock, stopping>>

\* duplicate_fire or reserve_error: the tick is skipped; on shutdown, return.
\* A reservation that failed at the client may stand in the store.
SkipTick(r) ==
    /\ rep[r].pc = "renewed"
    /\ \/ UNCHANGED key
       \/ Free(rep[r].next) /\ key' = Reserved(rep[r].next, r)
    /\ \/ rep' = Rearmed(r)
       \/ stopping[r] /\ rep' = [rep EXCEPT ![r] = Goes(@, "drain")]
    /\ UNCHANGED <<lease, inflight, clock, stopping>>

\* A worker is free: the run starts on a goroutine, the loop arms the next tick.
StartFire(r) ==
    /\ rep[r].pc = "reserved"
    /\ Cardinality(inflight[r]) < Pool
    /\ inflight' = [inflight EXCEPT ![r] = @ \cup {rep[r].next}]
    /\ rep' = Rearmed(r)
    /\ UNCHANGED <<lease, key, clock, stopping>>

\* The context ends while waiting for a worker: the reservation stays pending.
NoWorker(r) ==
    /\ rep[r].pc = "reserved"
    /\ stopping[r]
    /\ rep' = [rep EXCEPT ![r] = Goes(@, "drain")]
    /\ UNCHANGED <<lease, key, inflight, clock, stopping>>

\* The run of tick t ends; finishPipelineExecution resolves its reservation.
FinishFire(r, t) ==
    /\ t \in inflight[r]
    /\ inflight' = [inflight EXCEPT ![r] = @ \ {t}]
    /\ \E outcome \in {"failed", "succeeded"} : key' = Resolved(t, r, outcome)
    /\ UNCHANGED <<lease, rep, clock, stopping>>

----------------------------------------------------------------------------
(* The deferred teardown, in LIFO order. *)

StopRenewer(r) ==
    /\ rep[r].pc = "drain"
    /\ rep[r].renewer
    /\ rep' = [rep EXCEPT ![r] = Silent(@)]
    /\ UNCHANGED <<lease, key, inflight, clock, stopping>>

\* Mutant: the lease is released before the runs are waited for.
ReleaseBeforeWait(r) ==
    /\ rep[r].pc = "drain"
    /\ ~rep[r].renewer
    /\ lease' = IF Current(r) THEN [lease EXCEPT !.live = FALSE] ELSE lease
    /\ rep' = [rep EXCEPT ![r] = Polling]
    /\ UNCHANGED <<key, inflight, clock, stopping>>

\* Mutant: the lease is released before the renewal goroutine is stopped.
ReleaseBeforeStop(r) ==
    /\ rep[r].pc = "drain"
    /\ inflight[r] = {}
    /\ lease' = IF Current(r) THEN [lease EXCEPT !.live = FALSE] ELSE lease
    /\ rep' = [rep EXCEPT ![r] = Goes(@, "follower")]
    /\ UNCHANGED <<key, inflight, clock, stopping>>

\* wg.Wait, then releaseCronLeaseOnShutdown, then back to the follower loop.
ReleaseLease(r) ==
    /\ rep[r].pc = "drain"
    /\ ~rep[r].renewer
    /\ inflight[r] = {}
    /\ lease' = IF Current(r) THEN [lease EXCEPT !.live = FALSE] ELSE lease
    /\ rep' = [rep EXCEPT ![r] = Polling]
    /\ UNCHANGED <<key, inflight, clock, stopping>>

----------------------------------------------------------------------------
(* The environment. *)

Expire ==
    /\ lease.live
    /\ lease' = [lease EXCEPT !.live = FALSE]
    /\ UNCHANGED <<key, rep, inflight, clock, stopping>>

ClockTick(r) ==
    /\ rep[r].pc # "down"
    /\ clock[r] < MaxTick
    /\ clock' = [clock EXCEPT ![r] = @ + 1]
    /\ UNCHANGED <<lease, key, rep, inflight, stopping>>

\* SIGTERM: the runtime context is cancelled.
Shutdown(r) ==
    /\ rep[r].pc # "down"
    /\ ~stopping[r]
    /\ stopping' = [stopping EXCEPT ![r] = TRUE]
    /\ UNCHANGED <<lease, key, rep, inflight, clock>>

\* The process dies with its runs; the rows of the store stay.
Crash(r) ==
    /\ rep[r].pc # "down"
    /\ rep' = [rep EXCEPT ![r] = Down]
    /\ inflight' = [inflight EXCEPT ![r] = {}]
    /\ UNCHANGED <<lease, key, clock, stopping>>

\* A new process, perhaps on a machine with another clock.
Restart(r) ==
    /\ rep[r].pc = "down"
    /\ rep' = [rep EXCEPT ![r] = Polling]
    /\ stopping' = [stopping EXCEPT ![r] = FALSE]
    /\ \E now \in 0 .. MaxTick : clock' = [clock EXCEPT ![r] = now]
    /\ UNCHANGED <<lease, key, inflight>>

----------------------------------------------------------------------------
Next ==
    \/ \E r \in Replicas :
          \/ AcquireLease(r) \/ LeaveLoop(r)
          \/ BackgroundRenew(r) \/ BackgroundRenewFails(r)
          \/ LeaveTimerLoop(r) \/ RenewBeforeFire(r) \/ RenewBeforeFireFails(r)
          \/ Reserve(r) \/ SkipTick(r) \/ StartFire(r) \/ NoWorker(r)
          \/ \E t \in Ticks : FinishFire(r, t)
          \/ StopRenewer(r) \/ ReleaseLease(r)
          \/ ClockTick(r) \/ Shutdown(r) \/ Crash(r) \/ Restart(r)
    \/ Expire

Spec == Init /\ [][Next]_vars

\* Followers poll, the TTL runs out, a teardown is not held up but by its runs.
Fairness ==
    /\ WF_vars(Expire)
    /\ \A r \in Replicas : WF_vars(AcquireLease(r)) /\ WF_vars(StopRenewer(r))

FairSpec == Spec /\ Fairness

----------------------------------------------------------------------------
(* Properties. *)

\* Whatever the clocks, terms and identities do, one run per tick: never two
\* replicas at once, and nobody once a run of it succeeded.
TickRunsOnce ==
    \A t \in Ticks, r \in Replicas : t \in inflight[r] =>
        /\ key[t].outcome = "pending"
        /\ \A s \in Replicas \ {r} : t \notin inflight[s]

\* A tick that ran to success stays so; one that was reserved stays with its run
\* until that run settles it: no late writer reopens it.
KeyKeepsItsRun ==
    [][\A t \in Ticks : key'[t] # key[t] /\ key[t].outcome \in {"pending", "succeeded"} =>
          key'[t].exec = key[t].exec /\ t \in inflight[key[t].exec]]_vars

\* A fire under way belongs to a leader, or to a teardown that waits for it.
FiresUnderLeadership ==
    \A r \in Replicas : inflight[r] # {} => rep[r].pc \in Leading \cup {"drain"}

\* An expired or released lease comes back under its fence only for a replica
\* still in that term: no racing renewal revives what the teardown released.
NoResurrection ==
    [][~lease.live /\ lease'.live /\ lease'.fence = lease.fence =>
          \E r \in Replicas : rep[r].pc \in Leading \cup {"drain"} /\ Current(r)]_vars

\* While a replica polls, the schedule gets a leader again, whoever crashed
\* or gave up (MaxFence permitting).
LeadershipRecovers ==
    \A r \in Replicas :
        rep[r].pc = "follower" /\ ~stopping[r] ~>
            \/ \E s \in Replicas : rep[s].pc \in Leading \cup {"drain"} /\ Current(s)
            \/ rep[r].pc # "follower" \/ stopping[r]
            \/ lease.fence = MaxFence

\* The comment of the teardown: on every return path, in-flight fires finish
\* before the lease can move, so a new leader never overlaps them.
FiresFinishBeforeLeaseMoves ==
    [][lease'.fence # lease.fence =>
          \A r \in Replicas : rep[r].pc = "drain" /\ Current(r) => inflight[r] = {}]_vars

\* The row and the terms of the replicas implement the abstract lease.
Abstract == INSTANCE FencedLease WITH
    Clients <- Replicas,
    token <- [r \in Replicas |-> rep[r].fence]
ImplementsFencedLease == Abstract!LeaseSpec
============================================================================
