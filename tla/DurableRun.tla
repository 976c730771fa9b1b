----------------------------- MODULE DurableRun -----------------------------
(***************************************************************************)
(* One durable run (http_runtime.go, durable_recovery.go): the live run    *)
(* that journals its steps, the approval that parks it and the resume that *)
(* continues it, the scans and the operator request that replay it after a *)
(* crash.  Each of them is a leg: a goroutine of one replica that holds    *)
(* the lease run:<exec_id> while it executes steps of the plan.            *)
(*                                                                         *)
(* A step calls one tool; its kind is the tool's effect class.  The        *)
(* terminal is a Push or a Sink, a side-effecting output tool; a reply     *)
(* needs its client and is abandoned (Abandon).  Every call to the store   *)
(* is one step, and a replica may die between two of them.                 *)
(***************************************************************************)
EXTENDS Integers, Sequences, FiniteSets

CONSTANTS
    Plan,           \* the kinds of the steps, in order
    Live,           \* the leg that received the request
    Resumes,        \* legs that continue an approved run, at most one per host
    Scanners,       \* recovery loops, each replaying one run at a time
    Operators,      \* admin requests to recover, each made at most once
    HostOf,         \* the replica of a leg
    MaxCrashes,     \* bound: replicas that die
    MaxStalls       \* bound: heartbeats that miss a whole TTL

Legs == {Live} \cup Resumes \cup Scanners \cup Operators
Hosts == {HostOf[l] : l \in Legs}
Recoverers == Scanners \cup Operators

Kinds == {"read", "idempotent", "effect", "gated"}
Terminal == Len(Plan) + 1
Calls == 1 .. Terminal
Kind(k) == IF k = Terminal THEN "effect" ELSE Plan[k]
SideEffecting(k) == Kind(k) \in {"effect", "gated"}

ASSUME PlanAssumption == Plan \in Seq(Kinds)
ASSUME BoundsAssumption == MaxCrashes \in Nat /\ MaxStalls \in Nat
ASSUME LegsAssumption ==
    /\ Live \notin Resumes \cup Recoverers
    /\ Resumes \cap Recoverers = {} /\ Scanners \cap Operators = {}
    /\ \A r, s \in Resumes : HostOf[r] = HostOf[s] => r = s

VARIABLES
    lease,      \* the row run:<exec_id>: last fence, and whether it is unexpired
    run,        \* the rows of the run: status, journal, ckpt, intents, trigger
    keys,       \* idempotency rows of the idempotent steps
    approvals,  \* approval records, in the order they were made
    leg,        \* what each leg is doing
    parked,     \* per host, the in-memory registry of approval resumes
    past,       \* what happened: effects per call, acked, excuses
    faults      \* crashes and stalls so far

vars == <<lease, run, keys, approvals, leg, parked, past, faults>>

Statuses == {"none", "running", "completed", "failed"}
Outcomes == {"none", "pending", "failed", "succeeded"}
PCs == {"off", "spent",                                     \* no goroutine
        "saved", "journaling",                              \* the live run starts
        "seen", "checking", "policy",                       \* recovery
        "acquiring",                                        \* a resume wants the lease
        "enter", "reserved", "open", "done", "settling", "called",  \* in a call
        "parking", "confirm", "proof",
        "resolve", "save", "prune", "release"}              \* finish

InCall == {"enter", "reserved", "open", "done", "settling", "called"}
Executing == InCall \cup {"parking", "confirm", "proof"}
Renewing == Executing \cup {"journaling", "checking", "policy"}
Finishing == {"resolve", "save", "prune", "release"}

Intents == [step : Calls, id : Nat, done : BOOLEAN]
Approvals == [status : {"pending", "approved", "denied"}, step : Calls, fence : Nat]
Leg == [pc : PCs, step : Calls, fence : Nat, lost : BOOLEAN, approval : Nat,
        ending : {"none", "completed", "failed", "delivered"}]

LeaseRow == [fence : Nat, live : BOOLEAN]
Run == [status : Statuses, journal : BOOLEAN, ckpt : 0 .. Len(Plan),
        intents : SUBSET Intents, trigger : Outcomes]
Books == [effects : [Calls -> 0 .. 2], acked : BOOLEAN, journaled : BOOLEAN,
          excuses : SUBSET {"scan", "resume", "forced"}]

TypeOK ==
    /\ lease \in LeaseRow
    /\ run \in Run
    /\ keys \in [Calls -> Outcomes]
    /\ approvals \in Seq(Approvals)
    /\ leg \in [Legs -> Leg]
    /\ parked \in [Hosts -> SUBSET (1 .. Len(approvals))]
    /\ past \in Books
    /\ faults \in [crashes : 0 .. MaxCrashes, stalls : 0 .. MaxStalls]

Rest(pc) == [pc |-> pc, step |-> 1, fence |-> 0, lost |-> FALSE, approval |-> 0,
             ending |-> "none"]

\* The trigger reserved its key for this run before the run starts.
Init ==
    /\ lease = [fence |-> 0, live |-> FALSE]
    /\ run = [status |-> "none", journal |-> FALSE, ckpt |-> 0, intents |-> {},
              trigger |-> "pending"]
    /\ keys = [k \in Calls |-> "none"]
    /\ approvals = <<>>
    /\ leg = [l \in Legs |-> Rest("off")]
    /\ parked = [h \in Hosts |-> {}]
    /\ past = [effects |-> [k \in Calls |-> 0], acked |-> FALSE, journaled |-> FALSE,
               excuses |-> {}]
    /\ faults = [crashes |-> 0, stalls |-> 0]

----------------------------------------------------------------------------
(* Store operations and moves of a leg. *)

Pending == \E i \in DOMAIN approvals : approvals[i].status = "pending"
Approved == {i \in DOMAIN approvals : approvals[i].status = "approved"}

Free == ~lease.live
Current(l) == leg[l].fence = lease.fence
Holds(l) == leg[l].fence # 0 /\ Current(l)
Extended == [lease EXCEPT !.live = TRUE]
\* Mutant: ReleaseLease does not look at the fence.
TombstonedAnyway(l) == [lease EXCEPT !.live = FALSE]

Tombstoned(l) == IF Holds(l) THEN [lease EXCEPT !.live = FALSE] ELSE lease

\* Mutant: a step is skipped.
AtStepAfter(h, k) ==
    [h EXCEPT !.step = k + 1, !.pc = IF k + 1 = Terminal THEN "confirm" ELSE "enter"]

AtStep(h, k) == [h EXCEPT !.step = k, !.pc = IF k = Terminal THEN "confirm" ELSE "enter"]
Goes(l, pc) == leg' = [leg EXCEPT ![l].pc = pc]
Begins(l, k) == leg' = [leg EXCEPT ![l] = AtStep(@, k)]
Ends(l, ending) == leg' = [leg EXCEPT ![l].pc = "resolve", ![l].ending = ending]

\* Mutant: an unexpired lease is taken over.
TakesHeldLease(l, pc) ==
    /\ lease' = [fence |-> lease.fence + 1, live |-> TRUE]
    /\ leg' = [leg EXCEPT ![l].pc = pc, ![l].fence = lease.fence + 1]

\* Mutant: only a row that is not there yet can be acquired.
TakesNewLease(l, pc) ==
    /\ lease.fence = 0
    /\ lease' = [fence |-> 1, live |-> TRUE]
    /\ leg' = [leg EXCEPT ![l].pc = pc, ![l].fence = 1]

\* AcquireLease: an absent, expired or tombstoned row, at the next fence.
TakesLease(l, pc) ==
    /\ Free
    /\ lease' = [fence |-> lease.fence + 1, live |-> TRUE]
    /\ leg' = [leg EXCEPT ![l].pc = pc, ![l].fence = lease.fence + 1]

Failed(r) == IF r.status = "running" THEN [r EXCEPT !.status = "failed"] ELSE r

\* Mutant: the status of the run is not looked at.
PrunableAtAnyStatus(r) == r.journal /\ ~Pending

\* pruneRunJournalRows: one transaction that looks before it deletes.
Prunable(r) == r.journal /\ r.status \in {"completed", "failed"} /\ ~Pending
Pruned(r) == IF Prunable(r)
             THEN [r EXCEPT !.journal = FALSE, !.ckpt = 0, !.intents = {}]
             ELSE r

\* A side-effecting call is done at most twice in the books.
Counted(k) == [past EXCEPT !.effects[k] = IF @ < 2 THEN @ + 1 ELSE 2]

Excused(why) == [past EXCEPT !.excuses = @ \cup why]

----------------------------------------------------------------------------
(* runPlanResultWithSessionAndTerminal: the start of the live run. *)

SaveExecution ==
    /\ run.status = "none"
    /\ leg[Live].pc = "off"
    /\ run' = [run EXCEPT !.status = "running"]
    /\ Goes(Live, "saved")
    /\ UNCHANGED <<lease, keys, approvals, parked, past, faults>>

\* The lease is held before the journal row exists.
AcquireRunLease ==
    /\ leg[Live].pc = "saved"
    /\ TakesLease(Live, "journaling")
    /\ UNCHANGED <<run, keys, approvals, parked, past, faults>>

SaveRunJournal ==
    /\ leg[Live].pc = "journaling"
    /\ ~leg[Live].lost
    /\ run' = [run EXCEPT !.journal = TRUE]
    /\ past' = [past EXCEPT !.journaled = TRUE]
    /\ Begins(Live, 1)
    /\ UNCHANGED <<lease, keys, approvals, parked, faults>>

\* A store error or a lost lease: a run without its journal does not go on.
StartFails ==
    /\ leg[Live].pc \in {"saved", "journaling"}
    /\ Ends(Live, "failed")
    /\ UNCHANGED <<lease, run, keys, approvals, parked, past, faults>>

----------------------------------------------------------------------------
(* A call of a step or of the terminal (runStepsResult, Executor.Execute). *)

\* The terminal's output tool has a fixed call id; a provider mints the others.
CallId(l) == IF leg[l].step = Terminal THEN 0 ELSE leg[l].fence

Intent(l, done) == [step |-> leg[l].step, id |-> CallId(l), done |-> done]
WithIntent(l, done) ==
    [run EXCEPT !.intents = {i \in @ : i.step # leg[l].step \/ i.id # CallId(l)}
                            \cup {Intent(l, done)}]

ReadOnlyCall(l) ==
    /\ leg[l].pc = "enter"
    /\ Kind(leg[l].step) = "read"
    /\ ~leg[l].lost
    /\ Goes(l, "called")
    /\ UNCHANGED <<lease, run, keys, approvals, parked, past, faults>>

\* Mutant: a succeeded key of this execution is reserved again.
EnterableAnyway(l, k) == keys[k] # "pending" \/ l \in Recoverers

\* An absent or failed key; a pending one only in a replay.
Enterable(l, k) ==
    keys[k] \in {"none", "failed"} \/ (keys[k] = "pending" /\ l \in Recoverers)

ReserveIdempotency(l) ==
    /\ leg[l].pc = "enter"
    /\ Kind(leg[l].step) = "idempotent"
    /\ ~leg[l].lost
    /\ Enterable(l, leg[l].step)
    /\ keys' = [keys EXCEPT ![leg[l].step] = "pending"]
    /\ Goes(l, "reserved")
    /\ UNCHANGED <<lease, run, approvals, parked, past, faults>>

\* The call succeeded before: its duplicate result stands in for it.
SkipDuplicate(l) ==
    /\ leg[l].pc = "enter"
    /\ Kind(leg[l].step) = "idempotent"
    /\ keys[leg[l].step] = "succeeded"
    /\ ~leg[l].lost
    /\ Goes(l, "called")
    /\ UNCHANGED <<lease, run, keys, approvals, parked, past, faults>>

Authorized(l) == Kind(leg[l].step) = "gated" => leg[l].approval # 0

BeginToolIntent(l) ==
    /\ leg[l].pc = IF Kind(leg[l].step) = "idempotent" THEN "reserved" ELSE "enter"
    /\ Kind(leg[l].step) # "read"
    /\ Authorized(l)
    /\ ~leg[l].lost
    /\ run' = WithIntent(l, FALSE)
    /\ Goes(l, "open")
    /\ UNCHANGED <<lease, keys, approvals, parked, past, faults>>

\* The world changes, even if the context was cancelled meanwhile.
Effect(l) ==
    /\ leg[l].pc = "open"
    /\ past' = Counted(leg[l].step)
    /\ Goes(l, "done")
    /\ UNCHANGED <<lease, run, keys, approvals, parked, faults>>

CompleteToolIntent(l) ==
    /\ leg[l].pc = "done"
    /\ ~leg[l].lost
    /\ run' = WithIntent(l, TRUE)
    /\ Goes(l, IF Kind(leg[l].step) = "idempotent" THEN "settling" ELSE "called")
    /\ UNCHANGED <<lease, keys, approvals, parked, past, faults>>

\* An error result of the tool is settled as failed; an agent may go on from it.
SettleIdempotency(l) ==
    /\ leg[l].pc = "settling"
    /\ ~leg[l].lost
    /\ \E outcome \in {"succeeded", "failed"} : keys' = [keys EXCEPT ![leg[l].step] = outcome]
    /\ Goes(l, "called")
    /\ UNCHANGED <<lease, run, approvals, parked, past, faults>>

Checkpoint(l) ==
    /\ leg[l].pc = "called"
    /\ leg[l].step # Terminal
    /\ ~leg[l].lost
    /\ run' = [run EXCEPT !.ckpt = IF @ < leg[l].step THEN leg[l].step ELSE @]
    /\ Begins(l, leg[l].step + 1)
    /\ UNCHANGED <<lease, keys, approvals, parked, past, faults>>

\* The tool, the provider, the store or the lease fails: the run fails.  An open
\* intent stays open, and so does a reserved key, unless the call never began.
CallFails(l) ==
    /\ leg[l].pc \in InCall \cup {"parking"}
    /\ leg[l].pc = "parking" => leg[l].lost
    /\ \/ UNCHANGED keys
       \/ /\ leg[l].pc = "reserved"
          /\ ~leg[l].lost
          /\ keys' = [keys EXCEPT ![leg[l].step] = "failed"]
    /\ Ends(l, "failed")
    /\ UNCHANGED <<lease, run, approvals, parked, past, faults>>

\* suspendForApproval: no approval covers the call, a record is made.
Suspend(l) ==
    /\ leg[l].pc = "enter"
    /\ ~Authorized(l)
    /\ ~leg[l].lost
    /\ approvals' = Append(approvals, [status |-> "pending", step |-> leg[l].step,
                                       fence |-> leg[l].fence])
    /\ leg' = [leg EXCEPT ![l].pc = "parking", ![l].approval = Len(approvals) + 1]
    /\ UNCHANGED <<lease, run, keys, parked, past, faults>>

\* rememberSuspendedPlan, then the deferred release.
Park(l) ==
    /\ leg[l].pc = "parking"
    /\ ~leg[l].lost
    /\ parked' = [parked EXCEPT ![HostOf[l]] = @ \cup {leg[l].approval}]
    /\ Goes(l, "release")
    /\ UNCHANGED <<lease, run, keys, approvals, past, faults>>

----------------------------------------------------------------------------
(* The terminal and the end of a run. *)

\* Mutant: the lease is not renewed before the terminal.
ConfirmUnproven(l) ==
    /\ leg[l].pc = "confirm"
    /\ ~leg[l].lost
    /\ Goes(l, "enter")
    /\ UNCHANGED <<lease, run, keys, approvals, parked, past, faults>>

Confirm(l) ==
    /\ leg[l].pc = "confirm"
    /\ ~leg[l].lost
    /\ Current(l)
    /\ lease' = Extended
    /\ Goes(l, "enter")
    /\ UNCHANGED <<run, keys, approvals, parked, past, faults>>

\* Not current, lost, or a store error: fail closed.
ConfirmFails(l) ==
    /\ leg[l].pc = "confirm"
    /\ Ends(l, "failed")
    /\ UNCHANGED <<lease, run, keys, approvals, parked, past, faults>>

\* ResolveIdempotencyByExecution touches a pending key only.
Resolved(outcome) ==
    IF run.trigger = "pending" THEN [run EXCEPT !.trigger = outcome] ELSE run

\* The terminal returned success: its key is settled at once, if the store lets it.
SettleTrigger(l) ==
    /\ leg[l].pc = "called"
    /\ leg[l].step = Terminal
    /\ run' = Resolved("succeeded") \/ UNCHANGED run
    /\ past' = [past EXCEPT !.acked = TRUE]
    /\ Goes(l, "proof")
    /\ UNCHANGED <<lease, keys, approvals, parked, faults>>

StopAndConfirm(l) ==
    /\ leg[l].pc = "proof"
    /\ ~leg[l].lost
    /\ Current(l)
    /\ lease' = Extended
    /\ Ends(l, "completed")
    /\ UNCHANGED <<run, keys, approvals, parked, past, faults>>

ProofFails(l) ==
    /\ leg[l].pc = "proof"
    /\ Ends(l, "delivered")
    /\ UNCHANGED <<lease, run, keys, approvals, parked, past, faults>>

\* Mutant: a failed run always settles its trigger as failed.
FailedUnlessCompleted(ending) == IF ending = "completed" THEN "succeeded" ELSE "failed"

\* A run whose terminal succeeded but whose final proof failed is recorded as
\* failed, its trigger as completed.
TriggerOutcome(ending) == IF ending = "failed" THEN "failed" ELSE "succeeded"

ResolveTrigger(l) ==
    /\ leg[l].pc = "resolve"
    /\ run' = Resolved(TriggerOutcome(leg[l].ending)) \/ UNCHANGED run
    /\ Goes(l, "save")
    /\ UNCHANGED <<lease, keys, approvals, parked, past, faults>>

\* SaveExecution writes the status whatever it was.  The journal is disposable
\* only once the outcome of the trigger is durable.
SaveOutcome(l) ==
    /\ leg[l].pc = "save"
    /\ run' = [run EXCEPT !.status = IF leg[l].ending = "completed" THEN "completed" ELSE "failed"]
    /\ Goes(l, IF leg[l].ending = "completed" /\ run.trigger # "pending"
               THEN "prune" ELSE "release")
    /\ UNCHANGED <<lease, keys, approvals, parked, past, faults>>

\* A prune failure never fails the run.
PruneRunJournal(l) ==
    /\ leg[l].pc = "prune"
    /\ run' = Pruned(run) \/ UNCHANGED run
    /\ Goes(l, "release")
    /\ UNCHANGED <<lease, keys, approvals, parked, past, faults>>

Rested(l) == Rest(IF l \in Operators THEN "spent" ELSE "off")

\* The deferred release; a recovery that lost its lease fails the run before.
Release(l) ==
    /\ leg[l].pc = "release"
    /\ lease' = Tombstoned(l)
    /\ run' = IF l \in Recoverers /\ leg[l].lost THEN Failed(run) ELSE run
    /\ leg' = [leg EXCEPT ![l] = Rested(l)]
    /\ UNCHANGED <<keys, approvals, parked, past, faults>>

----------------------------------------------------------------------------
(* The heartbeat of a leg, RunLease with its clock abstracted away. *)

Renew(l) ==
    /\ leg[l].pc \in Renewing
    /\ ~leg[l].lost
    /\ Holds(l)
    /\ Free
    /\ lease' = Extended
    /\ UNCHANGED <<run, keys, approvals, leg, parked, past, faults>>

\* The renewal is refused: the execution context is cancelled.
MarkLost(l) ==
    /\ leg[l].pc \in Renewing
    /\ ~leg[l].lost
    /\ ~Current(l)
    /\ leg' = [leg EXCEPT ![l].lost = TRUE]
    /\ UNCHANGED <<lease, run, keys, approvals, parked, past, faults>>

\* The renewal goes unanswered: just as fail-closed.
RenewalErrs(l) ==
    /\ leg[l].pc \in Renewing
    /\ ~leg[l].lost
    /\ Current(l)
    /\ faults.stalls < MaxStalls
    /\ leg' = [leg EXCEPT ![l].lost = TRUE]
    /\ faults' = [faults EXCEPT !.stalls = @ + 1]
    /\ UNCHANGED <<lease, run, keys, approvals, parked, past>>

\* A live process renews in time, unless it stalls.  A terminal begins within
\* the TTL its confirm obtained.
Stall(l) ==
    /\ Holds(l)
    /\ faults.stalls < MaxStalls
    /\ ~(leg[l].pc = "enter" /\ leg[l].step = Terminal)
    /\ faults' = [faults EXCEPT !.stalls = @ + 1]

Expire ==
    /\ lease.live
    /\ lease' = [lease EXCEPT !.live = FALSE]
    /\ \/ (\A l \in Legs : ~Holds(l)) /\ UNCHANGED faults
       \/ \E l \in Legs : Stall(l)
    /\ UNCHANGED <<run, keys, approvals, leg, parked, past>>

----------------------------------------------------------------------------
(* Recovery: the scan, the operator, and what a claimed run gets. *)

\* durableRunClaimable: a reading that the claim below does not repeat.
Scan(l) ==
    /\ l \in Scanners
    /\ leg[l].pc = "off"
    /\ run.journal /\ run.status = "running" /\ ~Pending
    /\ Goes(l, "seen")
    /\ UNCHANGED <<lease, run, keys, approvals, parked, past, faults>>

\* serveAdminRunRecover: refuses a parked and a completed run.
Inspect(l) ==
    /\ l \in Operators
    /\ leg[l].pc = "off"
    /\ run.journal /\ run.status # "completed" /\ ~Pending
    /\ Goes(l, "seen")
    /\ UNCHANGED <<lease, run, keys, approvals, parked, past, faults>>

Claim(l) ==
    /\ leg[l].pc = "seen"
    /\ TakesLease(l, "checking")
    /\ UNCHANGED <<run, keys, approvals, parked, past, faults>>

\* The lease is held: this run is somebody's.
RunActive(l) ==
    /\ leg[l].pc = "seen"
    /\ lease.live
    /\ leg' = [leg EXCEPT ![l] = Rested(l)]
    /\ UNCHANGED <<lease, run, keys, approvals, parked, past, faults>>

\* Mutant: approvals are not looked at again once the lease is held.
NoRecheck(l) ==
    /\ leg[l].pc = "checking"
    /\ Goes(l, "policy")
    /\ UNCHANGED <<lease, run, keys, approvals, parked, past, faults>>

RecheckApprovals(l) ==
    /\ leg[l].pc = "checking"
    /\ ~leg[l].lost
    /\ Goes(l, IF Pending THEN "release" ELSE "policy")
    /\ UNCHANGED <<lease, run, keys, approvals, parked, past, faults>>

\* The claim was lost before the policy was applied.
LeaveClaim(l) ==
    /\ leg[l].pc \in {"checking", "policy"}
    /\ leg[l].lost
    /\ Goes(l, "release")
    /\ UNCHANGED <<lease, run, keys, approvals, parked, past, faults>>

\* The plan was edited or removed, or its reply has no client any more; the
\* prune may fail.
Abandon(l) ==
    /\ leg[l].pc = "policy"
    /\ ~leg[l].lost
    /\ run' \in {Failed(run), Pruned(Failed(run))}
    /\ Goes(l, "release")
    /\ UNCHANGED <<lease, keys, approvals, parked, past, faults>>

\* Mutant: a completed side-effecting intent does not block.
BlockedByOpen == \E i \in run.intents : i.step > run.ckpt /\ ~i.done

\* durableReplayBlockingIntent, over the interrupted steps.
Blocked == \E i \in run.intents :
    i.step > run.ckpt /\ (~i.done \/ Kind(i.step) # "idempotent")

\* Indeterminate or replay-unsafe: the run fails, the journal stays.
FailLoudly(l) ==
    /\ leg[l].pc = "policy"
    /\ ~leg[l].lost
    /\ run' = Failed(run)
    /\ Goes(l, "release")
    /\ UNCHANGED <<lease, keys, approvals, parked, past, faults>>

\* The replay goes on after the last checkpoint; a gated call finds the record
\* that was approved by now.
Approval == IF Approved = {} THEN 0 ELSE CHOOSE a \in Approved : TRUE
Replays(l) == leg' = [leg EXCEPT ![l] = AtStep([@ EXCEPT !.approval = Approval], run.ckpt + 1)]

Replay(l) ==
    /\ l \in Scanners
    /\ leg[l].pc = "policy"
    /\ ~leg[l].lost
    /\ ~Blocked
    /\ Replays(l)
    /\ past' = Excused(IF run.status # "running" THEN {"scan"} ELSE {})
    /\ UNCHANGED <<lease, run, keys, approvals, parked, faults>>

\* The operator's replay ignores the intents and reopens a failed run.
ForcedReplay(l) ==
    /\ l \in Operators
    /\ leg[l].pc = "policy"
    /\ ~leg[l].lost
    /\ run' = [run EXCEPT !.status = "running"]
    /\ Replays(l)
    /\ past' = Excused({"forced"})
    /\ UNCHANGED <<lease, keys, approvals, parked, faults>>

----------------------------------------------------------------------------
(* Approvals. *)

\* The decision reaches any host; only the one that parked the run resumes it.
Approve(i, h) ==
    /\ approvals[i].status = "pending"
    /\ approvals' = [approvals EXCEPT ![i].status = "approved"]
    /\ \/ /\ i \notin parked[h]
          /\ UNCHANGED <<leg, parked>>
       \/ /\ i \in parked[h]
          /\ parked' = [parked EXCEPT ![h] = @ \ {i}]
          /\ \E r \in Resumes :
                /\ HostOf[r] = h
                /\ leg[r].pc = "off"
                /\ leg' = [leg EXCEPT ![r].pc = "acquiring", ![r].approval = i,
                                      ![r].step = approvals[i].step]
    /\ UNCHANGED <<lease, run, keys, past, faults>>

Deny(i) ==
    /\ approvals[i].status = "pending"
    /\ approvals' = [approvals EXCEPT ![i].status = "denied"]
    /\ run' = Failed(run)
    /\ UNCHANGED <<lease, keys, leg, parked, past, faults>>

\* runApprovedResume, within its retries; the run itself is not looked at again.
AcquireResume(l) ==
    /\ leg[l].pc = "acquiring"
    /\ TakesLease(l, "enter")
    /\ past' = Excused(IF lease.fence # approvals[leg[l].approval].fence
                       THEN {"resume"} ELSE {})
    /\ UNCHANGED <<run, keys, approvals, parked, faults>>

\* Another holder kept the lease through all the retries.
GiveUp(l) ==
    /\ leg[l].pc = "acquiring"
    /\ lease.live
    /\ leg' = [leg EXCEPT ![l] = Rested(l)]
    /\ UNCHANGED <<lease, run, keys, approvals, parked, past, faults>>

----------------------------------------------------------------------------
(* The environment. *)

\* A replica dies with its legs and its registry; another process takes its
\* place, and scans.
Crash(h) ==
    /\ faults.crashes < MaxCrashes
    /\ faults' = [faults EXCEPT !.crashes = @ + 1]
    /\ leg' = [l \in Legs |-> IF HostOf[l] # h \/ leg[l].pc = "off" THEN leg[l] ELSE Rested(l)]
    /\ leg' # leg
    /\ parked' = [parked EXCEPT ![h] = {}]
    /\ UNCHANGED <<lease, run, keys, approvals, past>>

\* PruneRunJournalsBefore, from the finish of some other run, when the journal is
\* past its retention: days later, with no leg left from before.
RetentionSweep ==
    /\ Prunable(run)
    /\ \A l \in Legs : leg[l].pc \in {"off", "spent"}
    /\ run' = Pruned(run)
    /\ UNCHANGED <<lease, keys, approvals, leg, parked, past, faults>>

----------------------------------------------------------------------------
Start == SaveExecution \/ AcquireRunLease \/ SaveRunJournal \/ StartFails

Call(l) ==
    \/ ReadOnlyCall(l) \/ ReserveIdempotency(l) \/ SkipDuplicate(l) \/ BeginToolIntent(l)
    \/ Effect(l) \/ CompleteToolIntent(l) \/ SettleIdempotency(l) \/ Checkpoint(l)
    \/ CallFails(l) \/ Suspend(l) \/ Park(l)

Finish(l) ==
    \/ Confirm(l) \/ ConfirmFails(l) \/ SettleTrigger(l) \/ StopAndConfirm(l) \/ ProofFails(l)
    \/ ResolveTrigger(l) \/ SaveOutcome(l) \/ PruneRunJournal(l) \/ Release(l)

Recover(l) ==
    \/ Claim(l) \/ RunActive(l) \/ RecheckApprovals(l) \/ LeaveClaim(l)
    \/ Abandon(l) \/ FailLoudly(l) \/ Replay(l) \/ ForcedReplay(l)

Heartbeat(l) == Renew(l) \/ MarkLost(l) \/ RenewalErrs(l)

Resume(l) == AcquireResume(l) \/ GiveUp(l)

Next ==
    \/ Start
    \/ \E l \in Legs :
          Call(l) \/ Finish(l) \/ Recover(l) \/ Scan(l) \/ Inspect(l) \/ Heartbeat(l) \/ Resume(l)
    \/ \E i \in DOMAIN approvals : Deny(i) \/ \E h \in Hosts : Approve(i, h)
    \/ Expire \/ RetentionSweep
    \/ \E h \in Hosts : Crash(h)

Spec == Init /\ [][Next]_vars

\* Goroutines make progress, loops scan, the TTL runs out.  Nobody has to decide
\* an approval, to recover by hand, or to crash.
Fairness ==
    /\ WF_vars(Expire)
    /\ \A l \in Legs : WF_vars(Call(l) \/ Finish(l) \/ Recover(l) \/ Resume(l) \/ Scan(l))

FairSpec == Spec /\ Fairness

----------------------------------------------------------------------------
(* Properties. *)

\* One leg at a time executes the plan, as long as heartbeats do not stall: the
\* live run, the resume of runApprovedResume, the replays of replayDurableRun.
SoleExecutor ==
    \A l, m \in Legs : leg[l].pc \in Executing /\ leg[m].pc \in Executing => l = m

Duplicated(k) == SideEffecting(k) /\ past.effects[k] > 1

\* A side-effecting call happens once, unless an operator forced a replay or a
\* leg started from a stale reading: durableReplayBlockingIntent fails loudly.
\* (ScanNeverDuplicates and ResumeNeverDuplicates are about the stale readings.)
NoAutoDuplicate == \A k \in Calls : Duplicated(k) => past.excuses # {}

\* Even when heartbeats stall and two legs execute: the terminal Push or Sink
\* happens once, which is what confirm and its renewal are for.
TerminalOnce == Duplicated(Terminal) => past.excuses # {}

\* Once a terminal returned success, no later failure of the run, its proof or a
\* replay turns the key of the trigger to failed, which would let it run again.
AckedNeverReopens ==
    [][past.acked /\ past.excuses = {} /\ run'.trigger = "failed" => run.trigger = "failed"]_vars

\* A run waits for one decision at a time: neither a scan nor an operator replays
\* a parked run, whatever happened between their look and their claim.
OneParkedApproval ==
    \A i, j \in DOMAIN approvals :
        approvals[i].status = "pending" /\ approvals[j].status = "pending" => i = j

\* A run that may still go on keeps its journal: neither the prune at the finish
\* nor the retention sweep takes what recovery will read.
JournalOutlivesRun ==
    run.status = "running" /\ past.journaled /\ past.excuses = {} => run.journal

\* An idempotent call whose success is on record is never made again, and its
\* record stays.
SettledCallNotRepeated ==
    [][\A k \in Calls : keys[k] = "succeeded" =>
          keys'[k] = "succeeded" /\ past'.effects[k] = past.effects[k]]_vars

\* An interrupted run is decided, or waits for a person: some scan gets its lease
\* whoever died, and replays it, fails it or abandons it.
InterruptedRunDecided ==
    run.status = "running" /\ run.journal ~> run.status # "running" \/ Pending

\* The row of the run and the fences of its legs implement the abstract lease.
Abstract == INSTANCE FencedLease WITH
    Clients <- Legs,
    token <- [l \in Legs |-> leg[l].fence]
ImplementsFencedLease == Abstract!LeaseSpec

\* durable_recovery.go: "a completed side-effecting intent means the effect
\* happened [...] never auto-replay".
ScanNeverDuplicates == \A k \in Calls : Duplicated(k) => past.excuses \ {"scan"} # {}

\* runtime_http_resume.go: resuming beside a recovery "would double-execute".
ResumeNeverDuplicates == \A k \in Calls : Duplicated(k) => past.excuses \ {"resume"} # {}
============================================================================
