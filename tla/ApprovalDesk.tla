---------------------------- MODULE ApprovalDesk ----------------------------
(***************************************************************************)
(* The approvals of a run without durability: its gated calls are saved as *)
(* pending, operators decide them through the admin routes of any replica, *)
(* and the replica that holds the run in memory resumes it.  Nothing but   *)
(* the condition of ResolveApproval orders the decisions.                  *)
(***************************************************************************)
EXTENDS FiniteSets, Naturals

CONSTANTS MaxRequests,  \* bound: requests to the decision route, numbered as they arrive
          MaxApprovals, \* bound: gated calls of the run
          MaxFaults     \* bound: decisions whose client or store fails

DeskConstants == {MaxRequests, MaxApprovals, MaxFaults} \subseteq Nat

VARIABLES backend,   \* "memory", "sqlite" or "postgres"
          approval,  \* status of each row of ouvrier_approvals
          execution, \* status of the row of the run
          run,       \* [pc, asked]: the leg that executes the run, and what it asks for
          registry,  \* approvalResumeRegistry of the replica of the run
          resumed,   \* history: approvals whose continuation was started
          request,   \* the decision requests
          stopping,  \* the replica of the run refuses new goroutines
          faults     \* counter of the bound

deskVars == <<backend, approval, execution, run, registry, resumed, request, stopping, faults>>

Approvals == 1..MaxApprovals
Requests == 1..MaxRequests
Decisions == {"approved", "denied"}
NotSent == [pc |-> "idle", of |-> 0, want |-> "none", home |-> FALSE, met |-> FALSE, lost |-> FALSE,
            answer |-> "none"]

DeskInit ==
  /\ backend \in {"memory", "sqlite", "postgres"}
  /\ approval = [n \in Approvals |-> "none"]
  /\ execution = "running"
  /\ run = [pc |-> "running", asked |-> {}]
  /\ registry = {} /\ resumed = {}
  /\ request = [r \in Requests |-> NotSent]
  /\ stopping = FALSE /\ faults = 0

(***************************************************************************)
(* The run.                                                                *)
(***************************************************************************)
\* Identifiers are random: a call never finds the record of an earlier one.
NewApproval(n) == approval[n] = "none" /\ \A m \in 1..(n - 1) : approval[m] # "none"

\* SaveApproval of the three stores: an upsert of the pending record.
Saved(n) == approval' = [approval EXCEPT ![n] = "pending"]

\* suspendForApproval records the call; in a Parallel step a second branch may
\* record one before the first one's suspension cancels it.
Ask(n) ==
  /\ run.pc \in {"running", "saved"} /\ Cardinality(run.asked) < 2
  /\ NewApproval(n)
  /\ Saved(n)
  /\ run' = [pc |-> "saved", asked |-> run.asked \cup {n}]
  /\ UNCHANGED <<backend, execution, registry, resumed, request, stopping, faults>>

\* Store keeps the continuation of one of them, see PlanSteps for which.
Store(n) == registry' = registry \cup {n}

\* rememberSuspendedPlan, after which the caller is answered 202.
Park(n) ==
  /\ run.pc = "saved" /\ n \in run.asked
  /\ Store(n)
  /\ run' = [run EXCEPT !.pc = "parked"]
  /\ UNCHANGED <<backend, approval, execution, resumed, request, stopping, faults>>

\* finishPipelineExecution, also when a cancelled branch comes before the suspended one.
Finish(status) ==
  /\ run.pc = "running" \/ (run.pc = "saved" /\ status = "failed")
  /\ run' = [run EXCEPT !.pc = status]
  /\ execution' = status
  /\ UNCHANGED <<backend, approval, registry, resumed, request, stopping, faults>>

(***************************************************************************)
(* serveAdminApprovalDecision.                                             *)
(***************************************************************************)
Set(r, rec) == request' = [request EXCEPT ![r] = rec]
Step(r, pc) == Set(r, [request[r] EXCEPT !.pc = pc])
Refused == [NotSent EXCEPT !.pc = "answered", !.answer = "conflict"]

\* The row is read first. The memory store is seen by its own replica only, and a denial is
\* the same wherever it is made.
Look(r, n, want, home) ==
  /\ request[r].pc = "idle" /\ \A q \in 1..(r - 1) : request[q].pc # "idle"
  /\ approval[n] # "none"
  /\ backend = "memory" \/ want = "denied" => home
  /\ Set(r, IF approval[n] = "pending"
              THEN [NotSent EXCEPT !.pc = "looked", !.of = n, !.want = want, !.home = home]
              ELSE Refused)
  /\ UNCHANGED <<backend, approval, execution, run, registry, resumed, stopping, faults>>

\* A mutant: the handler's own look is the only check.
ResolvableAnyway(status) == status # "none"

\* WHERE id = ? AND status = pending.
Resolvable(status) == status = "pending"

\* The winner of the decision goes on, the others are told it was decided.
Decide(r, next) ==
  LET n == request[r].of IN
    IF Resolvable(approval[n])
      THEN /\ approval' = [approval EXCEPT ![n] = request[r].want]
           /\ Set(r, [request[r] EXCEPT !.pc = next, !.met = n \in registry])
      ELSE approval' = approval /\ Set(r, Refused)

\* ResolveApproval under the mutex.
ResolveMemory(r) ==
  /\ backend = "memory" /\ request[r].pc = "looked"
  /\ Decide(r, "won")
  /\ UNCHANGED <<backend, execution, run, registry, resumed, stopping, faults>>

\* UPDATE .. RETURNING.
ResolvePostgres(r) ==
  /\ backend = "postgres" /\ request[r].pc = "looked"
  /\ Decide(r, "won")
  /\ UNCHANGED <<backend, execution, run, registry, resumed, stopping, faults>>

\* UPDATE, and a SELECT of the row it changed.
ResolveSQLite(r) ==
  /\ backend = "sqlite" /\ request[r].pc = "looked"
  /\ Decide(r, "updated")
  /\ UNCHANGED <<backend, execution, run, registry, resumed, stopping, faults>>

ReadBack(r) ==
  /\ request[r].pc = "updated"
  /\ Step(r, "won")
  /\ UNCHANGED <<backend, approval, execution, run, registry, resumed, stopping, faults>>

\* The client leaves or the connection breaks: the statement was not run, or it was and its
\* answer is lost. Every error of ResolveApproval is answered as a conflict.
Lose(r) ==
  /\ faults < MaxFaults /\ faults' = faults + 1
  /\ LET n == request[r].of
         lost == [Refused EXCEPT !.of = n, !.lost = TRUE] IN
       \/ /\ request[r].pc \in {"looked", "updated"}
          /\ Set(r, lost) /\ approval' = approval
       \/ /\ request[r].pc = "looked" /\ backend = "postgres" /\ Resolvable(approval[n])
          /\ approval' = [approval EXCEPT ![n] = request[r].want]
          /\ Set(r, lost)
       \/ /\ request[r].pc \in {"won", "failing"} /\ request[r].want = "denied"
          /\ Set(r, [request[r] EXCEPT !.pc = "recorded", !.lost = TRUE]) /\ approval' = approval
  /\ UNCHANGED <<backend, execution, run, registry, resumed, stopping>>

\* A mutant: only the event of a denial is recorded.
RecordsEventOnly(r) == "recorded"

\* recordApprovalDecisionEvents: a denial fails an execution that is running.
Records(r) ==
  IF request[r].want = "denied" /\ execution = "running" THEN "failing" ELSE "recorded"

Record(r) ==
  /\ request[r].pc = "won"
  /\ Step(r, Records(r))
  /\ UNCHANGED <<backend, approval, execution, run, registry, resumed, stopping, faults>>

\* The row that was read is saved with its new status.
FailExecution(r) ==
  /\ request[r].pc = "failing"
  /\ execution' = "failed"
  /\ Step(r, "recorded")
  /\ UNCHANGED <<backend, approval, run, registry, resumed, stopping, faults>>

\* A mutant: the goroutine is refused and the continuation is gone.
TakesAway(r) == request[r].want = "approved" /\ request[r].home /\ request[r].of \in registry

\* startApprovedResume: Take, and Store again when the goroutine is refused.
Takes(r) == TakesAway(r) /\ ~stopping

Answer(r) ==
  /\ request[r].pc = "recorded"
  /\ Set(r, [request[r] EXCEPT !.pc = "answered", !.answer = "ok"])
  /\ registry' = IF Takes(r) THEN registry \ {request[r].of} ELSE registry
  /\ IF Takes(r) /\ ~stopping
       THEN /\ resumed' = resumed \cup {request[r].of}
            /\ run' = [pc |-> "running", asked |-> {}]
       ELSE UNCHANGED <<resumed, run>>
  /\ UNCHANGED <<backend, approval, execution, stopping, faults>>

\* Shutdown of the async group.
Stop ==
  /\ ~stopping /\ stopping' = TRUE
  /\ UNCHANGED <<backend, approval, execution, run, registry, resumed, request, faults>>

DeskNext ==
  \/ \E n \in Approvals : Ask(n) \/ Park(n)
  \/ \E s \in {"completed", "failed"} : Finish(s)
  \/ \E r \in Requests :
       \/ \E n \in Approvals, w \in Decisions, h \in BOOLEAN : Look(r, n, w, h)
       \/ ResolveMemory(r) \/ ResolvePostgres(r) \/ ResolveSQLite(r) \/ ReadBack(r) \/ Lose(r)
       \/ Record(r) \/ FailExecution(r) \/ Answer(r)
  \/ Stop

DeskSpec == DeskInit /\ [][DeskNext]_deskVars

DeskTypeOK ==
  /\ approval \in [Approvals -> {"none", "pending"} \cup Decisions]
  /\ execution \in {"running", "completed", "failed"}
  /\ run \in [pc : {"running", "saved", "parked", "completed", "failed"}, asked : SUBSET Approvals]
  /\ registry \subseteq Approvals /\ resumed \subseteq Approvals
  /\ request \in [Requests -> [pc : {"idle", "looked", "updated", "won", "failing", "recorded",
                                     "answered"},
                               of : 0..MaxApprovals, want : Decisions \cup {"none"},
                               home : BOOLEAN, met : BOOLEAN, lost : BOOLEAN,
                               answer : {"none", "ok", "conflict"}]]
  /\ stopping \in BOOLEAN /\ faults \in 0..MaxFaults

Winners(n) ==
  {r \in Requests : request[r].of = n
                    /\ (request[r].answer = "ok"
                        \/ request[r].pc \in {"updated", "won", "failing", "recorded"})}

\* One decision is taken of a call, whatever replicas are asked at once: whoever
\* is told so decided it, the row says what that operator wanted, and only an
\* approved call was resumed (the condition of ResolveApproval).
DecidedOnce ==
  /\ \A n \in Approvals : \A r \in Winners(n) :
       Winners(n) = {r} /\ approval[n] = request[r].want
  /\ \A n \in resumed : approval[n] = "approved"

\* An approved call whose continuation is in memory goes on, or its decision is
\* still on its way there. It stays parked when the decision was taken on
\* another replica, before the run was parked, at shutdown, or when the client
\* or the store failed after the row had changed (startApprovedResume).
ApprovedGoesOn ==
  \A n \in registry :
    approval[n] = "approved" =>
      \/ stopping
      \/ \E r \in Requests : request[r].of = n /\ request[r].lost
      \/ \E r \in Winners(n) : request[r].pc # "answered" \/ ~request[r].met \/ ~request[r].home

\* The continuation of a parked run is started or kept, never dropped (Take, and
\* Store again when the goroutine is refused).
NothingIsDropped == run.pc = "parked" => run.asked \cap registry # {}

\* The run of a denied call is not shown as running once the operator has the
\* answer (recordApprovalDecisionEvents).
DeniedIsOver ==
  \A r \in Requests :
    request[r].answer = "ok" /\ request[r].want = "denied" /\ ~request[r].lost =>
      execution # "running"

=============================================================================
