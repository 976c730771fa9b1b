--------------------------- MODULE TunnelManager ---------------------------
(***************************************************************************)
(* The tunnel of one deployed worker (internal/tunnel): a supervisor that  *)
(* starts on first use, spawns ssh, retries with a backoff and tears       *)
(* everything down when told to stop; the requests that hold it open and   *)
(* inject the admin token, fetched again once when the worker rejects it;  *)
(* the idle timer, the recovery timer of a rejected token, Reset and Close.*)
(*                                                                         *)
(* One action per critical section of the tunnel's mutex, so that what     *)
(* happens between two of them is seen.  A token is the number of its      *)
(* rotation; a fetch over ssh is one action, since the token mutex is held *)
(* for the whole of it.                                                    *)
(***************************************************************************)
EXTENDS Integers

CONSTANTS Trips,         \* requests through the tunnel
          MaxRotations   \* rotations of the admin token on the host

TunnelConstants == MaxRotations \in Nat

VARIABLES phase,       \* the published Status
          supervisor,  \* what the supervisor goroutine does
          halting,     \* a stop was requested (stopReason)
          idle,        \* the idle timer
          recoveryTimer, \* the recovery timer
          latched,     \* the token was rejected in this life of the tunnel
          dropping,    \* a torn-down supervisor is about to forget the token
          cached,      \* the token in memory, or none
          remote,      \* the token in the host's .env and the one its worker accepts
          trip,        \* what each request does
          resetter,    \* the operator's Reset
          closer       \* Manager.Close

tunnelVars == <<phase, supervisor, halting, idle, recoveryTimer, latched, dropping, cached,
                remote, trip, resetter, closer>>
timers == <<idle, recoveryTimer>>
tokens == <<cached, remote, latched, dropping>>
callers == <<trip, resetter, closer>>

None == -1

TunnelTypeOK ==
    /\ phase \in {"down", "connecting", "up", "degraded", "auth_failed"}
    /\ supervisor \in {"none", "starting", "connecting", "holding", "backoff", "unwinding"}
    /\ {halting, latched, dropping} \subseteq BOOLEAN
    /\ {idle, recoveryTimer} \subseteq {"off", "armed"}
    /\ cached \in None..MaxRotations
    /\ remote \in [env : 0..MaxRotations, worker : 0..MaxRotations]
    /\ trip \in [Trips -> [step : {"new", "waiting", "token", "sending", "refetching",
                                   "resending", "condemning", "marking", "open", "failed"},
                                 token : None..MaxRotations]]
    /\ {resetter, closer} \subseteq {"none", "asking", "waiting", "stopped", "done"}

TunnelInit ==
    /\ phase = "down" /\ supervisor = "none" /\ halting = FALSE
    /\ idle = "off" /\ recoveryTimer = "off"
    /\ latched = FALSE /\ dropping = FALSE /\ cached = None
    /\ remote = [env |-> 0, worker |-> 0]
    /\ trip = [r \in Trips |-> [step |-> "new", token |-> None]]
    /\ resetter = "none" /\ closer = "none"

Supervising   == supervisor # "none"
ManagerClosed == closer # "none"
InFlight      == {r \in Trips : trip[r].step # "new"}
StepsTo(r, s) == trip' = [trip EXCEPT ![r].step = s]
\* The request is past its last use of the token.
Ends(r, s)    == trip' = [trip EXCEPT ![r] = [step |-> s, token |-> None]]

---------------------------------------------------------------------------
(* The supervisor.                                                         *)

\* A life begins: no stop is pending and no token has been rejected in it.
StartSupervisor == supervisor' = "starting" /\ halting' = FALSE /\ latched' = FALSE

\* One attempt pins the host, locks and unlinks the socket and spawns ssh.
Attempt ==
    /\ supervisor = "starting" /\ ~halting
    /\ supervisor' = "connecting" /\ phase' = "connecting"
    /\ UNCHANGED <<halting, timers, tokens, callers>>

Connected ==
    /\ supervisor = "connecting"
    /\ supervisor' = "holding" /\ phase' = "up"
    /\ UNCHANGED <<halting, timers, tokens, callers>>

\* The attempt failed, the socket never accepted, or ssh died.
AttemptFails ==
    /\ supervisor \in {"connecting", "holding"}
    /\ supervisor' = "backoff" /\ phase' = "degraded"
    /\ UNCHANGED <<halting, timers, tokens, callers>>

BackoffElapses ==
    /\ supervisor = "backoff" /\ supervisor' = "starting"
    /\ UNCHANGED <<phase, halting, timers, tokens, callers>>

\* The stop is seen: ssh is killed and reaped, the socket unlinked and unlocked.
SeeStop ==
    /\ halting /\ supervisor \in {"starting", "connecting", "holding", "backoff"}
    /\ supervisor' = "unwinding"
    /\ UNCHANGED <<phase, halting, timers, tokens, callers>>

\* Whoever waits for this life of the supervisor is released.
Released(w) == IF w = "waiting" THEN "stopped" ELSE w

\* What was latched in this life, and its stop, end with it.
Teardown ==
    /\ supervisor = "unwinding"
    /\ supervisor' = "none" /\ phase' = "down" /\ recoveryTimer' = "off"
    /\ dropping' = (dropping \/ latched) /\ latched' = FALSE /\ halting' = FALSE
    /\ resetter' = Released(resetter) /\ closer' = Released(closer)
    /\ UNCHANGED <<idle, cached, remote, trip>>

\* After the teardown, and perhaps beside the next life.
DropRejectedToken ==
    /\ dropping /\ dropping' = FALSE /\ cached' = None
    /\ UNCHANGED <<phase, supervisor, halting, timers, remote, latched, callers>>

---------------------------------------------------------------------------
(* Timers, Reset and Close.                                                *)

RequestStop == halting' = (halting \/ Supervising)

\* The use count is read again when the timer fires.
IdleClose ==
    /\ idle = "armed" /\ idle' = "off"
    /\ IF InFlight = {} THEN RequestStop ELSE UNCHANGED halting
    /\ UNCHANGED <<phase, supervisor, recoveryTimer, tokens, callers>>

\* The recovery timer is not cleared by firing: the teardown clears it.
AuthRecover ==
    /\ recoveryTimer = "armed" /\ RequestStop
    /\ UNCHANGED <<phase, supervisor, timers, tokens, callers>>

\* stop(): a second critical section cancels the timers and picks the life to wait for.
CancelTimers == idle' = "off" /\ recoveryTimer' = "off"
Awaited      == IF Supervising THEN "waiting" ELSE "stopped"

\* One Reset over a behaviour: an operator does not reset for ever.
BeginReset ==
    /\ resetter = "none" /\ ~ManagerClosed
    /\ RequestStop /\ resetter' = "asking"
    /\ UNCHANGED <<phase, supervisor, timers, tokens, trip, closer>>

AwaitReset ==
    /\ resetter = "asking" /\ resetter' = Awaited /\ CancelTimers
    /\ UNCHANGED <<phase, supervisor, halting, tokens, trip, closer>>

FinishReset ==
    /\ resetter = "stopped" /\ resetter' = "done" /\ cached' = None
    /\ UNCHANGED <<phase, supervisor, halting, timers, remote, latched, dropping, trip, closer>>

\* Close marks the manager first; no supervisor starts after that.  Reset and
\* Close, which stop the same way, do not overlap in a behaviour.
BeginClose ==
    /\ closer = "none" /\ resetter \in {"none", "done"} /\ closer' = "asking" /\ RequestStop
    /\ UNCHANGED <<phase, supervisor, timers, tokens, trip, resetter>>

AwaitClose ==
    /\ closer = "asking" /\ closer' = Awaited /\ CancelTimers
    /\ UNCHANGED <<phase, supervisor, halting, tokens, trip, resetter>>

FinishClose ==
    /\ closer = "stopped" /\ closer' = "done"
    /\ UNCHANGED <<phase, supervisor, halting, timers, tokens, trip, resetter>>

\* The operator rotates the token in the host's .env; the worker reads it when it restarts.
RotateToken ==
    /\ remote.env < MaxRotations
    /\ remote' = [remote EXCEPT !.env = @ + 1]
    /\ UNCHANGED <<phase, supervisor, halting, timers, cached, latched, dropping, callers>>

RestartWorker ==
    /\ remote.worker # remote.env
    /\ remote' = [remote EXCEPT !.worker = remote.env]
    /\ UNCHANGED <<phase, supervisor, halting, timers, cached, latched, dropping, callers>>

---------------------------------------------------------------------------
(* One request.                                                            *)

Begin(r) ==
    /\ trip[r].step = "new"
    /\ StepsTo(r, "waiting") /\ idle' = "off"
    /\ UNCHANGED <<phase, supervisor, halting, recoveryTimer, tokens, resetter, closer>>

\* Mutant: a request that was waiting when Close began starts the tunnel again.
EnsureStartsAnyway(r) ==
    /\ trip[r].step = "waiting"
    /\ phase \in {"down", "degraded"} /\ ~Supervising
    /\ StartSupervisor
    /\ UNCHANGED <<phase, timers, cached, remote, dropping, callers>>

\* A tunnel that is down, with no supervisor, is started by whoever needs it.
EnsureStarts(r) ==
    /\ trip[r].step = "waiting" /\ ~ManagerClosed
    /\ phase \in {"down", "degraded"} /\ ~Supervising
    /\ StartSupervisor
    /\ UNCHANGED <<phase, timers, cached, remote, dropping, callers>>

EnsureUp(r) ==
    /\ trip[r].step = "waiting" /\ ~ManagerClosed /\ phase = "up"
    /\ StepsTo(r, "token")
    /\ UNCHANGED <<phase, supervisor, halting, timers, tokens, resetter, closer>>

\* It never waits through a backoff, and never on a rejected token.
EnsureFails(r) ==
    /\ trip[r].step = "waiting"
    /\ ManagerClosed \/ phase = "auth_failed" \/ (phase = "degraded" /\ Supervising)
    /\ Ends(r, "failed")
    /\ UNCHANGED <<phase, supervisor, halting, timers, tokens, resetter, closer>>

\* The cached token serves, unless it is the one just rejected; else ssh reads the host's.
Token(stale) == IF cached # None /\ cached # stale THEN cached ELSE remote.env

AdminToken(r) ==
    /\ trip[r].step = "token"
    /\ cached' = Token(None)
    /\ trip' = [trip EXCEPT ![r] = [step |-> "sending", token |-> cached']]
    /\ UNCHANGED <<phase, supervisor, halting, timers, remote, latched, dropping, resetter, closer>>

Accepted(r) == trip[r].token = remote.worker

\* The answer goes through the tunnel; its body is then held open.
Send(r) ==
    /\ trip[r].step \in {"sending", "resending"} /\ supervisor = "holding"
    /\ CASE Accepted(r) -> Ends(r, "open")
         [] ~Accepted(r) /\ trip[r].step = "sending" -> StepsTo(r, "refetching")
         [] ~Accepted(r) /\ trip[r].step = "resending" -> Ends(r, "condemning")
    /\ UNCHANGED <<phase, supervisor, halting, timers, tokens, resetter, closer>>

\* One second chance, with a token that is not the rejected one.
Refetch(r) ==
    /\ trip[r].step = "refetching"
    /\ cached' = Token(trip[r].token)
    /\ IF cached' = trip[r].token THEN Ends(r, "condemning")
       ELSE trip' = [trip EXCEPT ![r] = [step |-> "resending", token |-> cached']]
    /\ UNCHANGED <<phase, supervisor, halting, timers, remote, latched, dropping, resetter, closer>>

RefetchFails(r) ==
    /\ trip[r].step = "refetching" /\ Ends(r, "condemning")
    /\ UNCHANGED <<phase, supervisor, halting, timers, tokens, resetter, closer>>

\* markAuthFailed publishes the phase in one critical section ...
Condemn(r) ==
    /\ trip[r].step = "condemning"
    /\ StepsTo(r, "marking") /\ phase' = "auth_failed"
    /\ UNCHANGED <<supervisor, halting, timers, tokens, resetter, closer>>

\* Mutant: the recovery timer is not armed.
MarkAuthFailedOnly(r) ==
    /\ trip[r].step = "marking"
    /\ Ends(r, "failed")
    /\ latched' = Supervising /\ idle' = "off"
    /\ UNCHANGED <<phase, supervisor, halting, recoveryTimer, cached, remote, dropping, resetter, closer>>

\* ... and in the next swaps the idle timer for the recovery timer.
MarkAuthFailed(r) ==
    /\ trip[r].step = "marking"
    /\ Ends(r, "failed")
    /\ latched' = Supervising /\ idle' = "off"
    /\ recoveryTimer' = IF Supervising /\ ~halting THEN "armed" ELSE recoveryTimer
    /\ UNCHANGED <<phase, supervisor, halting, cached, remote, dropping, resetter, closer>>

\* The caller's context ends, the token cannot be read, or the connection breaks.
RequestFails(r) ==
    /\ trip[r].step \in {"waiting", "token", "sending", "resending"}
    /\ Ends(r, "failed")
    /\ UNCHANGED <<phase, supervisor, halting, timers, tokens, resetter, closer>>

\* The last use arms the idle timer, but not while a rejected token awaits its recovery.
Release(r) ==
    /\ trip[r].step \in {"open", "failed"}
    /\ trip' = [trip EXCEPT ![r] = [step |-> "new", token |-> None]]
    /\ idle' = IF InFlight = {r} /\ Supervising /\ ~halting /\ phase # "auth_failed"
               THEN "armed" ELSE idle
    /\ UNCHANGED <<phase, supervisor, halting, recoveryTimer, tokens, resetter, closer>>

Supervise == Attempt \/ Connected \/ AttemptFails \/ BackoffElapses \/ SeeStop \/ Teardown

TunnelNext ==
    \/ Attempt \/ Connected \/ AttemptFails \/ BackoffElapses \/ SeeStop \/ Teardown
    \/ DropRejectedToken \/ IdleClose \/ AuthRecover
    \/ BeginReset \/ AwaitReset \/ FinishReset
    \/ BeginClose \/ AwaitClose \/ FinishClose
    \/ RotateToken \/ RestartWorker
    \/ \E r \in Trips :
          \/ Begin(r) \/ EnsureStarts(r) \/ EnsureUp(r) \/ EnsureFails(r)
          \/ AdminToken(r) \/ Send(r) \/ Refetch(r) \/ RefetchFails(r)
          \/ Condemn(r) \/ MarkAuthFailed(r) \/ RequestFails(r) \/ Release(r)

\* The supervisor runs on, and so does Close.
TunnelFairness ==
    WF_tunnelVars(Supervise) /\ WF_tunnelVars(SeeStop) /\ WF_tunnelVars(AwaitClose)

TunnelSpec == TunnelInit /\ [][TunnelNext]_tunnelVars /\ TunnelFairness

---------------------------------------------------------------------------
(* Properties.                                                             *)

\* A running tunnel that nobody uses has a timer that will close it; the one
\* exception is a Reset that cancels the timers of a life younger than its stop.
IdleIsWatched ==
    Supervising /\ ~halting /\ InFlight = {} =>
        "armed" \in {idle, recoveryTimer} \/ resetter = "waiting"

\* Once Close has returned, no supervisor runs and none is started.
ClosedStaysDown == closer = "done" => ~Supervising

\* Close returns: no life begins after it asked the current one to stop.
CloseReturns == []<>(closer \notin {"asking", "waiting"})
=============================================================================
