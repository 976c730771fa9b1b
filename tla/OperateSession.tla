--------------------------- MODULE OperateSession ---------------------------
(***************************************************************************)
(* One durable session of the operate cockpit (internal/operate): runtimes *)
(* that open it under the writer lock, turns that take the session's lane, *)
(* record the tool calls of one model answer, run and answer them in order *)
(* and the recovery that closes what an earlier process left open.         *)
(* Calls are numbered in the order the model issues them; a call has its   *)
(* transcript record, its audit lines and its result entries.              *)
(***************************************************************************)
EXTENDS Integers, FiniteSets

CONSTANTS Runtimes,   \* cockpit processes on the same project
          Turns,      \* prompts sent to the session
          MaxCalls,   \* bound: calls the model issues
          MaxOpenings, \* bound: openings and resumes of the session
          MaxMishaps  \* bound: processes killed and appends that fail

\* What marks a free lock or lane is no process and no prompt.
Nobody == "nobody"
SessionConstants ==
  {MaxCalls, MaxOpenings, MaxMishaps} \subseteq Nat /\ Nobody \notin Runtimes \cup Turns

VARIABLES runtime,   \* life of each process
          writer,    \* process that holds writer.lock
          recovery,  \* recovery each process runs, as [pc, pending]
          turn,      \* the prompts
          lane,      \* turn that holds the lane of the session in its process
          call,      \* records of each call
          issued,    \* calls issued so far
          sessionFaults, \* counters of the bounds, as [openings, mishaps]
          overlapped \* history: calls a process recovered while its own turn was running them

sessionVars == <<runtime, writer, recovery, turn, lane, call, issued, sessionFaults, overlapped>>

Calls == 1..MaxCalls
Idle == [pc |-> "none", pending |-> {}]
Fresh == [recorded |-> FALSE, audits |-> 0, results |-> 0, ran |-> 0, recovered |-> FALSE, group |-> {}]
NewTurn == [pc |-> "new", on |-> Nobody, todo |-> {}, cancelled |-> FALSE]
Done == [NewTurn EXCEPT !.pc = "over"]

SessionTypeOK ==
  /\ runtime \in [Runtimes -> {"absent", "opening", "open", "closing"}]
  /\ writer \in Runtimes \cup {Nobody}
  /\ recovery \in [Runtimes -> [pc : {"none", "reading", "answering", "auditing"}, pending : SUBSET Calls]]
  /\ turn \in [Turns -> [pc : {"new", "queued", "reading", "asking", "recording", "gating", "auditing", "answering", "over"},
                         on : Runtimes \cup {Nobody}, todo : SUBSET Calls, cancelled : BOOLEAN]]
  /\ lane \in Turns \cup {Nobody}
  /\ call \in [Calls -> [recorded : BOOLEAN, audits : 0..2, results : 0..2, ran : 0..2,
                         recovered : BOOLEAN, group : SUBSET Calls]]
  /\ issued \in 0..MaxCalls
  /\ sessionFaults \in [openings : 0..MaxOpenings, mishaps : 0..MaxMishaps]
  /\ overlapped \subseteq Calls

SessionInit ==
  /\ runtime = [r \in Runtimes |-> "absent"] /\ writer = Nobody
  /\ recovery = [r \in Runtimes |-> Idle]
  /\ turn = [t \in Turns |-> NewTurn] /\ lane = Nobody
  /\ call = [c \in Calls |-> Fresh] /\ issued = 0
  /\ sessionFaults = [openings |-> 0, mishaps |-> 0] /\ overlapped = {}

Alive(t) == turn[t].pc \notin {"new", "over"}
First(calls) == CHOOSE c \in calls : \A d \in calls : c <= d
\* Mutant: a call that already has an audit line is taken as answered.
PendingUnaudited == {c \in Calls : call[c].recorded /\ call[c].results = 0 /\ call[c].audits = 0}

Pending == {c \in Calls : call[c].recorded /\ call[c].results = 0}
\* Recovered results that have no audit line (ensureInterruptedAudits).
Unaudited == {c \in Calls : call[c].recovered /\ call[c].audits = 0}
Mishap == /\ sessionFaults.mishaps < MaxMishaps
          /\ sessionFaults' = [sessionFaults EXCEPT !.mishaps = @ + 1]

(***************************************************************************)
(* OpenSessionWriter, and Resume on a session that its process already     *)
(* holds: the lock is not taken twice and the turns are not waited for.    *)
(***************************************************************************)
StartsRecovery(r) ==
  /\ sessionFaults.openings < MaxOpenings
  /\ sessionFaults' = [sessionFaults EXCEPT !.openings = @ + 1]
  /\ recovery' = [recovery EXCEPT ![r].pc = "reading"]

Open(r) ==
  /\ runtime[r] = "absent" /\ writer = Nobody
  /\ StartsRecovery(r)
  /\ runtime' = [runtime EXCEPT ![r] = "opening"] /\ writer' = r
  /\ UNCHANGED <<turn, lane, call, issued, overlapped>>

Resume(r) ==
  /\ runtime[r] = "open" /\ recovery[r].pc = "none"
  /\ StartsRecovery(r)
  /\ UNCHANGED <<runtime, writer, turn, lane, call, issued, overlapped>>

ReadTranscript(r) ==
  /\ recovery[r].pc = "reading"
  /\ recovery' = [recovery EXCEPT ![r] = [pc |-> "answering", pending |-> Pending]]
  /\ overlapped' = overlapped \cup {c \in Pending : \E t \in Turns : c \in turn[t].todo /\ turn[t].on = r}
  /\ UNCHANGED <<runtime, writer, turn, lane, call, issued, sessionFaults>>

\* The recovery ends with an error: an opening gives the lock back, a resume keeps it.
GiveUp(r) ==
  /\ recovery' = [recovery EXCEPT ![r] = Idle]
  /\ IF runtime[r] = "opening" THEN runtime' = [runtime EXCEPT ![r] = "absent"] /\ writer' = Nobody
     ELSE UNCHANGED <<runtime, writer>>
  /\ UNCHANGED <<turn, lane, call, issued, overlapped>>

\* Mutant: an answered call is not taken off the list.
RecoverCallAgain(r) ==
  /\ recovery[r].pc = "answering" /\ recovery[r].pending # {}
  /\ LET c == First(recovery[r].pending) IN
     \/ /\ call' = [call EXCEPT ![c].results = @ + 1, ![c].recovered = TRUE]
        /\ UNCHANGED <<runtime, writer, recovery, turn, lane, issued, sessionFaults, overlapped>>
     \/ Mishap /\ GiveUp(r)

\* recoverInterruptedCalls: a synthetic result for every call without one in what was read.
RecoverCall(r) ==
  /\ recovery[r].pc = "answering" /\ recovery[r].pending # {}
  /\ LET c == First(recovery[r].pending) IN
     \/ /\ call' = [call EXCEPT ![c].results = @ + 1, ![c].recovered = TRUE]
        /\ recovery' = [recovery EXCEPT ![r].pending = @ \ {c}]
        /\ UNCHANGED <<runtime, writer, turn, lane, issued, sessionFaults, overlapped>>
     \/ Mishap /\ GiveUp(r)

\* ensureInterruptedAudits: the audit lines are read once, then the missing ones are added.
ReadAudits(r) ==
  /\ recovery[r].pc = "answering" /\ recovery[r].pending = {}
  /\ recovery' = [recovery EXCEPT ![r] = [pc |-> "auditing", pending |-> Unaudited]]
  /\ UNCHANGED <<runtime, writer, turn, lane, call, issued, sessionFaults, overlapped>>

AuditRecovered(r) ==
  /\ recovery[r].pc = "auditing" /\ recovery[r].pending # {}
  /\ LET c == First(recovery[r].pending) IN
     \/ /\ call' = [call EXCEPT ![c].audits = @ + 1]
        /\ recovery' = [recovery EXCEPT ![r].pending = @ \ {c}]
        /\ UNCHANGED <<runtime, writer, turn, lane, issued, sessionFaults, overlapped>>
     \/ Mishap /\ GiveUp(r)

Opened(r) ==
  /\ recovery[r].pc = "auditing" /\ recovery[r].pending = {}
  /\ recovery' = [recovery EXCEPT ![r] = Idle]
  /\ runtime' = IF runtime[r] = "opening" THEN [runtime EXCEPT ![r] = "open"] ELSE runtime
  /\ UNCHANGED <<writer, turn, lane, call, issued, sessionFaults, overlapped>>

(***************************************************************************)
(* runPrompt and runAgentLoop.                                             *)
(***************************************************************************)
Prompt(t, r) ==
  /\ turn[t].pc = "new" /\ runtime[r] = "open"
  /\ turn' = [turn EXCEPT ![t].pc = "queued", ![t].on = r]
  /\ UNCHANGED <<runtime, writer, recovery, lane, call, issued, sessionFaults, overlapped>>

TakeLane(t) ==
  /\ turn[t].pc = "queued" /\ ~turn[t].cancelled /\ lane = Nobody
  /\ lane' = t /\ turn' = [turn EXCEPT ![t].pc = "reading"]
  /\ UNCHANGED <<runtime, writer, recovery, call, issued, sessionFaults, overlapped>>


LeaveQueue(t) ==
  /\ turn[t].pc = "queued" /\ turn[t].cancelled
  /\ turn' = [turn EXCEPT ![t] = Done]
  /\ UNCHANGED <<runtime, writer, recovery, lane, call, issued, sessionFaults, overlapped>>

\* Mutant: the lane is not given back.
OverKeepingLane(t) == turn' = [turn EXCEPT ![t] = Done] /\ UNCHANGED lane

Over(t) == turn' = [turn EXCEPT ![t] = Done] /\ lane' = Nobody
MovesOn(t, pc) == turn' = [turn EXCEPT ![t].pc = pc] /\ UNCHANGED lane

\* historyMessages refuses a history in which a call has no result, or two.
HistoryReads == \A c \in Calls : call[c].recorded => call[c].results = 1
ReadHistory(t) ==
  /\ turn[t].pc = "reading"
  /\ IF HistoryReads THEN MovesOn(t, "asking") ELSE Over(t)
  /\ UNCHANGED <<runtime, writer, recovery, call, issued, sessionFaults, overlapped>>

\* The model fails, ends the turn, or asks for a group of calls; a cancelled turn stops here.
EndTurn(t) ==
  /\ turn[t].pc = "asking"
  /\ Over(t)
  /\ UNCHANGED <<runtime, writer, recovery, call, issued, sessionFaults, overlapped>>

IssueCalls(t, n) ==
  LET group == issued + 1 .. issued + n IN
  /\ turn[t].pc = "asking" /\ ~turn[t].cancelled /\ issued + n <= MaxCalls
  /\ issued' = issued + n
  /\ call' = [c \in Calls |-> IF c \in group THEN [call[c] EXCEPT !.group = group] ELSE call[c]]
  /\ turn' = [turn EXCEPT ![t].pc = "recording", ![t].todo = group]
  /\ UNCHANGED <<runtime, writer, recovery, lane, sessionFaults, overlapped>>

Unrecorded(t) == {c \in turn[t].todo : ~call[c].recorded}
\* Mutant: a call runs as soon as its own record is written.
RecordOneCall(t) ==
  /\ turn[t].pc = "recording"
  /\ LET c == First(Unrecorded(t)) IN
     \/ /\ call' = [call EXCEPT ![c].recorded = TRUE] /\ MovesOn(t, "gating")
        /\ UNCHANGED sessionFaults
     \/ Mishap /\ Over(t) /\ UNCHANGED call
  /\ UNCHANGED <<runtime, writer, recovery, issued, overlapped>>

RecordCall(t) ==
  /\ turn[t].pc = "recording"
  /\ LET c == First(Unrecorded(t)) IN
     \/ /\ call' = [call EXCEPT ![c].recorded = TRUE]
        /\ MovesOn(t, IF Unrecorded(t) = {c} THEN "gating" ELSE "recording")
        /\ UNCHANGED sessionFaults
     \/ Mishap /\ Over(t) /\ UNCHANGED call
  /\ UNCHANGED <<runtime, writer, recovery, issued, overlapped>>

\* Between two calls a cancelled turn stops; a denied call is audited and answered unrun.
RunCall(t) ==
  /\ turn[t].pc = "gating"
  /\ \/ turn[t].cancelled /\ Over(t) /\ UNCHANGED call
     \/ ~turn[t].cancelled /\ MovesOn(t, "auditing") /\ UNCHANGED call
     \/ /\ ~turn[t].cancelled /\ MovesOn(t, "auditing")
        /\ call' = [call EXCEPT ![First(turn[t].todo)].ran = @ + 1]
  /\ UNCHANGED <<runtime, writer, recovery, issued, sessionFaults, overlapped>>

\* executeHeld: the audit line, then the result; a failure of either is told to the model only.
AuditCall(t) ==
  /\ turn[t].pc = "auditing" /\ MovesOn(t, "answering")
  /\ \/ call' = [call EXCEPT ![First(turn[t].todo)].audits = @ + 1] /\ UNCHANGED sessionFaults
     \/ Mishap /\ UNCHANGED call
  /\ UNCHANGED <<runtime, writer, recovery, issued, overlapped>>

AnswerCall(t) ==
  LET c == First(turn[t].todo) IN
  /\ turn[t].pc = "answering"
  /\ turn' = [turn EXCEPT ![t].todo = @ \ {c}, ![t].pc = IF turn[t].todo = {c} THEN "asking" ELSE "gating"]
  /\ \/ call' = [call EXCEPT ![c].results = @ + 1] /\ UNCHANGED sessionFaults
     \/ Mishap /\ UNCHANGED call
  /\ UNCHANGED <<runtime, writer, recovery, lane, issued, overlapped>>

(***************************************************************************)
(* Interrupt, Close and the death of a process.                            *)
(***************************************************************************)
TurnsOf(r) == {t \in Turns : Alive(t) /\ turn[t].on = r}
CancelTurns(r) == turn' = [t \in Turns |-> IF t \in TurnsOf(r) THEN [turn[t] EXCEPT !.cancelled = TRUE] ELSE turn[t]]

Interrupt(r) ==
  /\ runtime[r] = "open" /\ TurnsOf(r) # {}
  /\ CancelTurns(r)
  /\ UNCHANGED <<runtime, writer, recovery, lane, call, issued, sessionFaults, overlapped>>

Close(r) ==
  /\ runtime[r] = "open"
  /\ runtime' = [runtime EXCEPT ![r] = "closing"] /\ CancelTurns(r)
  /\ UNCHANGED <<writer, recovery, lane, call, issued, sessionFaults, overlapped>>

\* Mutant: the lock is freed while a cancelled turn is still writing.
JoinedRecoveries(r) == recovery[r].pc = "none"

\* closeRuntime waits for every activity, then frees the lock.
Joined(r) == TurnsOf(r) = {} /\ recovery[r].pc = "none"
Closed(r) ==
  /\ runtime[r] = "closing" /\ Joined(r)
  /\ runtime' = [runtime EXCEPT ![r] = "absent"] /\ writer' = Nobody
  /\ UNCHANGED <<recovery, turn, lane, call, issued, sessionFaults, overlapped>>

Crash(r) ==
  /\ runtime[r] # "absent" /\ Mishap
  /\ runtime' = [runtime EXCEPT ![r] = "absent"]
  /\ writer' = IF writer = r THEN Nobody ELSE writer
  /\ recovery' = [recovery EXCEPT ![r] = Idle]
  /\ turn' = [t \in Turns |-> IF t \in TurnsOf(r) THEN Done ELSE turn[t]]
  /\ lane' = IF lane \in TurnsOf(r) THEN Nobody ELSE lane
  /\ UNCHANGED <<call, issued, overlapped>>

TurnStep(t) ==
  \/ TakeLane(t) \/ LeaveQueue(t) \/ ReadHistory(t) \/ EndTurn(t) \/ (\E n \in 1..2 : IssueCalls(t, n))
  \/ RecordCall(t) \/ RunCall(t) \/ AuditCall(t) \/ AnswerCall(t)
RecoveryStep(r) == ReadTranscript(r) \/ RecoverCall(r) \/ ReadAudits(r) \/ AuditRecovered(r) \/ Opened(r)

SessionNext ==
  \/ \E r \in Runtimes : \/ Open(r) \/ Resume(r) \/ RecoveryStep(r) \/ Interrupt(r) \/ Close(r) \/ Closed(r) \/ Crash(r)
                         \/ \E t \in Turns : Prompt(t, r)
  \/ \E t \in Turns : TurnStep(t)

SessionFairness ==
  /\ \A t \in Turns : WF_sessionVars(TurnStep(t))
  /\ \A r \in Runtimes : WF_sessionVars(RecoveryStep(r)) /\ WF_sessionVars(Closed(r))
SessionSpec == SessionInit /\ [][SessionNext]_sessionVars /\ SessionFairness

(***************************************************************************)
(* Properties.                                                             *)
(***************************************************************************)
\* However turns, closes, crashes and recoveries follow each other, a call gets one result
\* and one audit line at most, unless its own process recovered it under the live turn
\* (recovery.go recoverInterruptedCalls, runtime_lifecycle.go closeRuntime).
CallsSettledOnce == \A c \in Calls \ overlapped : call[c].results <= 1 /\ call[c].audits <= 1

\* A call runs once, after every call of its answer was recorded, and never once its result
\* is written (agent_loop.go runAgentLoop, executor.go executeHeld).
RunsAreRecorded ==
  [][\A c \in Calls : call'[c].ran # call[c].ran =>
       /\ call[c].ran = 0 /\ \A d \in call[c].group : call[d].recorded
       /\ call[c].results = 0 \/ c \in overlapped]_sessionVars

\* A process that opens the session finds a history it can replay: no call is left without
\* a result, and no recovered call without an audit line.
OpenedHistoryReads ==
  [][\A r \in Runtimes : (runtime[r] = "opening" /\ runtime'[r] = "open") =>
       \A c \in Calls \ overlapped :
         call[c].recorded => call[c].results = 1 /\ (call[c].recovered => call[c].audits = 1)]_sessionVars

\* Every prompt ends, and a process that closes is gone: time and again nothing is left
\* under way (runtime_lifecycle.go).
SessionSettles ==
  []<>(/\ \A t \in Turns : turn[t].pc \in {"new", "over"}
       /\ \A r \in Runtimes : runtime[r] # "closing")
=============================================================================
