------------------------------ MODULE BashRun ------------------------------
(***************************************************************************)
(* A call of the bash tool: a shell whose output is copied from a pipe to  *)
(* a bounded buffer, killed as a process group when the context of the     *)
(* call ends, and a process it left in the background that may hold the    *)
(* pipe open (internal/tools/bash.go).  Run waits for the shell, then for  *)
(* the copying goroutine, but never longer than WaitDelay.                 *)
(***************************************************************************)
EXTENDS Naturals

CONSTANTS MaxOutput, \* bound: pieces the processes write
          Limit      \* maxOutputBytes, in pieces

BashConstants == MaxOutput \in Nat /\ Limit \in Nat \ {0}

VARIABLES mode,    \* "host" or "isolated"
          expired, \* the context of the call ended: a timeout, or its run was cancelled
          shell,   \* "none", "running", "ok", "failed" or "killed"
          child,   \* [pc, grouped, holds]: left behind, in the group of the shell, on its pipe
          pipe,    \* pieces written and not copied
          written, \* pieces written so far
          buffer,  \* [len, truncated] of boundedBuffer
          call,    \* [pc, watch, cut]: where Run is, what watched the context, pipe closed
          result   \* BashResult

bashVars == <<mode, expired, shell, child, pipe, written, buffer, call, result>>

Modes == {"host", "isolated"}
NoChild == [pc |-> "none", grouped |-> TRUE, holds |-> FALSE]
NoResult == [error |-> "none", len |-> 0, code |-> "none", timedOut |-> FALSE, truncated |-> FALSE]

BashInit ==
  /\ mode \in Modes
  /\ expired = FALSE /\ shell = "none" /\ child = NoChild
  /\ pipe = 0 /\ written = 0 /\ buffer = [len |-> 0, truncated |-> FALSE]
  /\ call = [pc |-> "new", watch |-> "none", cut |-> FALSE]
  /\ result = NoResult

Answers(r) == call' = [call EXCEPT !.pc = "answered"] /\ result' = r

\* Arguments that do not decode, a working directory that is none, no executable, or a context
\* that ended before Start.
Refuse ==
  /\ call.pc = "new"
  /\ Answers([NoResult EXCEPT !.error = "refused", !.code = "unknown", !.timedOut = expired])
  /\ UNCHANGED <<mode, expired, shell, child, pipe, written, buffer>>

\* command: bash itself, or bubblewrap with a process namespace of its own.
Begin ==
  /\ call.pc = "new" /\ ~expired
  /\ call' = [call EXCEPT !.pc = "running"] /\ shell' = "running"
  /\ UNCHANGED <<mode, expired, child, pipe, written, buffer, result>>

Writes ==
  /\ shell = "running" \/ (child.pc = "running" /\ child.holds)
  /\ written < MaxOutput
  /\ written' = written + 1
  \* A pipe without a reader takes nothing in.
  /\ pipe' = IF call.cut THEN pipe ELSE pipe + 1
  /\ UNCHANGED <<mode, expired, shell, child, buffer, call, result>>

Forks ==
  /\ shell = "running" /\ child.pc = "none"
  /\ \E g, h \in BOOLEAN : child' = [pc |-> "running", grouped |-> g, holds |-> h]
  /\ UNCHANGED <<mode, expired, shell, pipe, written, buffer, call, result>>

ChildEnds ==
  /\ child.pc = "running" /\ child' = [child EXCEPT !.pc = "gone"]
  /\ UNCHANGED <<mode, expired, shell, pipe, written, buffer, call, result>>

Gone == IF child.pc = "running" THEN [child EXCEPT !.pc = "gone"] ELSE child

\* With the shell goes its namespace.
ShellExits ==
  /\ shell = "running" /\ shell' \in {"ok", "failed"}
  /\ child' = IF mode = "isolated" THEN Gone ELSE child
  /\ UNCHANGED <<mode, expired, pipe, written, buffer, call, result>>

Expire ==
  /\ ~expired /\ call.pc # "answered" /\ expired' = TRUE
  /\ UNCHANGED <<mode, shell, child, pipe, written, buffer, call, result>>

\* boundedBuffer.Write: what does not fit is counted as written and marked.
Kept == IF buffer.len < Limit THEN [buffer EXCEPT !.len = @ + 1]
                              ELSE [buffer EXCEPT !.truncated = TRUE]

Copy ==
  /\ pipe > 0 /\ ~call.cut
  /\ pipe' = pipe - 1 /\ buffer' = Kept
  /\ UNCHANGED <<mode, expired, shell, child, written, call, result>>

\* A mutant: the signal goes to the shell alone.
ShellOnly == mode = "isolated"

\* cmd.Cancel: SIGKILL to the process group.
Reaches == mode = "isolated" \/ child.grouped

\* The goroutine that watches the context, until Wait took the shell. A shell that exited and
\* was not waited for still counts; a group without members is os.ErrProcessDone, and the end of
\* the context is then no error.
Cancel ==
  /\ call.pc = "running" /\ call.watch = "none" /\ expired
  /\ LET any == shell = "running" \/ (child.pc = "running" /\ Reaches) IN
       \E signalled \in {any, TRUE} :
         call' = [call EXCEPT !.watch = IF signalled THEN "killed" ELSE "done"]
  /\ shell' = IF shell = "running" THEN "killed" ELSE shell
  /\ child' = IF Reaches THEN Gone ELSE child
  /\ UNCHANGED <<mode, expired, pipe, written, buffer, result>>

\* Process.Wait, and then awaitGoroutines.
Reap ==
  /\ call.pc = "running" /\ shell \in {"ok", "failed", "killed"}
  /\ call' = [call EXCEPT !.pc = "draining"]
  /\ UNCHANGED <<mode, expired, shell, child, pipe, written, buffer, result>>

\* A mutant: what is still in the pipe is left there.
ShellGone == TRUE

\* The copy ends when nobody can write any more and all was read.
Drained == pipe = 0 /\ ~(child.pc = "running" /\ child.holds)

\* A mutant: no WaitDelay, the default.
NoDelay == FALSE

\* WaitDelay is over: Run closes its end of the pipe.
DelayOver == call.pc = "draining" \/ (call.pc = "running" /\ call.watch # "none")

CutOff ==
  /\ DelayOver /\ ~call.cut
  /\ call' = [call EXCEPT !.cut = TRUE]
  /\ UNCHANGED <<mode, expired, shell, child, pipe, written, buffer, result>>

\* The error of Run: the exit status first, then the context, then the pipe.
RunError ==
  IF shell # "ok" THEN "exit"
  ELSE IF call.watch = "killed" THEN "context"
  ELSE IF call.cut THEN "waitDelay" ELSE "none"

\* bashExitCode knows the status only of a Run that ended by it.
ExitCode ==
  CASE RunError = "none" -> "zero" [] RunError = "exit" -> "status" [] OTHER -> "unknown"

\* The context is looked at once more, after Run.
Return ==
  /\ call.pc = "draining" /\ (Drained \/ call.cut)
  /\ Answers([error |-> RunError, len |-> buffer.len, code |-> ExitCode, timedOut |-> expired,
              truncated |-> buffer.truncated])
  /\ UNCHANGED <<mode, expired, shell, child, pipe, written, buffer>>

Execute == Refuse \/ Begin \/ Copy \/ Cancel \/ Reap \/ CutOff \/ Return
BashNext == Execute \/ Writes \/ Forks \/ ChildEnds \/ ShellExits \/ Expire

\* The goroutines of the call run; nothing is asked of the processes.
BashFairness == WF_bashVars(Execute)

BashSpec == BashInit /\ [][BashNext]_bashVars /\ BashFairness

BashTypeOK ==
  /\ mode \in Modes /\ expired \in BOOLEAN
  /\ shell \in {"none", "running", "ok", "failed", "killed"}
  /\ child \in [pc : {"none", "running", "gone"}, grouped : BOOLEAN, holds : BOOLEAN]
  /\ pipe \in 0..MaxOutput /\ written \in 0..MaxOutput
  /\ buffer \in [len : 0..Limit, truncated : BOOLEAN]
  /\ call \in [pc : {"new", "running", "draining", "answered"},
               watch : {"none", "killed", "done"}, cut : BOOLEAN]
  /\ result \in [error : {"none", "refused", "exit", "context", "waitDelay"}, len : 0..Limit,
                 code : {"none", "zero", "status", "unknown"}, timedOut : BOOLEAN,
                 truncated : BOOLEAN]

\* A result that is no error has all that the command wrote, the processes it left included, or
\* says that it was cut at the limit (Run's wait for the copy, boundedBuffer).
OutputIsWhole ==
  call.pc = "answered" /\ result.error = "none" =>
    /\ shell = "ok" /\ result.truncated = (written > Limit)
    /\ result.truncated \/ result.len = written

\* A command that was killed leaves no process of its group behind, and an isolated one leaves
\* none at all; on the host a process in a session of its own survives.
KilledLeavesNothing ==
  call.pc = "answered" /\ child.pc = "running" =>
    mode = "host" /\ (call.watch # "killed" \/ ~child.grouped)

\* The call returns when its context ends or its shell does, whatever holds the pipe.
ExecuteReturns == <>[](expired \/ shell \notin {"none", "running"} => call.pc = "answered")

=============================================================================
