--------------------------- MODULE ExternalDriver ---------------------------
(***************************************************************************)
(* One patch turn of a coding agent that runs as a process of its own: the *)
(* disposable stage it is given, the two transports (`codex exec` and ACP, *)
(* a JSON-RPC dialogue over stdio), the end of the process, and the scans  *)
(* that decide what is imported into the worker (driver_stage.go, patch.go,*)
(* codex/driver.go, acp/).  The agent is external: it writes the stage     *)
(* (codex), speaks, exits, and may leave a process behind that escaped its *)
(* group, holds the pipe and goes on writing.  Somebody else may edit the  *)
(* worker meanwhile.                                                       *)
(***************************************************************************)
EXTENDS Integers, Sequences

CONSTANTS Files,
          Transports,   \* {"codex", "acp"}, or one of them
          MaxLines,     \* maxCodexOutputLines, maxProtocolBytes
          MaxWrites     \* writes of the agent into the stage

VARIABLES transport, turn, group, stray, pipe, output, stage, scan, live, edited, writes

driverVars == <<transport, turn, group, stray, pipe, output, stage, scan, live, edited, writes>>

Contents == {"old", "new", "none", "link", "mine"}
Baseline == [f \in Files |-> "old"]

DriverInit ==
  /\ transport \in Transports
  /\ turn = [pc |-> "staging", phase |-> 0, cancelled |-> FALSE, failed |-> FALSE,
             bad |-> FALSE, forced |-> FALSE, outcome |-> "none"]
  /\ group = "none" /\ stray = FALSE /\ pipe = <<>>
  /\ output = [lines |-> 0, held |-> 0, recorded |-> 0]
  /\ stage = Baseline /\ live = Baseline
  /\ scan = [after |-> Baseline, read |-> Baseline]
  /\ edited = {} /\ writes = 0

At(pc) == turn.pc = pc
Goto(pc) == turn' = [turn EXCEPT !.pc = pc]
End(outcome) == turn' = [turn EXCEPT !.pc = "ended", !.outcome = outcome]
Ended == At("ended")

----------------------------------------------------------------------------

\* patchWorkerWithExternalDriver compares the worker with its first fingerprint after staging, after
\* the turn and before the import.
WorkerUntouched == live = Baseline

\* newExternalDriverStage: the copy is compared with the worker it was taken from.
StageWorker ==
  /\ At("staging")
  /\ \/ WorkerUntouched /\ Goto("starting")
     \/ End("failed")
  /\ UNCHANGED <<transport, group, stray, pipe, output, stage, scan, live, edited, writes>>

\* cmd.Start; the ACP client sends its first request.
StartAgent ==
  /\ At("starting")
  /\ \/ /\ group' = "up"
        /\ turn' = [turn EXCEPT !.pc = "running", !.phase = 1]
     \/ End("failed") /\ UNCHANGED group
  /\ UNCHANGED <<transport, stray, pipe, output, stage, scan, live, edited, writes>>

\* The context of the turn kills the process group; what escaped it survives.
CancelTurn ==
  /\ ~turn.cancelled /\ ~Ended
  /\ turn' = [turn EXCEPT !.cancelled = TRUE]
  /\ UNCHANGED <<transport, group, stray, pipe, output, stage, scan, live, edited, writes>>

KillGroup ==
  /\ At("running") \/ At("reaping")
  /\ turn.cancelled \/ turn.failed
  /\ group = "up" /\ group' = "gone"
  /\ turn' = [turn EXCEPT !.bad = TRUE]
  /\ UNCHANGED <<transport, stray, pipe, output, stage, scan, live, edited, writes>>

\* addLine: a line counts against the budget of the turn, then goes to the transcript; either
\* may fail, and the first failure cancels the process.
CodexLine ==
  /\ transport = "codex" /\ At("running") /\ pipe # <<>> /\ ~turn.failed
  /\ pipe' = <<>>
  /\ \/ /\ output.lines < MaxLines
        /\ output' = [output EXCEPT !.lines = @ + 1, !.recorded = @ + 1]
        /\ UNCHANGED turn
     \/ /\ output' = [output EXCEPT !.lines = IF @ < MaxLines THEN @ + 1 ELSE @]
        /\ turn' = [turn EXCEPT !.failed = TRUE]
  /\ UNCHANGED <<transport, group, stray, stage, scan, live, edited, writes>>

\* Cmd.Wait joins the copying of both streams, or gives the pipe up after WaitDelay and reports
\* it; the rest of the group is killed after it.
CodexWait ==
  /\ transport = "codex" /\ At("running") /\ group # "up"
  /\ pipe = <<>> \/ stray \/ turn.failed
  /\ turn' = [turn EXCEPT !.pc = "settling", !.failed = @ \/ stray \/ turn.bad]
  /\ UNCHANGED <<transport, group, stray, pipe, output, stage, scan, live, edited, writes>>

\* run: the requests of a turn, in order; what does not answer them as expected (another protocol
\* version, no safe permission mode, an error, a stop before the end of the turn) ends it.
Requests == <<"initialize", "session/new", "session/set_config_option", "session/prompt">>

\* A chunk of text is counted and pushed into the redactor, which holds it back until it is known
\* to hold no secret; what it lets go of is recorded.
HoldText(o) == [o EXCEPT !.lines = @ + 1, !.held = 1, !.recorded = @ + o.held]

\* A permission is never granted, nor any method of the client offered: the turn goes on.
RefuseRequest == UNCHANGED <<output, turn>>

\* call, one message.
AcpLine ==
  /\ transport = "acp" /\ At("running") /\ pipe # <<>> /\ ~turn.failed
  /\ pipe' = <<>>
  /\ LET fails == turn' = [turn EXCEPT !.failed = TRUE]
     IN  \/ pipe[1] = "line" /\ output.lines < MaxLines /\ output' = HoldText(output)
            /\ (UNCHANGED turn \/ (fails /\ output.held > 0))
         \/ pipe[1] = "line" /\ output.lines >= MaxLines /\ fails /\ UNCHANGED output
         \/ pipe[1] = "ask" /\ RefuseRequest
         \/ pipe[1] = "reply" /\ turn.phase < Len(Requests)
            /\ turn' = [turn EXCEPT !.phase = @ + 1] /\ UNCHANGED output
         \/ pipe[1] = "reply" /\ turn.phase = Len(Requests) /\ Goto("flushing")
            /\ UNCHANGED output
         \/ pipe[1] = "refusal" /\ fails /\ UNCHANGED output
  /\ UNCHANGED <<transport, group, stray, stage, scan, live, edited, writes>>

\* The stream ends once nobody holds it, whatever the context says.
AcpEnds ==
  /\ transport = "acp" /\ At("running")
  /\ turn.failed \/ (group # "up" /\ ~stray /\ pipe = <<>>)
  /\ turn' = [turn EXCEPT !.pc = "flushing", !.failed = TRUE]
  /\ UNCHANGED <<transport, group, stray, pipe, output, stage, scan, live, edited, writes>>

\* run's deferred flushText: what the redactor held is recorded, or the turn fails.
FlushForgets(o) == [o EXCEPT !.held = 0]   \* mutant: the redactor is never flushed
FlushHeld(o) == [o EXCEPT !.recorded = @ + o.held, !.held = 0]
FlushText ==
  /\ At("flushing")
  /\ \/ output' = FlushHeld(output) /\ Goto("reaping")
     \/ /\ output.held > 0 /\ UNCHANGED output
        /\ turn' = [turn EXCEPT !.pc = "reaping", !.failed = TRUE]
  /\ UNCHANGED <<transport, group, stray, pipe, stage, scan, live, edited, writes>>

\* waitForACPProcess: an adapter that does not leave after its turn is killed, and that is no
\* failure of the turn; one that left badly, or whose stderr is still held, is.
AcpReap ==
  /\ At("reaping")
  /\ \/ group = "up" /\ turn' = [turn EXCEPT !.pc = "settling", !.forced = TRUE]
     \/ group # "up" /\ turn' = [turn EXCEPT !.pc = "settling", !.failed = @ \/ stray \/ turn.bad]
  /\ group' = "gone"
  /\ UNCHANGED <<transport, stray, pipe, output, stage, scan, live, edited, writes>>

\* RunTurn's result: any failure, or the caller's context, refuses the turn before its plan or
\* its stage is looked at.
Settle ==
  /\ At("settling")
  /\ IF turn.failed \/ turn.cancelled THEN End("failed")
     ELSE Goto(IF transport = "acp" THEN "planning" ELSE "scanning")
  /\ UNCHANGED <<transport, group, stray, pipe, output, stage, scan, live, edited, writes>>

\* applyPatchPlan: the whole plan is checked before the first file is written; a write that
\* fails later leaves the stage half written and refuses the turn.
ApplyPatchPlan ==
  /\ At("planning")
  /\ \/ End("failed") /\ UNCHANGED stage
     \/ \E plan \in SUBSET Files : \E done \in SUBSET plan :
          /\ plan # {}
          /\ stage' = [f \in Files |-> IF f \in done THEN "new" ELSE stage[f]]
          /\ IF done = plan THEN Goto("scanning") ELSE End("failed")
  /\ UNCHANGED <<transport, group, stray, pipe, output, scan, live, edited, writes>>

----------------------------------------------------------------------------
(* The import. *)

Importable(tree) == \A f \in Files : tree[f] # "link"

\* changes, first scan (two equal snapshots): links, modes and sizes are refused.
ScanStage ==
  /\ At("scanning")
  /\ \/ /\ WorkerUntouched /\ Importable(stage)
        /\ scan' = [scan EXCEPT !.after = stage]
        /\ Goto("reading")
     \/ End("failed") /\ UNCHANGED scan
  /\ UNCHANGED <<transport, group, stray, pipe, output, stage, live, edited, writes>>

\* The contents to import are read file by file, after the scan; a file that is gone or is no
\* regular text by then refuses the turn.
Readable(f) == stage[f] \notin {"link", "none"} \/ scan.after[f] = "none"
ReadChanges ==
  /\ At("reading")
  /\ \/ /\ \A f \in Files : Readable(f)
        /\ scan' = [scan EXCEPT !.read = [f \in Files |-> IF scan.after[f] = "none" THEN "none"
                                                          ELSE stage[f]]]
        /\ Goto("confirming")
     \/ End("failed") /\ UNCHANGED scan
  /\ UNCHANGED <<transport, group, stray, pipe, output, stage, live, edited, writes>>

\* The second scan has to find what the first one did.
ConfirmStage ==
  /\ At("confirming")
  /\ IF stage = scan.after THEN Goto("importing") ELSE End("failed")
  /\ UNCHANGED <<transport, group, stray, pipe, output, stage, scan, live, edited, writes>>

\* importExternalDriverChanges: only into the worker the stage was taken from, and what stands
\* there afterwards has to be the scanned tree, or everything is put back.
ImportTrusts(imported) == TRUE   \* mutant: nothing is compared after the import
ImportVerifies(imported) == imported = scan.after
Import ==
  /\ At("importing")
  /\ IF WorkerUntouched /\ ImportVerifies(scan.read) /\ ~turn.cancelled
     THEN live' = scan.read /\ End("imported")
     ELSE UNCHANGED live /\ End("failed")
  /\ UNCHANGED <<transport, group, stray, pipe, output, stage, scan, edited, writes>>

----------------------------------------------------------------------------
(* The agent and the others. *)

Alive == group = "up" \/ stray
Says ==
  IF transport = "codex" THEN {"line"}
  ELSE IF At("running") THEN {"line", "ask", "reply", "refusal"} ELSE {}

AgentSpeaks ==
  /\ Alive /\ pipe = <<>> /\ At("running") /\ ~turn.failed
  /\ \E m \in Says : pipe' = <<m>>
  /\ UNCHANGED <<transport, turn, group, stray, output, stage, scan, live, edited, writes>>

AgentWrites ==
  /\ Alive /\ writes < MaxWrites /\ ~Ended
  /\ \E f \in Files, c \in {"old", "new", "none", "link"} :
       c # stage[f] /\ stage' = [stage EXCEPT ![f] = c]
  /\ writes' = writes + 1
  /\ UNCHANGED <<transport, turn, group, stray, pipe, output, scan, live, edited>>

AgentEscapes ==
  /\ group = "up" /\ ~stray /\ stray' = TRUE
  /\ UNCHANGED <<transport, turn, group, pipe, output, stage, scan, live, edited, writes>>

AgentExits ==
  /\ group = "up" /\ group' = "gone"
  /\ \/ UNCHANGED turn
     \/ turn' = [turn EXCEPT !.bad = TRUE]
  /\ UNCHANGED <<transport, stray, pipe, output, stage, scan, live, edited, writes>>

StrayExits ==
  /\ stray /\ stray' = FALSE
  /\ UNCHANGED <<transport, turn, group, pipe, output, stage, scan, live, edited, writes>>

SomebodyEdits ==
  /\ ~Ended /\ edited = {}
  /\ \E f \in Files : live' = [live EXCEPT ![f] = "mine"] /\ edited' = {f}
  /\ UNCHANGED <<transport, turn, group, stray, pipe, output, stage, scan, writes>>

DriverStep ==
  \/ StageWorker \/ StartAgent \/ KillGroup \/ CodexLine \/ CodexWait \/ AcpLine \/ AcpEnds
  \/ FlushText \/ AcpReap \/ Settle \/ ApplyPatchPlan \/ ScanStage \/ ReadChanges \/ ConfirmStage
  \/ Import

DriverNext ==
  DriverStep \/ CancelTurn \/ AgentSpeaks \/ AgentWrites \/ AgentEscapes \/ AgentExits
  \/ StrayExits \/ SomebodyEdits

DriverFairness == WF_driverVars(DriverStep) /\ WF_driverVars(KillGroup)
DriverSpec == DriverInit /\ [][DriverNext]_driverVars /\ DriverFairness

DriverTypeOK ==
  /\ transport \in Transports
  /\ turn.pc \in {"staging", "starting", "running", "flushing", "reaping", "settling", "planning",
                  "scanning", "reading", "confirming", "importing", "ended"}
  /\ turn.phase \in 0..4 /\ turn.outcome \in {"none", "failed", "imported"}
  /\ group \in {"none", "up", "gone"} /\ stray \in BOOLEAN /\ Len(pipe) <= 1
  /\ output.lines \in 0..MaxLines /\ output.held \in 0..1
  /\ stage \in [Files -> Contents] /\ live \in [Files -> Contents]

Imported == Ended /\ turn.outcome = "imported"

\* What a turn brings into the worker is the tree that was scanned: no link, nothing written
\* between the scan and the import, and over nobody's edit.
ImportedIsScanned ==
  Imported => /\ \A f \in Files : live[f] = "mine" \/ live[f] = scan.after[f]
              /\ \A f \in Files : live[f] # "link"
              /\ \A f \in edited : live[f] = "mine"

\* A turn that failed at any point has changed nothing in the worker.
FailedLeavesWorker ==
  Ended /\ turn.outcome = "failed" => \A f \in Files \ edited : live[f] = "old"

\* A turn is only imported when its process group is gone and all it said is on record.
ImportedIsRecorded ==
  Imported => group = "gone" /\ output.held = 0 /\ output.recorded = output.lines

\* A cancelled turn ends, unless a process that escaped the group of an ACP adapter keeps its
\* stdout open: the client reads to the end of the stream before it waits for the process.
CancelledTurnEnds == <>[](turn.cancelled => Ended \/ (transport = "acp" /\ stray))
=============================================================================
