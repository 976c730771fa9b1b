--------------------------- MODULE WorkerEvidence ---------------------------
(***************************************************************************)
(* How an operate turn proves that it finished: the tools that write the   *)
(* worker's source (one file, or a driver's staged patch that is imported  *)
(* file by file and rolled back when it fails), the audit, review, build   *)
(* and transfer that each bind the fingerprint of that source, and the     *)
(* completion gate folded from the transcript, which lets a turn that      *)
(* wrote end only with an audit and a build of what is on disk             *)
(* (internal/operate: agent_completion.go, harness.go, audit.go, build.go, *)
(* review.go, transfer.go, patch.go, driver_stage.go).                     *)
(*                                                                         *)
(* The source maps each file to a version and is its own fingerprint.  The *)
(* operator's editor changes it between any two steps, always to a version *)
(* never seen before; a crash may cut a tool anywhere.                     *)
(***************************************************************************)
EXTENDS Integers, FiniteSets

CONSTANTS Files,       \* the files of the worker
          MaxEdits,    \* versions written over one behaviour
          MaxToolCalls, \* tool calls over one behaviour
          MaxFailures  \* failed writes and crashes over one behaviour

EvidenceConstants == {MaxEdits, MaxToolCalls, MaxFailures} \subseteq Nat

VARIABLES source,    \* the worker's files, each with its version
          audit,     \* audit.json
          review,    \* review.json
          build,     \* build.json
          binary,    \* the source the binary in the build directory was compiled from
          transfer,  \* transfer.json and what the hosts then run
          status,    \* the status of the session
          gate,      \* the completion gate of the running turn
          replayed,  \* the gate that the transcript alone would give
          tool,      \* the tool call in progress
          loop,      \* what the turn is doing
          spent      \* versions, calls and mishaps used so far

evidenceVars == <<source, audit, review, build, binary, transfer, status, gate, replayed, tool,
                  loop, spent>>
documents == <<audit, review, build, binary, transfer>>

Unset == [f \in Files |-> -1]
Tree  == [Files -> -1..MaxEdits]

Mutations == {"write", "patch"}
Tools     == Mutations \cup {"audit", "review", "build", "transfer"}
NoTool    == [name |-> "none", step |-> "none", seen |-> Unset, stage |-> Unset,
              changes |-> {}, applied |-> {}, landed |-> {}, proof |-> 0]
NoProof   == [passed |-> FALSE, source |-> Unset, id |-> 0]

EvidenceTypeOK ==
    /\ source \in Tree /\ binary \in Tree
    /\ audit \in [passed : BOOLEAN, source : Tree, id : 0..MaxToolCalls]
    /\ review \in [passed : BOOLEAN, source : Tree, id : 0..MaxToolCalls]
    /\ build \in [audited : BOOLEAN, source : Tree, audit : 0..MaxToolCalls, sha : Tree]
    /\ transfer \in [done : BOOLEAN, source : Tree]
    /\ status \in {"selected", "patching", "patched", "patch_failed", "auditing", "reviewed",
                   "audit_failed", "built", "transferred"}
    /\ {gate, replayed} \subseteq [required : BOOLEAN, worker : BOOLEAN, audit : BOOLEAN,
                                   build : BOOLEAN, source : Tree, id : 0..MaxToolCalls]
    /\ tool.name \in Tools \cup {"none"} /\ tool.changes \subseteq Files
    /\ loop \in {"idle", "asking", "calling", "completed"}
    /\ spent \in [edits : 0..MaxEdits, calls : 0..MaxToolCalls, mishaps : 0..MaxFailures]

EvidenceInit ==
    /\ source = [f \in Files |-> 0]
    /\ audit = NoProof /\ review = NoProof
    /\ build = [audited |-> FALSE, source |-> Unset, audit |-> 0, sha |-> Unset]
    /\ binary = Unset
    /\ transfer = [done |-> FALSE, source |-> Unset]
    /\ status = "selected"
    /\ gate = [required |-> FALSE, worker |-> FALSE, audit |-> FALSE, build |-> FALSE,
               source |-> Unset, id |-> 0]
    /\ replayed = gate
    /\ tool = NoTool /\ loop = "idle"
    /\ spent = [edits |-> 0, calls |-> 0, mishaps |-> 0]

---------------------------------------------------------------------------
(* The completion gate.                                                    *)

\* The gate forgets every proof and asks for new ones.
Demanding(g, worker) ==
    [required |-> TRUE, worker |-> worker, audit |-> FALSE, build |-> FALSE,
     source |-> Unset, id |-> 0]

\* A tool that may write is about to run.
Attempted(g, name) == IF name \in Mutations THEN Demanding(g, FALSE) ELSE g

\* A tool returned an error.
Refused(g, name) ==
    CASE g.required /\ name = "audit" ->
           [g EXCEPT !.audit = FALSE, !.build = FALSE, !.source = Unset, !.id = 0]
      [] g.required /\ name = "build" -> [g EXCEPT !.build = FALSE]
      [] OTHER -> g

Wrote(g, changed) == IF changed THEN Demanding(g, TRUE) ELSE g

Audited(g, doc) ==
    IF ~g.required THEN g
    ELSE [g EXCEPT !.audit = doc.passed, !.build = FALSE,
                   !.source = IF doc.passed THEN doc.source ELSE Unset,
                   !.id = IF doc.passed THEN doc.id ELSE 0]

Built(g, doc) ==
    IF ~g.required THEN g
    ELSE [g EXCEPT !.build = /\ g.audit /\ doc.audited
                             /\ doc.source = g.source /\ doc.audit = g.id]

Complete(g) == g.required => g.worker /\ g.audit /\ g.build

\* A passing report about the source now on disk.
Current(doc) == doc.passed /\ doc.source = source

\* Mutant: the gate trusts the events of the turn and reads no file.
Unreconciled(g) == g

\* The gate after the evidence files are read again.
Reconciled(g) ==
    LET sameAudit == Current(audit) /\ audit.source = g.source /\ audit.id = g.id
        sameBuild == /\ build.audited /\ build.source = audit.source
                     /\ build.audit = audit.id /\ build.sha = binary
    IN  IF ~g.required \/ ~Complete(g) THEN g
        ELSE [g EXCEPT !.audit = sameAudit, !.build = sameAudit /\ sameBuild]

---------------------------------------------------------------------------
(* One turn of the model loop.                                             *)

\* The operator prompts; a prompt that asks for changes demands proofs at once.
StartTurn(intent) ==
    /\ loop \in {"idle", "completed"}
    /\ LET g == Reconciled(replayed) IN gate' = IF intent THEN Attempted(g, "write") ELSE g
    /\ loop' = "asking"
    /\ UNCHANGED <<source, documents, status, replayed, tool, spent>>

\* The model asks for one tool; the call is in the transcript before it runs.
CallTool(name) ==
    /\ loop = "asking" /\ spent.calls < MaxToolCalls
    /\ spent' = [spent EXCEPT !.calls = @ + 1]
    /\ tool' = [NoTool EXCEPT !.name = name, !.step = "begin"]
    /\ gate' = Attempted(gate, name) /\ replayed' = Attempted(replayed, name)
    /\ loop' = "calling"
    /\ status' = CASE name = "patch" -> "patching" [] name = "audit" -> "auditing" [] OTHER -> status
    /\ UNCHANGED <<source, documents>>

\* The model asks for nothing more: the turn ends only if the evidence is whole.
AnswerTurn ==
    /\ loop = "asking"
    /\ gate' = Reconciled(gate)
    /\ loop' = IF Complete(gate') THEN "completed" ELSE "asking"
    /\ UNCHANGED <<source, documents, status, replayed, tool, spent>>

\* The step budget of the turn runs out.
Exhaust ==
    /\ loop = "asking" /\ loop' = "idle"
    /\ UNCHANGED <<source, documents, status, gate, replayed, tool, spent>>

Returns(g, r) == gate' = g /\ replayed' = r /\ tool' = NoTool /\ loop' = "asking"

\* The tool in progress returns an error.
Fail ==
    /\ Returns(Refused(gate, tool.name), Refused(replayed, tool.name))
    /\ status' = CASE tool.name = "patch" -> "patch_failed"
                   [] tool.name = "audit" -> "audit_failed"
                   [] OTHER -> status

AtStep(name, step) == loop = "calling" /\ tool.name = name /\ tool.step = step
Step(s)        == tool' = [tool EXCEPT !.step = s] /\ UNCHANGED <<status, gate, replayed, loop>>
Failure        == spent.mishaps < MaxFailures /\ spent' = [spent EXCEPT !.mishaps = @ + 1]
NextVersion    == spent.edits + 1

\* The process dies: startup records the call as interrupted.
ProcessDies ==
    /\ loop \in {"asking", "calling"} /\ Failure
    /\ replayed' = IF tool = NoTool THEN replayed ELSE Refused(replayed, tool.name)
    /\ tool' = NoTool /\ loop' = "idle" /\ gate' = replayed'
    /\ UNCHANGED <<source, documents, status>>

\* Someone edits a file of the worker outside the session.
EditSource(f) ==
    /\ spent.edits < MaxEdits
    /\ source' = [source EXCEPT ![f] = NextVersion]
    /\ spent' = [spent EXCEPT !.edits = NextVersion]
    /\ UNCHANGED <<documents, status, gate, replayed, tool, loop>>

---------------------------------------------------------------------------
(* write_worker_file                                                       *)

WriteFile(f) ==
    /\ AtStep("write", "begin") /\ spent.edits < MaxEdits
    /\ source' = [source EXCEPT ![f] = NextVersion]
    /\ spent' = [spent EXCEPT !.edits = NextVersion]
    /\ Returns(Wrote(gate, TRUE), Wrote(replayed, TRUE))
    /\ UNCHANGED <<documents, status>>

\* The file already holds what the model wrote.
WriteNothing ==
    /\ AtStep("write", "begin")
    /\ Returns(Wrote(gate, FALSE), Wrote(replayed, FALSE))
    /\ UNCHANGED <<source, documents, status, spent>>

WriteFails ==
    /\ AtStep("write", "begin") /\ Failure /\ Fail
    /\ UNCHANGED <<source, documents>>

---------------------------------------------------------------------------
(* patch_worker with an external driver                                    *)

\* The worktree is clean: fingerprint it and stage a copy for the driver.
StagePatch ==
    /\ AtStep("patch", "begin")
    /\ tool' = [tool EXCEPT !.step = "driving", !.seen = source, !.stage = source]
    /\ UNCHANGED <<source, documents, status, gate, replayed, loop, spent>>

\* The driver edits its stage; the turn is refused if the worker changed meanwhile.
DriverTurn(changes) ==
    /\ AtStep("patch", "driving") /\ source = tool.seen
    /\ changes # {} => spent.edits < MaxEdits
    /\ tool' = [tool EXCEPT !.step = "applying", !.changes = changes,
                            !.stage = [f \in Files |->
                                         IF f \in changes THEN NextVersion ELSE source[f]]]
    /\ spent' = IF changes = {} THEN spent ELSE [spent EXCEPT !.edits = NextVersion]
    /\ UNCHANGED <<source, documents, status, gate, replayed, loop>>

\* A dirty worktree, a driver error, or a worker that changed under the driver.
PatchRefused ==
    /\ AtStep("patch", "begin") \/ AtStep("patch", "driving")
    /\ Fail
    /\ UNCHANGED <<source, documents, spent>>

\* One staged file replaces the live one, whatever the live one holds by now.
ApplyChange(f) ==
    /\ AtStep("patch", "applying") /\ f \in tool.changes \ tool.applied
    /\ source' = [source EXCEPT ![f] = tool.stage[f]]
    /\ tool' = [tool EXCEPT !.applied = @ \cup {f}]
    /\ UNCHANGED <<documents, status, gate, replayed, loop, spent>>

\* A file could not be written; it may have been replaced before the error.
ApplyFails(f) ==
    /\ AtStep("patch", "applying") /\ f \in tool.changes \ tool.applied /\ Failure
    /\ \E landed \in BOOLEAN :
          /\ source' = IF landed THEN [source EXCEPT ![f] = tool.stage[f]] ELSE source
          /\ tool' = [tool EXCEPT !.step = "undoing", !.landed = IF landed THEN {f} ELSE {}]
    /\ UNCHANGED <<documents, status, gate, replayed, loop>>

\* Every file is written: the worker must now equal the stage.
VerifyImport ==
    /\ AtStep("patch", "applying") /\ tool.applied = tool.changes
    /\ IF source = tool.stage
         THEN /\ LET changed == tool.changes # {}
                 IN Returns(Wrote(gate, changed), Wrote(replayed, changed))
              /\ status' = "patched"
         ELSE Step("undoing")
    /\ UNCHANGED <<source, documents, spent>>

\* The rollback writes the old content of one applied file back.
UndoChange(f) ==
    /\ AtStep("patch", "undoing") /\ f \in tool.applied
    /\ source' = [source EXCEPT ![f] = tool.seen[f]]
    /\ tool' = [tool EXCEPT !.applied = @ \ {f}]
    /\ UNCHANGED <<documents, status, gate, replayed, loop, spent>>

\* Mutant: the rollback stops before the last file.
UndoneSome ==
    /\ AtStep("patch", "undoing") /\ \E f \in Files : tool.applied \subseteq {f}
    /\ Fail
    /\ UNCHANGED <<source, documents, spent>>

UndoneAll ==
    /\ AtStep("patch", "undoing") /\ tool.applied = {}
    /\ Fail
    /\ UNCHANGED <<source, documents, spent>>

---------------------------------------------------------------------------
(* audit_worker and review_worker                                          *)

Inspect(name) ==
    /\ AtStep(name, "begin") /\ name \in {"audit", "review"}
    /\ tool' = [tool EXCEPT !.step = "gates", !.seen = source]
    /\ UNCHANGED <<source, documents, status, gate, replayed, loop, spent>>

\* The gates ran; the report passes only if the source did not move under them.
FinishAudit(green) ==
    /\ AtStep("audit", "gates")
    /\ LET report == [passed |-> green /\ source = tool.seen, source |-> tool.seen,
                      id |-> spent.calls]
       IN  /\ audit' = report
           /\ status' = IF report.passed THEN "reviewed" ELSE "audit_failed"
           /\ Returns(Audited(gate, report), Audited(replayed, report))
    /\ UNCHANGED <<source, review, build, binary, transfer, spent>>

FinishReview(clean) ==
    /\ AtStep("review", "gates") /\ source = tool.seen
    /\ review' = [passed |-> clean, source |-> tool.seen, id |-> spent.calls]
    /\ status' = "reviewed"
    /\ Returns(gate, replayed)
    /\ UNCHANGED <<source, audit, build, binary, transfer, spent>>

\* The driver or a fingerprint failed; a review also fails if the source moved.
InspectFails ==
    /\ AtStep("audit", "begin") \/ AtStep("review", "begin") \/ AtStep("review", "gates")
    /\ Fail
    /\ UNCHANGED <<source, documents, spent>>

---------------------------------------------------------------------------
(* build_worker and transfer_worker                                        *)

\* A current passing audit is required, and fingerprints the build.
BeginBuild ==
    /\ AtStep("build", "begin") /\ Current(audit)
    /\ tool' = [tool EXCEPT !.step = "compiling", !.seen = source, !.proof = audit.id]
    /\ UNCHANGED <<source, documents, status, gate, replayed, loop, spent>>

\* The sandbox compiles its copy of the source.
Compile ==
    /\ AtStep("build", "compiling")
    /\ tool' = [tool EXCEPT !.step = "publishing", !.stage = source]
    /\ UNCHANGED <<source, documents, status, gate, replayed, loop, spent>>

\* The source did not move: the binary replaces the last one.
PublishBinary ==
    /\ AtStep("build", "publishing") /\ source = tool.seen
    /\ binary' = tool.stage
    /\ Step("recording")
    /\ UNCHANGED <<source, audit, review, build, transfer, spent>>

\* build.json is written only for the source and the report that were audited.
RecordBuild ==
    /\ AtStep("build", "recording") /\ audit.source = tool.seen /\ audit.id = tool.proof
    /\ LET artifact == [audited |-> TRUE, source |-> tool.seen, audit |-> audit.id, sha |-> binary]
       IN  /\ build' = artifact
           /\ Returns(Built(gate, artifact), Built(replayed, artifact))
    /\ status' = "built"
    /\ UNCHANGED <<source, audit, review, binary, transfer, spent>>

\* No current audit, a failed compilation, a source that moved, a failed write.
BuildFails ==
    /\ \/ AtStep("build", "begin") \/ AtStep("build", "compiling")
       \/ AtStep("build", "publishing") \/ AtStep("build", "recording")
    /\ Fail
    /\ UNCHANGED <<source, documents, spent>>

\* The audit is checked first, then the review, each against the disk of that moment.
CheckAudit ==
    /\ AtStep("transfer", "begin") /\ Current(audit)
    /\ tool' = [tool EXCEPT !.step = "reviewing", !.seen = audit.source]
    /\ UNCHANGED <<source, documents, status, gate, replayed, loop, spent>>

CheckReview ==
    /\ AtStep("transfer", "reviewing") /\ Current(review) /\ review.source = tool.seen
    /\ Step("shipping")
    /\ UNCHANGED <<source, documents, spent>>

\* The deploy engine builds the worker again and ships it.
Ship ==
    /\ AtStep("transfer", "shipping")
    /\ transfer' = [done |-> TRUE, source |-> tool.seen]
    /\ status' = "transferred"
    /\ Returns(gate, replayed)
    /\ UNCHANGED <<source, audit, review, build, binary, spent>>

TransferFails ==
    /\ \E s \in {"begin", "reviewing", "shipping"} : AtStep("transfer", s)
    /\ transfer' = [done |-> FALSE, source |-> Unset]
    /\ Fail
    /\ UNCHANGED <<source, audit, review, build, binary, spent>>

EvidenceNext ==
    \/ \E intent \in BOOLEAN : StartTurn(intent)
    \/ \E name \in Tools : CallTool(name)
    \/ AnswerTurn \/ Exhaust \/ ProcessDies
    \/ \E f \in Files : EditSource(f) \/ WriteFile(f) \/ ApplyChange(f) \/ ApplyFails(f) \/ UndoChange(f)
    \/ WriteNothing \/ WriteFails
    \/ StagePatch \/ PatchRefused \/ VerifyImport \/ UndoneAll
    \/ \E changes \in SUBSET Files : DriverTurn(changes)
    \/ \E name \in {"audit", "review"} : Inspect(name)
    \/ \E ok \in BOOLEAN : FinishAudit(ok) \/ FinishReview(ok)
    \/ InspectFails
    \/ BeginBuild \/ Compile \/ PublishBinary \/ RecordBuild \/ BuildFails
    \/ CheckAudit \/ CheckReview \/ Ship \/ TransferFails

EvidenceSpec == EvidenceInit /\ [][EvidenceNext]_evidenceVars

---------------------------------------------------------------------------
(* Properties.                                                             *)

\* A turn that wrote, or was asked to write, is accepted only while the disk
\* holds exactly what was audited and compiled, and a turn is never accepted
\* on the evidence of a write that came before the last attempt.
CompletionIsProven ==
    [][loop' = "completed" /\ loop = "asking" /\ gate'.required =>
         /\ gate'.worker
         /\ audit.passed /\ audit.source = source
         /\ build.audited /\ build.source = source
         /\ binary = source]_evidenceVars

\* A patch that is rolled back leaves none of the driver's files in the worker
\* (but for a file whose replacement landed and still reported an error), and
\* a patch that succeeded left all of them.
PatchIsWhole ==
    [][tool.name = "patch" /\ tool.step \in {"applying", "undoing"} /\ tool' = NoTool /\ loop' = "asking" =>
         IF status' = "patched"
           THEN source = tool.stage
           ELSE \A f \in tool.changes \ tool.landed : source[f] # tool.stage[f]]_evidenceVars

\* What the operate tools report as done is what the disk holds.
ReportsAreTrue == CompletionIsProven /\ PatchIsWhole
=============================================================================
