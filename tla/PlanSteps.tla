----------------------------- MODULE PlanSteps -----------------------------
(***************************************************************************)
(* The step loop of a plan: Pipes in sequence, Parallel and Map steps that *)
(* run branches with bounded concurrency, the checkpoint after each step,  *)
(* and the continuation that is kept in memory when a Pipe suspends for an *)
(* approval (http_runtime.go runStepsResult, http_runtime_composition.go,  *)
(* runtime_http_resume.go).                                                *)
(***************************************************************************)
EXTENDS Integers, FiniteSets

CONSTANTS Steps,       \* number of steps of the plan
          Branches,    \* number of branches, or of Map items, of a composed step
          Concurrency, \* branches that run at a time
          MaxResumes   \* bound: approvals of this run

PlanConstants ==
  /\ Steps \in Nat \ {0} /\ Branches \in Nat \ {0} /\ Concurrency \in Nat \ {0}
  /\ MaxResumes \in Nat

VARIABLES plan,        \* kind of each step, fixed
          run,         \* [pc, step] of the step loop
          branch,      \* the branches of the composed step that runs
          groupDone,   \* its context is cancelled by the first error
          parked,      \* the continuation kept for the approval
          checkpoints, \* steps whose checkpoint was saved
          ran,         \* history: Pipes that returned an output, as <<step, branch>>
          resumes      \* counter of the bound

planVars == <<plan, run, branch, groupDone, parked, checkpoints, ran, resumes>>

StepNumbers == 1..Steps
BranchNumbers == 1..Branches
\* The branch of a step that is a Pipe itself is 0.
PipesOf(s) == {<<s, b>> : b \in IF plan[s] = "pipe" THEN {0} ELSE BranchNumbers}
NoBranches == [b \in BranchNumbers |-> "none"]
Nothing == [step |-> 0, branch |-> 0]
Errors == {"failed", "suspended"}

PlanTypeOK ==
  /\ plan \in [StepNumbers -> {"pipe", "strict", "partial"}]
  /\ run \in [pc : {"stepping", "composing", "saving", "resuming", "parked", "completed", "failed"},
              step : 1..Steps + 1]
  /\ branch \in [BranchNumbers -> {"none", "waiting", "running", "ok"} \cup Errors]
  /\ groupDone \in BOOLEAN
  /\ parked \in [step : 0..Steps, branch : 0..Branches]
  /\ checkpoints \subseteq StepNumbers /\ ran \subseteq (StepNumbers \X (0..Branches))
  /\ resumes \in 0..MaxResumes

PlanInit ==
  /\ plan \in [StepNumbers -> {"pipe", "strict", "partial"}]
  /\ run = [pc |-> "stepping", step |-> 1] /\ branch = NoBranches /\ groupDone = FALSE
  /\ parked = Nothing /\ checkpoints = {} /\ ran = {} /\ resumes = 0

StepsGo(pc) == run' = [run EXCEPT !.pc = pc]
Ran(pipe) == ran' = ran \cup {pipe}
Parks(b) == parked' = [step |-> run.step, branch |-> b] /\ StepsGo("parked")

(***************************************************************************)
(* runStepsResult.                                                         *)
(***************************************************************************)
AllStepsDone ==
  /\ run.pc = "stepping" /\ run.step > Steps
  /\ StepsGo("completed")
  /\ UNCHANGED <<plan, branch, groupDone, parked, checkpoints, ran, resumes>>

\* A Pipe, first run or resumed, ends with an output, an error or a suspension.
PipeEnds ==
  LET s == run.step IN
  /\ \/ run.pc = "stepping" /\ s <= Steps /\ plan[s] = "pipe"
     \/ run.pc = "resuming" /\ parked.branch = 0
  /\ \/ Ran(<<s, 0>>) /\ StepsGo("saving") /\ parked' = Nothing
     \/ StepsGo("failed") /\ parked' = Nothing /\ UNCHANGED ran
     \/ Parks(0) /\ UNCHANGED ran
  /\ UNCHANGED <<plan, branch, groupDone, checkpoints, resumes>>

\* The checkpoint is saved, or the run fails.
SaveCheckpoint ==
  /\ run.pc = "saving"
  /\ \/ /\ checkpoints' = checkpoints \cup {run.step}
        /\ run' = [pc |-> "stepping", step |-> run.step + 1]
     \/ StepsGo("failed") /\ UNCHANGED checkpoints
  /\ UNCHANGED <<plan, branch, groupDone, parked, ran, resumes>>

(***************************************************************************)
(* runComposition, for Parallel and Map.                                   *)
(***************************************************************************)
StartComposition ==
  /\ run.pc = "stepping" /\ run.step <= Steps /\ plan[run.step] # "pipe"
  /\ StepsGo("composing")
  /\ branch' = [b \in BranchNumbers |-> "waiting"] /\ groupDone' = FALSE
  /\ UNCHANGED <<plan, parked, checkpoints, ran, resumes>>

RunningBranches == {b \in BranchNumbers : branch[b] = "running"}
Becomes(b, status) == branch' = [branch EXCEPT ![b] = status]

\* A goroutine takes a slot, or sees the cancelled context first.
BeginBranch(b) ==
  /\ branch[b] = "waiting"
  /\ \/ Cardinality(RunningBranches) < Concurrency /\ Becomes(b, "running")
     \/ groupDone /\ Becomes(b, "failed")
  /\ UNCHANGED <<plan, run, groupDone, parked, checkpoints, ran, resumes>>

\* An error of a branch, a suspension included, cancels the others unless PartialOK.
BranchEnds(b) ==
  /\ branch[b] = "running"
  /\ \E status \in {"ok"} \cup Errors :
       /\ Becomes(b, status)
       /\ groupDone' = (groupDone \/ (status # "ok" /\ plan[run.step] = "strict"))
       /\ ran' = IF status = "ok" THEN ran \cup {<<run.step, b>>} ELSE ran
  /\ UNCHANGED <<plan, run, parked, checkpoints, resumes>>

\* Mutant: only a suspension keeps a strict step from its checkpoint.
JoinCompositionLeniently ==
  LET parking == {b \in BranchNumbers : branch[b] = "suspended"}
      first == CHOOSE b \in parking : \A c \in parking : b <= c
  IN  /\ run.pc = "composing" /\ \A b \in BranchNumbers : branch[b] \in {"ok"} \cup Errors
      /\ IF parking # {} /\ plan[run.step] = "strict" THEN Parks(first)
         ELSE StepsGo("saving") /\ UNCHANGED parked
      /\ branch' = NoBranches /\ groupDone' = FALSE
      /\ UNCHANGED <<plan, checkpoints, ran, resumes>>

\* The first error in the order of the branches is the error of the step; PartialOK
\* makes every error an outcome.
JoinComposition ==
  LET errors == {b \in BranchNumbers : branch[b] \in Errors}
      first == CHOOSE b \in errors : \A c \in errors : b <= c
  IN  /\ run.pc = "composing" /\ \A b \in BranchNumbers : branch[b] \in {"ok"} \cup Errors
      /\ \/ /\ errors = {} \/ plan[run.step] = "partial"
            /\ StepsGo("saving") /\ UNCHANGED parked
         \/ /\ errors # {} /\ plan[run.step] = "strict"
            /\ IF branch[first] = "suspended" THEN Parks(first)
               ELSE StepsGo("failed") /\ UNCHANGED parked
      /\ branch' = NoBranches /\ groupDone' = FALSE
      /\ UNCHANGED <<plan, checkpoints, ran, resumes>>

(***************************************************************************)
(* runApprovedResume: the continuation of the Pipe that suspended.         *)
(***************************************************************************)
ResumeParked ==
  /\ run.pc = "parked" /\ resumes < MaxResumes
  /\ resumes' = resumes + 1 /\ StepsGo("resuming")
  /\ UNCHANGED <<plan, branch, groupDone, parked, checkpoints, ran>>

\* A branch's continuation is the branch alone, without the journal: when it returns,
\* the resumed run is complete.
ResumedBranchEnds ==
  /\ run.pc = "resuming" /\ parked.branch # 0
  /\ \/ Ran(<<parked.step, parked.branch>>) /\ StepsGo("completed") /\ parked' = Nothing
     \/ StepsGo("failed") /\ parked' = Nothing /\ UNCHANGED ran
     \/ StepsGo("parked") /\ UNCHANGED <<parked, ran>>
  /\ UNCHANGED <<plan, branch, groupDone, checkpoints, resumes>>

PlanNext ==
  \/ AllStepsDone \/ PipeEnds \/ SaveCheckpoint \/ StartComposition \/ JoinComposition
  \/ \E b \in BranchNumbers : BeginBranch(b) \/ BranchEnds(b)
  \/ ResumeParked \/ ResumedBranchEnds

PlanSpec == PlanInit /\ [][PlanNext]_planVars

(***************************************************************************)
(* Properties.                                                             *)
(***************************************************************************)
\* The checkpoints a recovery replays from are a prefix of the plan, in step with the
\* loop across suspensions, and a checkpointed step has run whole: every branch of it
\* that the step may not miss. Branches never run beyond their concurrency.
CheckpointsFollowRun ==
  /\ checkpoints = 1..Cardinality(checkpoints)
  /\ run.pc = "stepping" => checkpoints = 1..run.step - 1
  /\ \A s \in checkpoints : plan[s] # "partial" => PipesOf(s) \subseteq ran
  /\ Cardinality(RunningBranches) <= Concurrency

\* What the handbook says of Parallel: it fans out the same input and returns ordered
\* outcomes, and of approvals: the tool call suspends and can resume. So a run that
\* completed went through every step of its plan.
CompletedRanEveryStep == run.pc = "completed" => checkpoints = StepNumbers
=============================================================================
