---------------------------- MODULE JournalStore ----------------------------
(***************************************************************************)
(* One durable run in the three state stores: its execution, approval and  *)
(* journal rows, while its leg writes them, finished legs (its own and     *)
(* other runs') prune journals, and an operator replays it once it failed. *)
(* The memory store prunes under its mutex, SQLite in a transaction that   *)
(* fails when another process committed since its first read, Postgres in  *)
(* a transaction whose deletes see what was committed after its check.     *)
(***************************************************************************)
EXTENDS FiniteSets, Naturals

CONSTANTS Sweepers,   \* legs that prune when they finish
          Own,        \* the sweeper that is the run's own leg
          MaxSteps

VARIABLES backend,    \* "memory", "sqlite" or "postgres"
          execution,  \* status in ouvrier_executions
          journal,    \* age of the row in ouvrier_run_journal
          steps,      \* rows of ouvrier_run_checkpoints
          intent,     \* the row in ouvrier_tool_intents of the current call
          approval,   \* the row in ouvrier_approvals
          leg,        \* the step the leg is at, 0 when no leg runs
          finished,   \* history: the steps that ran to their end
          sweep,      \* where each sweeper is
          stale,      \* sweepers whose check others have committed after
          replay      \* what a forced replay has read, and where it resumes

journalVars == <<backend, execution, journal, steps, intent, approval, leg, finished, sweep,
                 stale, replay>>

JournalConstants == MaxSteps \in Nat \ {0} /\ Own \in Sweepers

Terminal == {"completed", "failed", "truncated"}
NoReplay == [pc |-> "none", resume |-> 0]

JournalInit ==
  /\ backend \in {"memory", "sqlite", "postgres"}
  /\ execution = "none" /\ journal = "none" /\ steps = {} /\ intent = "none" /\ approval = "none"
  /\ leg = 0 /\ finished = {}
  /\ sweep = [s \in Sweepers |-> "idle"]
  /\ stale = {}
  /\ replay = NoReplay

\* A mutant: the status of the execution is not looked at.
EligibleUnlessPending == journal # "none" /\ approval # "pending"

\* The gate every store puts before it deletes a journal.
Eligible == journal # "none" /\ execution \in Terminal /\ approval # "pending"

\* Something is committed: checks that were read before are out of date.
Committed == stale' = {s \in Sweepers : sweep'[s] = "delete" /\ sweep[s] = "delete"}

\* The leg writes unless it is parked on its approval.
Working == leg # 0 /\ approval # "pending"

SaveExecution ==
  /\ execution = "none"
  /\ execution' = "running"
  /\ UNCHANGED <<backend, journal, steps, intent, approval, leg, finished, sweep, replay>>
  /\ Committed

SaveRunJournal ==
  /\ execution = "running" /\ journal = "none" /\ leg = 0 /\ replay = NoReplay
  /\ journal' = "young" /\ leg' = 1
  /\ UNCHANGED <<backend, execution, steps, intent, approval, finished, sweep, replay>>
  /\ Committed

\* The upsert reopens the intent of a call that is tried again.
BeginToolIntent ==
  /\ Working /\ leg <= MaxSteps /\ intent # "open"
  /\ intent' = "open"
  /\ UNCHANGED <<backend, execution, journal, steps, approval, leg, finished, sweep, replay>>
  /\ Committed

CompleteToolIntent ==
  /\ Working /\ intent = "open"
  /\ intent' = "done"
  /\ UNCHANGED <<backend, execution, journal, steps, approval, leg, finished, sweep, replay>>
  /\ Committed

SaveRunCheckpoint ==
  /\ Working /\ leg <= MaxSteps /\ intent # "open"
  /\ steps' = steps \cup {leg} /\ finished' = finished \cup {leg}
  /\ leg' = leg + 1
  /\ UNCHANGED <<backend, execution, journal, intent, approval, sweep, replay>>
  /\ Committed

\* A gated call saves its approval and leaves the run parked.
SaveApproval ==
  /\ Working /\ leg <= MaxSteps /\ approval = "none"
  /\ approval' = "pending"
  /\ UNCHANGED <<backend, execution, journal, steps, intent, leg, finished, sweep, replay>>
  /\ Committed

\* UPDATE .. WHERE id AND status = pending: the first decision stands.
ResolveApproval(status) ==
  /\ approval = "pending"
  /\ approval' = status
  /\ UNCHANGED <<backend, execution, journal, steps, intent, leg, finished, sweep, replay>>
  /\ Committed

\* The last SaveExecution of the leg, which then prunes: its own journal when
\* the run completed, and the expired ones in any case.
Finish(status) ==
  /\ Working /\ sweep[Own] = "idle"
  /\ status = "completed" => leg > MaxSteps
  /\ execution' = status /\ leg' = 0 /\ replay' = NoReplay
  /\ sweep' = [sweep EXCEPT ![Own] = IF status = "completed" THEN "own" ELSE "list"]
  /\ UNCHANGED <<backend, journal, steps, intent, approval, finished>>
  /\ Committed

\* A leg of another run finishes on another replica.
FinishElsewhere(s) ==
  /\ s # Own /\ sweep[s] = "idle" /\ execution # "none"
  /\ sweep' = [sweep EXCEPT ![s] = "list"]
  /\ UNCHANGED <<backend, execution, journal, steps, intent, approval, leg, finished, replay>>
  /\ Committed

\* Time passes: the journal is older than the retention period.
Age ==
  /\ journal = "young"
  /\ journal' = "old"
  /\ UNCHANGED <<backend, execution, steps, intent, approval, leg, finished, sweep, stale, replay>>

\* Children first, in one transaction.
DeleteRows == journal' = "none" /\ steps' = {} /\ intent' = "none"

\* What a sweeper does after its own journal, and after the expired ones.
After(s) == IF sweep[s] = "own" THEN "list" ELSE "idle"

\* PruneRunJournal and PruneRunJournalsBefore under the mutex.
MemoryPrune(s) ==
  /\ backend = "memory" /\ sweep[s] \in {"own", "list"}
  /\ IF Eligible /\ (sweep[s] = "own" \/ journal = "old")
       THEN DeleteRows ELSE UNCHANGED <<journal, steps, intent>>
  /\ sweep' = [sweep EXCEPT ![s] = After(s)]
  /\ UNCHANGED <<backend, execution, approval, leg, finished, stale, replay>>

\* The expired journals are listed before the transactions that delete them.
ListExpired(s) ==
  /\ backend # "memory" /\ sweep[s] = "list"
  /\ sweep' = [sweep EXCEPT ![s] = IF journal = "old" THEN "gate" ELSE "idle"]
  /\ UNCHANGED <<backend, execution, journal, steps, intent, approval, leg, finished, stale, replay>>

\* The transaction opens and reads whether the run may be pruned.
BeginPrune(s) ==
  /\ backend # "memory" /\ sweep[s] \in {"own", "gate"}
  /\ sweep' = [sweep EXCEPT ![s] = IF Eligible THEN "delete" ELSE After(s)]
  /\ stale' = stale \ {s}
  /\ UNCHANGED <<backend, execution, journal, steps, intent, approval, leg, finished, replay>>

\* A mutant: SQLite writes on a snapshot that others have overtaken.
MayDeleteAnyway(s) == TRUE

\* Whether the deletes may follow commits that the check did not see.
MayDelete(s) == backend = "postgres" \/ s \notin stale

\* The three deletes and the commit.
CommitPrune(s) ==
  /\ sweep[s] = "delete" /\ MayDelete(s)
  /\ DeleteRows
  /\ sweep' = [sweep EXCEPT ![s] = "idle"]
  /\ UNCHANGED <<backend, execution, approval, leg, finished, replay>>
  /\ Committed

\* SQLite refuses to write on an old snapshot: the prune ends with an error.
PruneFails(s) ==
  /\ sweep[s] = "delete" /\ ~MayDelete(s)
  /\ sweep' = [sweep EXCEPT ![s] = "idle"]
  /\ stale' = stale \ {s}
  /\ UNCHANGED <<backend, execution, journal, steps, intent, approval, leg, finished, replay>>

\* The replay handler reads the journal, the execution and the approvals.
ReadJournal ==
  /\ replay = NoReplay /\ leg = 0 /\ journal # "none" /\ sweep[Own] = "idle"
  /\ execution \in {"failed", "truncated"} /\ approval # "pending"
  /\ replay' = [replay EXCEPT !.pc = "read"]
  /\ UNCHANGED <<backend, execution, journal, steps, intent, approval, leg, finished, sweep, stale>>

Last(S) == IF S = {} THEN 0 ELSE CHOOSE n \in S : \A m \in S : m <= n

\* recoverClaimedDurableRun reads the checkpoints: none means the first step.
ReadCheckpoints ==
  /\ replay.pc = "read"
  /\ replay' = [pc |-> "ready", resume |-> Last(steps) + 1]
  /\ UNCHANGED <<backend, execution, journal, steps, intent, approval, leg, finished, sweep, stale>>

\* The failed run is running again, from there.
ForcedReplay ==
  /\ replay.pc = "ready"
  /\ execution' = "running" /\ leg' = replay.resume
  /\ replay' = [replay EXCEPT !.pc = "done"]
  /\ UNCHANGED <<backend, journal, steps, intent, approval, finished, sweep>>
  /\ Committed

JournalNext ==
  \/ SaveExecution \/ SaveRunJournal \/ BeginToolIntent \/ CompleteToolIntent \/ SaveRunCheckpoint
  \/ SaveApproval \/ Age \/ ReadJournal \/ ReadCheckpoints \/ ForcedReplay
  \/ \E status \in {"approved", "denied"} : ResolveApproval(status)
  \/ \E status \in Terminal : Finish(status)
  \/ \E s \in Sweepers : FinishElsewhere(s) \/ MemoryPrune(s) \/ ListExpired(s) \/ BeginPrune(s)
                         \/ CommitPrune(s) \/ PruneFails(s)

JournalSpec == JournalInit /\ [][JournalNext]_journalVars

TypeOK ==
  /\ execution \in Terminal \cup {"none", "running"} /\ journal \in {"none", "young", "old"}
  /\ steps \subseteq finished /\ finished \subseteq 1..MaxSteps /\ leg \in 0..MaxSteps + 1
  /\ sweep \in [Sweepers -> {"idle", "own", "list", "gate", "delete"}]

\* The memory store and SQLite delete a journal only of a run that is terminal
\* and waits for no decision at that moment, whatever is replayed meanwhile.
\* Postgres is excepted: a replay that flips the run to running between its
\* check and its deletes loses its journal.
PruneSparesLive ==
  [][backend # "postgres" /\ journal # "none" /\ journal' = "none" => Eligible]_journalVars

\* A replayed run goes on after the last step that finished, unless its journal
\* was pruned under the replay: then it starts over, and repeats what it did.
ReplayGoesOn ==
  replay.pc = "ready" /\ journal # "none" => replay.resume = Last(finished) + 1

\* A run that waits for a decision keeps its journal, on every backend.
ParkedKeepsJournal == approval = "pending" /\ execution # "none" => journal # "none" \/ replay # NoReplay

=============================================================================
