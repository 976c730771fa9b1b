------------------------------ MODULE DevLoop ------------------------------
(***************************************************************************)
(* `ouvrier dev`: a loop that runs the worker of a project with `go run`,  *)
(* and a watcher that polls the modification times of its sources, waits   *)
(* for a burst of changes to settle, and hands one trigger to the loop     *)
(* (internal/cli/dev.go).                                                  *)
(***************************************************************************)
EXTENDS FiniteSets, Integers

CONSTANTS Files,    \* the watched files
          MaxEdits  \* bound: changes of the project

DevConstants == Files # {} /\ MaxEdits \in Nat

VARIABLES reload,    \* FALSE with --no-reload
          tree,      \* the modification time of each file, counted in changes
          cancelled, \* runCtx, by SIGINT or SIGTERM
          loop,      \* [pc, run, then] of runDevLoop; run numbers the runners
          runner,    \* [pc, stop, read]: each `go run`, its context and the sources it compiled
          watcher,   \* [pc, prev, cur, walk] of watchProject
          early      \* history: a change after the build, before the first snapshot

devVars == <<reload, tree, cancelled, loop, runner, watcher, early>>

\* Every reload has a change of its own, see DevTypeOK.
Runs == 1..MaxEdits + 1
Unread == -1
Nothing == [f \in Files |-> Unread]
NoRunner == [pc |-> "none", stop |-> FALSE, read |-> Nothing]
Building == [NoRunner EXCEPT !.pc = "building"]
Alive(run) == runner[run].pc \in {"building", "serving"}

DevInit ==
  /\ reload \in BOOLEAN
  /\ tree = [f \in Files |-> 0]
  /\ cancelled = FALSE
  /\ loop = [pc |-> IF reload THEN "running" ELSE "once", run |-> 1, then |-> "none"]
  /\ runner = [r \in Runs |-> IF r = 1 THEN Building ELSE NoRunner]
  /\ watcher = [pc |-> IF reload THEN "begin" ELSE "stopped", prev |-> Nothing, cur |-> Nothing,
                walk |-> Nothing]
  /\ early = FALSE

Changes == {c \in Files \X (1..MaxEdits) : c[2] <= tree[c[1]]}

\* The user saves a file.
Edit(f) ==
  /\ Cardinality(Changes) < MaxEdits
  /\ tree' = [tree EXCEPT ![f] = @ + 1]
  /\ early' = (early \/ (watcher.pc = "begin" /\ watcher.walk[f] = Unread
                          /\ runner[1].read[f] # Unread))
  /\ UNCHANGED <<reload, cancelled, loop, runner, watcher>>

\* The user stops the command.
Signal ==
  /\ ~cancelled /\ loop.pc # "ended"
  /\ cancelled' = TRUE
  /\ UNCHANGED <<reload, tree, loop, runner, watcher, early>>

(***************************************************************************)
(* defaultDevRunner.                                                       *)
(***************************************************************************)
Compile(r, f) ==
  /\ runner[r].pc = "building" /\ runner[r].read[f] = Unread
  /\ runner' = [runner EXCEPT ![r].read[f] = tree[f]]
  /\ UNCHANGED <<reload, tree, cancelled, loop, watcher, early>>

Serve(r) ==
  /\ runner[r].pc = "building" /\ \A f \in Files : runner[r].read[f] # Unread
  /\ runner' = [runner EXCEPT ![r].pc = "serving"]
  /\ UNCHANGED <<reload, tree, cancelled, loop, watcher, early>>

\* The process ends and its result is in the channel: a build that failed, a
\* worker that crashed or returned, or the SIGTERM of a cancelled context.
RunnerEnds(r) ==
  /\ Alive(r)
  /\ \/ \A f \in Files : runner[r].read[f] # Unread
     \/ runner[r].stop \/ cancelled
  /\ runner' = [runner EXCEPT ![r].pc = "exited"]
  /\ UNCHANGED <<reload, tree, cancelled, loop, watcher, early>>

(***************************************************************************)
(* runDevLoop.                                                             *)
(***************************************************************************)
\* The context was cancelled, or the watcher saw that and closed its channel.
Over == cancelled \/ (reload /\ watcher.pc = "stopped")
Result == runner[loop.run].pc = "exited"

Starts == /\ loop' = [pc |-> "running", run |-> loop.run + 1, then |-> "none"]
          /\ runner' = [runner EXCEPT ![loop.run].read = Nothing, ![loop.run + 1] = Building]
Drains(then) ==
  /\ loop' = [loop EXCEPT !.pc = "draining", !.then = then]
  /\ runner' = [runner EXCEPT ![loop.run].stop = TRUE]

\* The unbuffered channel: the watcher goes on when the loop receives.
Received == watcher.pc = "sending" /\ watcher' = [watcher EXCEPT !.pc = "polling"]

\* A mutant: the next worker is started without waiting for the last one.
ReloadAtOnce ==
  /\ loop.pc = "running" /\ Received
  /\ loop' = [loop EXCEPT !.run = @ + 1]
  /\ runner' = [runner EXCEPT ![loop.run].stop = TRUE, ![loop.run + 1] = Building]
  /\ UNCHANGED <<reload, tree, cancelled, early>>

\* A trigger while the worker runs stops it.
Reload ==
  /\ loop.pc = "running" /\ Received
  /\ Drains("reload")
  /\ UNCHANGED <<reload, tree, cancelled, early>>

\* The worker ended by itself; nothing is restarted before a change.
WorkerEnded ==
  /\ loop.pc = "running" /\ Result
  /\ loop' = [loop EXCEPT !.pc = "waiting"]
  /\ UNCHANGED <<reload, tree, cancelled, runner, watcher, early>>

StopWorker ==
  /\ loop.pc = "running" /\ Over
  /\ Drains("end")
  /\ UNCHANGED <<reload, tree, cancelled, watcher, early>>

\* The result of the stopped worker is awaited.
Drained ==
  /\ loop.pc = "draining" /\ Result
  /\ \/ loop.then = "reload" /\ Starts
     \/ loop.then = "end" /\ loop' = [loop EXCEPT !.pc = "ended"] /\ UNCHANGED runner
  /\ UNCHANGED <<reload, tree, cancelled, watcher, early>>

Restart ==
  /\ loop.pc = "waiting" /\ Received
  /\ Starts
  /\ UNCHANGED <<reload, tree, cancelled, early>>

StopWaiting ==
  /\ loop.pc = "waiting" /\ Over
  /\ loop' = [loop EXCEPT !.pc = "ended"]
  /\ UNCHANGED <<reload, tree, cancelled, runner, watcher, early>>

\* --no-reload: finishDevRun turns the one result into the command's.
FinishOnce ==
  /\ loop.pc = "once" /\ Result
  /\ loop' = [loop EXCEPT !.pc = "ended"]
  /\ UNCHANGED <<reload, tree, cancelled, runner, watcher, early>>

(***************************************************************************)
(* watchProject.                                                           *)
(***************************************************************************)
Walks == {"begin", "looking", "settling"}

\* snapshotProject reads the files one after the other.
Walk(f) ==
  /\ watcher.pc \in Walks /\ watcher.walk[f] = Unread
  /\ watcher' = [watcher EXCEPT !.walk[f] = tree[f]]
  /\ UNCHANGED <<reload, tree, cancelled, loop, runner, early>>

Walked == \A f \in Files : watcher.walk[f] # Unread
Watches(pc, prev, cur) ==
  watcher' = [pc |-> pc, prev |-> prev, cur |-> cur, walk |-> Nothing]

\* The snapshot is complete: it is the first one, or it is compared with the
\* last one, and while it changes the tree has not settled.
Compare ==
  /\ watcher.pc \in Walks /\ Walked
  /\ LET seen == watcher.walk IN
       \/ watcher.pc = "begin" /\ Watches("polling", seen, Nothing)
       \/ watcher.pc = "looking" /\ seen = watcher.prev /\ Watches("polling", seen, Nothing)
       \/ watcher.pc = "looking" /\ seen # watcher.prev /\ Watches("settling", Nothing, seen)
       \/ watcher.pc = "settling" /\ seen # watcher.cur /\ Watches("settling", Nothing, seen)
       \/ watcher.pc = "settling" /\ seen = watcher.cur /\ Watches("sending", seen, Nothing)
  /\ UNCHANGED <<reload, tree, cancelled, loop, runner, early>>

\* A mutant: a trigger nobody waits for is dropped.
TickUnlessReceived ==
  /\ watcher.pc \in {"polling", "sending"}
  /\ Watches("looking", watcher.prev, Nothing)
  /\ UNCHANGED <<reload, tree, cancelled, loop, runner, early>>

Tick ==
  /\ watcher.pc = "polling"
  /\ Watches("looking", watcher.prev, Nothing)
  /\ UNCHANGED <<reload, tree, cancelled, loop, runner, early>>

\* The selects at the tick, at the debounce and at the send.
StopWatching ==
  /\ cancelled
  /\ watcher.pc \in {"polling", "sending"} \/ (watcher.pc = "settling" /\ watcher.walk = Nothing)
  /\ watcher' = [watcher EXCEPT !.pc = "stopped"]
  /\ UNCHANGED <<reload, tree, cancelled, loop, runner, early>>

LoopStep ==
  Reload \/ WorkerEnded \/ StopWorker \/ Drained \/ Restart \/ StopWaiting \/ FinishOnce
WatcherStep == (\E f \in Files : Walk(f)) \/ Compare \/ Tick \/ StopWatching
RunnerStep == \E r \in Runs : Serve(r) \/ RunnerEnds(r) \/ \E f \in Files : Compile(r, f)

DevNext == (\E f \in Files : Edit(f)) \/ Signal \/ RunnerStep \/ LoopStep \/ WatcherStep

\* The goroutines run, a build ends, and a worker that was sent SIGTERM ends: the
\* command has no other means, and sets no WaitDelay.
DevFairness ==
  /\ WF_devVars(LoopStep) /\ WF_devVars(WatcherStep)
  /\ WF_devVars(RunnerStep /\ (loop' = loop))
  /\ WF_devVars(\E r \in Runs : (runner[r].stop \/ cancelled) /\ RunnerEnds(r))

DevSpec == DevInit /\ [][DevNext]_devVars /\ DevFairness

Snapshots == [Files -> Unread..MaxEdits]

DevTypeOK ==
  /\ reload \in BOOLEAN /\ cancelled \in BOOLEAN /\ early \in BOOLEAN
  /\ tree \in [Files -> 0..MaxEdits]
  /\ loop \in [pc : {"once", "running", "draining", "waiting", "ended"}, run : Runs,
               then : {"none", "reload", "end"}]
  /\ runner \in [Runs -> [pc : {"none", "building", "serving", "exited"}, stop : BOOLEAN,
                          read : Snapshots]]
  /\ watcher \in [pc : {"polling", "sending", "stopped"} \cup Walks, prev : Snapshots,
                  cur : Snapshots, walk : Snapshots]

\* Two workers of the project never run at once, so that they do not meet on its
\* port and its store (`stop(); <-runResult`), and none is left when the command ends.
OneWorker ==
  /\ \A r, q \in Runs : Alive(r) /\ Alive(q) => r = q
  /\ loop.pc \in {"waiting", "ended"} => \A r \in Runs : ~Alive(r)

\* When no change is being noticed and the worker of the loop compiled its sources,
\* they are the sources on disk: no save is lost in a burst, during a build or
\* while the loop waits for the last worker. A save after the first build and
\* before the first snapshot is: the watcher takes it for what was there.
NoSaveLost ==
  watcher.pc = "polling" /\ watcher.prev = tree /\ loop.pc # "draining" /\ ~early =>
    \A f \in Files : runner[loop.run].read[f] \in {Unread, tree[f]}

\* Every save reaches a worker, and the command ends once it was told to.
SavesAreServed ==
  <>[](IF cancelled THEN loop.pc = "ended"
       ELSE \/ early \/ loop.pc = "ended" \/ ~reload
            \/ runner[loop.run].read = tree)

=============================================================================
