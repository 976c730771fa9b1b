------------------------------ MODULE Console ------------------------------
(***************************************************************************)
(* The operator's views of a fleet: the loopback server of `ouvrier        *)
(* console' (internal/console), whose handlers fan out to the admin API of *)
(* every worker over one tunnel manager, and the fleet commands of the     *)
(* command line, with a manager of their own (internal/cli/fleet_run.go).  *)
(* Tunnels are those of TunnelManager: a call here ends, fails or hangs.   *)
(***************************************************************************)
EXTENDS FiniteSets, Integers, Sequences

CONSTANTS Workers,  \* names of deployments
          Early,    \* those of the inventory when the console starts
          Requests, \* requests, and commands of another process
          Asks,     \* bound: what each of them may be, see Kinds
          MaxLines, \* bound: lines a deploy prints
          MaxOutages \* bound: workers that stop answering, and failed deploys

Kinds == {"fleet", "overview", "events", "deploy", "reset", "proxy", "command"}

ConsoleConstants ==
  /\ Early \subseteq Workers /\ {MaxLines, MaxOutages} \subseteq Nat
  /\ Asks \in [Requests -> SUBSET Kinds]

VARIABLES listed,    \* names on file
          worker,    \* "up", "hung" or "down"
          manager,   \* [built, knows, closed] of the console's tunnel manager
          process,   \* [pc, seen]: runConsoleCommand, and whether Close found a manager
          request,   \* see NotSent
          leg,       \* each request's call to each worker, see NoLeg
          stream,    \* the records a deploy wrote, and the bytes of a line not ended
          faults     \* faults so far

consoleVars == <<listed, worker, manager, process, request, leg, stream, faults>>

\* `knows' are the names of a command's own manager; `open' says whether it still is.
NotSent == [kind |-> "none", pc |-> "idle", targets |-> {}, client |-> TRUE, answer |-> "none",
            knows |-> {}, open |-> FALSE]
\* broke: the call failed for a cause of its own; told: the client got a row or an event for it.
NoLeg == [pc |-> "none", broke |-> FALSE, told |-> "none"]

ConsoleInit ==
  /\ listed = Early /\ worker = [w \in Workers |-> "up"]
  /\ manager = [built |-> FALSE, knows |-> {}, closed |-> FALSE]
  /\ process = [pc |-> "serving", seen |-> FALSE]
  /\ request = [r \in Requests |-> NotSent]
  /\ leg = [r \in Requests |-> [w \in Workers |-> NoLeg]]
  /\ stream = [r \in Requests |-> [records |-> <<>>, partial |-> 0, ended |-> "no"]]
  /\ faults = 0

Stands(r, pc) == request[r].pc = pc
Is(r, kinds) == request[r].kind \in kinds
\* A command is a process of its own.
Runs(r) == process.pc # "gone" \/ Is(r, {"command"})
Answered(r, answer) ==
  request' = [request EXCEPT ![r].pc = "answered", ![r].answer = answer]

----------------------------------------------------------------------------
\* The console: the host, origin and token of apiMiddleware, and the routes of a proxy.
Admitted(local, token, kind, allowed) ==
  /\ local
  /\ token = "header" \/ (token = "query" /\ kind = "events")
  /\ kind = "proxy" => allowed

Arrive(r, kind) ==
  /\ Stands(r, "idle") /\ (kind = "command" \/ process.pc = "serving")
  /\ \E local, allowed \in BOOLEAN, token \in {"header", "query", "none"} :
       request' = [request EXCEPT
         ![r].kind = kind,
         ![r].pc = IF kind = "command" \/ Admitted(local, token, kind, allowed) THEN "reading"
                   ELSE "answered",
         ![r].answer = IF kind = "command" \/ Admitted(local, token, kind, allowed) THEN "none"
                       ELSE "refused"]
  /\ UNCHANGED <<listed, worker, manager, process, leg, stream, faults>>

\* deployments: one row for each name. A request for one worker reads no inventory, a deploy
\* reads pip.yaml, which may not declare the environment.
ReadInventory(r) ==
  /\ Stands(r, "reading") /\ Is(r, {"fleet", "overview", "events"}) /\ Runs(r)
  /\ request' = [request EXCEPT ![r].pc = "manager", ![r].targets = listed]
  /\ UNCHANGED <<listed, worker, manager, process, leg, stream, faults>>

ReadName(r) ==
  /\ Stands(r, "reading") /\ Is(r, {"reset", "proxy"}) /\ Runs(r)
  /\ \E w \in Workers :
       request' = [request EXCEPT ![r].pc = "manager", ![r].targets = {w}]
  /\ UNCHANGED <<listed, worker, manager, process, leg, stream, faults>>

ReadEnvironment(r) ==
  /\ Stands(r, "reading") /\ Is(r, {"deploy"}) /\ Runs(r)
  /\ \/ request' = [request EXCEPT ![r].pc = "deploying"]
     \/ Answered(r, "bad")
  /\ UNCHANGED <<listed, worker, manager, process, leg, stream, faults>>

Begun(r, targets) ==
  leg' = [leg EXCEPT ![r] = [w \in Workers |-> IF w \in targets
                                               THEN [NoLeg EXCEPT !.pc = "calling"]
                                               ELSE NoLeg]]

\* manager: built from the inventory of the moment on first use, and kept.
Known == IF manager.built THEN manager.knows ELSE listed

UseManager(r) ==
  /\ Stands(r, "manager") /\ Runs(r)
  /\ manager' = [manager EXCEPT !.built = TRUE, !.knows = Known]
  /\ IF Is(r, {"fleet"}) THEN Answered(r, "listed") /\ UNCHANGED leg
     ELSE IF Is(r, {"reset"})
          THEN /\ Answered(r, IF request[r].targets \subseteq Known /\ ~manager'.closed
                              THEN "reset" ELSE "gateway")
               /\ UNCHANGED leg
     ELSE request' = [request EXCEPT ![r].pc = "working"] /\ Begun(r, request[r].targets)
  /\ UNCHANGED <<listed, worker, process, stream, faults>>

----------------------------------------------------------------------------
\* A fleet command: its targets are the inventory's or one of them, its manager knows them.
ResolveTargets(r) ==
  /\ Stands(r, "reading") /\ Is(r, {"command"})
  /\ \/ \E targets \in {listed} \cup {{w} : w \in listed} :
          /\ targets # {}
          /\ request' = [request EXCEPT ![r].pc = "working", ![r].targets = targets,
                                        ![r].knows = targets, ![r].open = TRUE]
          /\ Begun(r, targets)
     \/ Answered(r, "usage") /\ UNCHANGED leg
  /\ UNCHANGED <<listed, worker, manager, process, stream, faults>>

----------------------------------------------------------------------------
\* One call of the fan-out, in a goroutine of its own.
Calling(r, w) == leg[r][w].pc = "calling" /\ Runs(r)
Usable(r, w) ==
  IF Is(r, {"command"}) THEN w \in request[r].knows /\ request[r].open
  ELSE w \in manager.knows /\ ~manager.closed

\* The row of an answer, the event console.worker_unreachable, or the status of a proxy.
Fails(r, w) ==
  leg' = [leg EXCEPT ![r][w] = [pc |-> "over", broke |-> TRUE, told |-> "failed"]]
Succeeds(r, w) ==
  leg' = [leg EXCEPT ![r][w] = [pc |-> "over", broke |-> FALSE, told |-> "ok"]]
LegOnly == UNCHANGED <<listed, worker, manager, process, request, stream, faults>>

\* overviewOne, runFleetOne, ServeHTTP of the proxy: no transport, or no answer.
CallFails(r, w) ==
  /\ Calling(r, w)
  /\ ~Usable(r, w) \/ worker[w] = "down"
  /\ Fails(r, w) /\ LegOnly

CallAnswered(r, w) ==
  /\ Calling(r, w) /\ Is(r, {"overview", "proxy", "command"})
  /\ Usable(r, w) /\ worker[w] = "up"
  /\ Succeeds(r, w) /\ LegOnly

\* Mutant: a proxied call has the deadline, an overview has none.
TimedOnlyProxy(r) == Is(r, {"proxy"})

\* overviewTimeout and defaultFleetTimeout; the stream of events and the proxy have none.
Timed(r) == Is(r, {"overview", "command"})

CallTimesOut(r, w) == Calling(r, w) /\ Timed(r) /\ Fails(r, w) /\ LegOnly

\* The client of the console left: the context of its request ends the calls.
CallCancelled(r, w) ==
  /\ leg[r][w].pc \in {"calling", "following"} /\ Runs(r) /\ ~request[r].client
  /\ leg' = [leg EXCEPT ![r][w].pc = "over"] /\ LegOnly

FollowEvents(r, w) ==
  /\ Calling(r, w) /\ Is(r, {"events"}) /\ Usable(r, w) /\ worker[w] = "up"
  /\ leg' = [leg EXCEPT ![r][w].pc = "following"] /\ LegOnly

\* Mutant: a stream that breaks ends its tail without a word.
TailEndsSilently(r, w) == leg' = [leg EXCEPT ![r][w].pc = "over", ![r][w].broke = TRUE]

\* unreachable, after an error of the scanner.
TailFailure(r, w) == Fails(r, w)

TailBreaks(r, w) ==
  /\ leg[r][w].pc = "following" /\ Runs(r) /\ request[r].client
  /\ worker[w] = "down" \/ ~Usable(r, w)
  /\ TailFailure(r, w) /\ LegOnly

\* The worker ended its stream itself, as one that stops does: no error, no event.
TailEnds(r, w) ==
  /\ leg[r][w].pc = "following" /\ Runs(r) /\ worker[w] = "down"
  /\ leg' = [leg EXCEPT ![r][w].pc = "over"] /\ LegOnly

LegStep(r, w) ==
  \/ CallFails(r, w) \/ CallAnswered(r, w) \/ CallTimesOut(r, w) \/ CallCancelled(r, w)
  \/ FollowEvents(r, w) \/ TailBreaks(r, w)

\* Mutant: the first failure is the answer.
FirstFailureAnswers(r) ==
  \/ \E w \in request[r].targets : leg[r][w].told = "failed"
  \/ \A w \in request[r].targets : leg[r][w].pc = "over"

\* wg.Wait.
LegsOver(r) == \A w \in request[r].targets : leg[r][w].pc = "over"

\* Mutant: a command succeeds when one of its workers answered.
CommandOutcomeOfAny(r) ==
  IF \E w \in request[r].targets : leg[r][w].told = "ok" THEN "ok" ELSE "partial"

\* errFleetPartial.
CommandOutcome(r) ==
  IF \E w \in request[r].targets : leg[r][w].told # "ok" THEN "partial" ELSE "ok"

Answer(r) ==
  /\ Stands(r, "working") /\ Runs(r) /\ LegsOver(r)
  /\ request' = [request EXCEPT
       ![r].pc = "answered", ![r].open = FALSE,
       ![r].answer = IF Is(r, {"command"}) THEN CommandOutcome(r) ELSE "rows"]
  /\ UNCHANGED <<listed, worker, manager, process, leg, stream, faults>>

----------------------------------------------------------------------------
\* A deploy: the lines of the engine, the end of a line, and the record that closes the stream.
EngineRuns(r) == Stands(r, "deploying") /\ Runs(r)
StreamOnly == UNCHANGED <<listed, worker, manager, process, leg>>

WriteLine(r) ==
  /\ EngineRuns(r) /\ stream[r].ended = "no" /\ Len(stream[r].records) < MaxLines
  /\ \/ stream' = [stream EXCEPT ![r].records = Append(@, "line"), ![r].partial = 0]
     \/ stream' = [stream EXCEPT ![r].partial = 1]
  /\ UNCHANGED <<request, faults>> /\ StreamOnly

\* The engine ends; when the client left its context is cancelled, too late perhaps.
EngineEnds(r) ==
  /\ EngineRuns(r) /\ stream[r].ended = "no"
  /\ \/ stream' = [stream EXCEPT ![r].ended = "ok"] /\ UNCHANGED faults
     \/ /\ faults < MaxOutages \/ ~request[r].client
        /\ stream' = [stream EXCEPT ![r].ended = "failed"]
        /\ faults' = IF request[r].client THEN faults + 1 ELSE faults
  /\ UNCHANGED request /\ StreamOnly

\* Mutant: what is left of a line without an end is not written.
FlushNothing(r) == [stream[r] EXCEPT !.partial = @]

Flushed(r) ==
  [stream[r] EXCEPT !.records = IF stream[r].partial = 0 THEN @ ELSE Append(@, "line"),
                    !.partial = 0]

CloseStream(r) ==
  /\ EngineRuns(r) /\ stream[r].ended # "no"
  /\ stream' = [stream EXCEPT ![r] = [Flushed(r) EXCEPT
                  !.records = Append(@, IF stream[r].ended = "ok" THEN "done" ELSE "error")]]
  /\ Answered(r, "streamed")
  /\ UNCHANGED faults /\ StreamOnly

----------------------------------------------------------------------------
\* ctx.Done in runConsoleCommand: the listener closes, requests in flight go on until the
\* process ends. Close reads the manager, and closes the one it found.
StopConsole ==
  /\ process.pc = "serving" /\ process' = [process EXCEPT !.pc = "closing"]
  /\ UNCHANGED <<listed, worker, manager, request, leg, stream, faults>>

ReadManager ==
  /\ process.pc = "closing"
  /\ process' = [pc |-> "tearing", seen |-> manager.built]
  /\ UNCHANGED <<listed, worker, manager, request, leg, stream, faults>>

CloseConsole ==
  /\ process.pc = "tearing" /\ process' = [process EXCEPT !.pc = "gone"]
  /\ manager' = [manager EXCEPT !.closed = process.seen]
  /\ UNCHANGED <<listed, worker, request, leg, stream, faults>>

\* The world: a client leaves, a deploy adds a row, a worker stops answering and comes back.
ClientLeaves(r) ==
  /\ request[r].pc \notin {"idle", "answered"} /\ ~Is(r, {"command"}) /\ request[r].client
  /\ request' = [request EXCEPT ![r].client = FALSE]
  /\ UNCHANGED <<listed, worker, manager, process, leg, stream, faults>>

AddWorker(w) ==
  /\ w \notin listed /\ listed' = listed \cup {w}
  /\ UNCHANGED <<worker, manager, process, request, leg, stream, faults>>

WorkerStops(w) ==
  /\ worker[w] = "up" /\ faults < MaxOutages
  /\ \E s \in {"hung", "down"} : worker' = [worker EXCEPT ![w] = s]
  /\ faults' = faults + 1
  /\ UNCHANGED <<listed, manager, process, request, leg, stream>>

WorkerReturns(w) ==
  /\ worker[w] # "up" /\ worker' = [worker EXCEPT ![w] = "up"]
  /\ UNCHANGED <<listed, manager, process, request, leg, stream, faults>>

RequestStep(r) ==
  \/ ReadInventory(r) \/ ReadName(r) \/ ReadEnvironment(r) \/ UseManager(r) \/ ResolveTargets(r)
  \/ Answer(r) \/ EngineEnds(r) \/ CloseStream(r)
  \/ \E w \in Workers : LegStep(r, w)

ConsoleNext ==
  \/ \E r \in Requests : RequestStep(r) \/ WriteLine(r) \/ ClientLeaves(r)
  \/ \E r \in Requests : \E kind \in Asks[r] : Arrive(r, kind)
  \/ \E r \in Requests, w \in Workers : TailEnds(r, w)
  \/ \E w \in Workers : AddWorker(w) \/ WorkerStops(w) \/ WorkerReturns(w)
  \/ StopConsole \/ ReadManager \/ CloseConsole

ConsoleSpec == ConsoleInit /\ [][ConsoleNext]_consoleVars

\* Timers fire, a dial to a dead worker fails, the engine of a deploy ends.
ConsoleFairness ==
  /\ \A r \in Requests : WF_consoleVars(RequestStep(r))
  /\ \A r \in Requests, w \in Workers : WF_consoleVars(LegStep(r, w))

ConsoleTypeOK ==
  /\ listed \subseteq Workers /\ worker \in [Workers -> {"up", "hung", "down"}]
  /\ manager \in [built : BOOLEAN, knows : SUBSET Workers, closed : BOOLEAN]
  /\ process \in [pc : {"serving", "closing", "tearing", "gone"}, seen : BOOLEAN]
  /\ request \in [Requests -> [
       kind : Kinds \cup {"none"}, targets : SUBSET Workers, client : BOOLEAN,
       pc : {"idle", "reading", "manager", "working", "deploying", "answered"},
       answer : {"none", "refused", "bad", "listed", "reset", "gateway", "usage", "rows", "ok",
                 "partial", "streamed"},
       knows : SUBSET Workers, open : BOOLEAN]]
  /\ leg \in [Requests -> [Workers -> [pc : {"none", "calling", "following", "over"},
                                       broke : BOOLEAN, told : {"none", "ok", "failed"}]]]
  /\ stream \in [Requests -> [records : Seq({"line", "done", "error"}), partial : 0..1,
                              ended : {"no", "ok", "failed"}]]
  /\ faults \in 0..MaxOutages

\* A down target hides no other: an answer has a row for every worker of the inventory it read,
\* and a command ends well only if each of its workers answered. (handleOverview, runFleet.)
PartialResultsAreWhole ==
  \A r \in Requests :
    Stands(r, "answered") /\ Is(r, {"overview", "command"}) /\ request[r].client =>
      /\ \A w \in request[r].targets : leg[r][w].told # "none"
      /\ request[r].answer = "ok" => \A w \in request[r].targets : leg[r][w].told = "ok"

\* "the operator sees the gap rather than silence": a tail that failed told its client, whatever
\* the other tails do. One whose worker ended the stream has nothing to tell. (tailWorkerEvents.)
GapsAreTold ==
  \A r \in Requests, w \in Workers :
    Is(r, {"events"}) /\ leg[r][w].pc = "over" /\ leg[r][w].broke => leg[r][w].told = "failed"

\* The stream of a deploy has the whole output, and then the one record that says how the engine
\* ended. (handleDeploy, jsonlLineWriter.)
DeployStreamIsWhole ==
  \A r \in Requests : LET s == stream[r] IN
    /\ \A i \in DOMAIN s.records : s.records[i] # "line" => i = Len(s.records)
    /\ Stands(r, "answered") /\ s.ended # "no" =>
         s.partial = 0 /\ s.records[Len(s.records)] = (IF s.ended = "ok" THEN "done" ELSE "error")

\* Tunnels end with their process: the manager that Close found is closed, and a command closes
\* its own after its calls. One that a request in flight builds after Close looked is not found.
\* (Close, runConsoleCommand, runFleet.)
TunnelsEndWithProcess ==
  /\ process.pc = "gone" /\ manager.built /\ process.seen => manager.closed
  /\ \A r \in Requests : Is(r, {"command"}) /\ Stands(r, "answered") =>
       ~request[r].open /\ \A w \in Workers : leg[r][w].pc # "calling"

\* A worker that hangs delays nobody for ever: what lists, resets, asks with a deadline or deploys
\* ends, unless the console does.
RequestsEnd ==
  \A r \in Requests :
    []<>(\/ request[r].pc \in {"idle", "answered"}
         \/ Is(r, {"events", "proxy"}) /\ request[r].client
         \/ ~Runs(r))
============================================================================
