----------------------------- MODULE MCOperator -----------------------------
(***************************************************************************)
(* The parts of the operator's side that share no variable, checked in one *)
(* run: each behaviour runs the part `chosen` names, the others stand in   *)
(* their initial state.                                                    *)
(***************************************************************************)
EXTENDS FleetDeploy, OperateSession, WorkerEvidence, TunnelManager, Console, TLC

CONSTANTS qa, qb  \* the requests of the console

VARIABLE chosen

\* One request only lists the fleet, and builds the manager the other finds.
OneLists == qa :> {"fleet"} @@
            qb :> {"fleet", "overview", "events", "deploy", "reset", "proxy", "command"}

\* What the parts require of their constants.
ASSUME OperatorConstants ==
  /\ DeployConstants /\ SessionConstants /\ EvidenceConstants /\ TunnelConstants
  /\ ConsoleConstants

Init ==
  /\ chosen \in {"deploy", "session", "evidence", "tunnel", "console"}
  /\ DeployInit /\ SessionInit /\ EvidenceInit /\ TunnelInit
  /\ ConsoleInit

Next ==
  /\ chosen' = chosen
  /\ \/ /\ chosen = "deploy" /\ DeployNext
        /\ UNCHANGED <<sessionVars, evidenceVars, tunnelVars, consoleVars>>
     \/ /\ chosen = "session" /\ SessionNext
        /\ UNCHANGED <<deployVars, evidenceVars, tunnelVars, consoleVars>>
     \/ /\ chosen = "evidence" /\ EvidenceNext
        /\ UNCHANGED <<deployVars, sessionVars, tunnelVars, consoleVars>>
     \/ /\ chosen = "tunnel" /\ TunnelNext
        /\ UNCHANGED <<deployVars, sessionVars, evidenceVars, consoleVars>>
     \/ /\ chosen = "console" /\ ConsoleNext
        /\ UNCHANGED <<deployVars, sessionVars, evidenceVars, tunnelVars>>

vars == <<chosen, deployVars, sessionVars, evidenceVars, tunnelVars, consoleVars>>
Spec == Init /\ [][Next]_vars

\* The variables of every part keep their types.
TypeOK ==
  /\ chosen = "deploy" => DeployTypeOK
  /\ chosen = "session" => SessionTypeOK
  /\ chosen = "evidence" => EvidenceTypeOK
  /\ chosen = "tunnel" => TunnelTypeOK
  /\ chosen = "console" => ConsoleTypeOK

\* Machines: what a command ships is what its host runs and keeps, and its lock is its own
\* (FleetDeploy); an unused tunnel is watched and a closed one stays down (TunnelManager),
\* and the tunnels of a console or a command end with it (Console).
MachinesConsistent ==
  /\ chosen = "deploy" => DeployedTogether /\ LiveReleaseKept /\ LockHasOwner
  /\ chosen = "tunnel" => IdleIsWatched /\ ClosedStaysDown
  /\ chosen = "console" => TunnelsEndWithProcess

\* Records: a call runs once and recorded, an opened history can be replayed (OperateSession), a
\* turn that claims completion has proof of the source it leaves, and a patch lands whole or not
\* at all (WorkerEvidence), and what a console shows of its fleet has every row, gap and line
\* (Console).
RecordsAreTrue ==
  /\ RunsAreRecorded /\ OpenedHistoryReads
  /\ CompletionIsProven /\ PatchIsWhole
  /\ [](PartialResultsAreWhole /\ GapsAreTold /\ DeployStreamIsWhole)

\* Each part, under its own fairness: a deploy command ends, a prompt ends and a process
\* that closes is gone, and Manager.Close returns and a
\* request of the console ends.
OperatorProgress ==
  /\ chosen = "deploy" /\ DeployFairness => CommandsEnd
  /\ chosen = "session" /\ SessionFairness => SessionSettles
  /\ chosen = "tunnel" /\ TunnelFairness => CloseReturns
  /\ chosen = "console" /\ ConsoleFairness => RequestsEnd
=============================================================================
