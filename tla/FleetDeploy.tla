---------------------------- MODULE FleetDeploy ----------------------------
(***************************************************************************)
(* Deploys and rollbacks of one worker on its hosts (internal/deploy).     *)
(* A command is a local process that runs its steps as remote commands     *)
(* over ssh, host after host: it takes the lock of the host, uploads an    *)
(* immutable release, ships the environment and the unit, repoints the     *)
(* `current` link, restarts the service and waits for its health, then     *)
(* writes the ledger, prunes, frees the lock and records the inventory.    *)
(* A remote command may fail before or after it took effect, and a local   *)
(* process may be killed between two of them.                              *)
(***************************************************************************)
EXTENDS Integers, FiniteSets

CONSTANTS Commands,   \* local deploy and rollback processes
          HostCount,  \* hosts of the environment, visited in order
          Keep,       \* releases that pruning keeps
          MaxDeployFaults \* bound: remote commands that fail, and kills

Unlocked == "unlocked"

DeployConstants ==
  /\ HostCount \in Nat \ {0} /\ Keep \in Nat \ {0} /\ MaxDeployFaults \in Nat
  /\ IsFiniteSet(Commands) /\ Unlocked \notin Commands

VARIABLES command,   \* the local processes
          host,      \* what each host holds
          inventory, \* release recorded for each host in the user's inventory
          planned,   \* release identifiers handed out so far: their order is the time of the build
          deployFaults, \* counter of the bound
          strayLocks    \* history: hosts whose lock command or release failed after its effect or was never sent

deployVars == <<command, host, inventory, planned, deployFaults, strayLocks>>

Hosts == 1..HostCount
Releases == 1..Cardinality(Commands)
NoRelease == 0
NoEntry == [release |-> NoRelease, previous |-> NoRelease]

Before == {"idle", "locking"}
Deploying == {"uploading", "shipping", "reading", "swapping", "restarting", "probing", "logging", "pruning"}
Reverting == {"reverting", "revertRestart", "revertProbe", "stopping"}
Ended == {"done", "failed", "killed"}

DeployTypeOK ==
  /\ command \in [Commands -> [pc : Before \cup Deploying \cup Reverting \cup {"target", "checking", "unlocking", "recording"} \cup Ended,
                               kind : {"deploy", "rollback"}, at : 1..HostCount + 1,
                               release : Releases \cup {NoRelease}, previous : Releases \cup {NoRelease},
                               ok : BOOLEAN]]
  /\ host \in [Hosts -> [lock : Commands \cup {Unlocked}, dirs : SUBSET Releases, verified : SUBSET Releases,
                         current : Releases \cup {NoRelease}, served : Releases \cup {NoRelease},
                         env : Releases \cup {NoRelease},
                         ledger : [release : Releases \cup {NoRelease}, previous : Releases \cup {NoRelease}]]]
  /\ inventory \in [Hosts -> Releases \cup {NoRelease}]
  /\ planned \in 0..Cardinality(Commands)
  /\ deployFaults \in 0..MaxDeployFaults
  /\ strayLocks \subseteq Hosts

DeployInit ==
  /\ command = [c \in Commands |-> [pc |-> "idle", kind |-> "deploy", at |-> 1, release |-> NoRelease,
                                    previous |-> NoRelease, ok |-> FALSE]]
  /\ host = [h \in Hosts |-> [lock |-> Unlocked, dirs |-> {}, verified |-> {}, current |-> NoRelease,
                              served |-> NoRelease, env |-> NoRelease, ledger |-> NoEntry]]
  /\ inventory = [h \in Hosts |-> NoRelease]
  /\ planned = 0 /\ deployFaults = 0 /\ strayLocks = {}

(***************************************************************************)
(* A remote command of c: it takes effect and c goes on, or it fails, with *)
(* or without its effect, and c goes to the failure path of the step.      *)
(***************************************************************************)
HostOf(c) == host[command[c].at]
Proceeds(c, pc) == command' = [command EXCEPT ![c].pc = pc]
Fault == deployFaults < MaxDeployFaults /\ deployFaults' = deployFaults + 1
Effect(c, after) == host' = [host EXCEPT ![command[c].at] = after]
\* Mutant: an error before the swap returns without the deferred release.
RefuseLocked(c) == command' = [command EXCEPT ![c].pc = "failed", ![c].ok = FALSE]

\* An error before the swap: the deferred release of the lock runs.
Refuse(c) == command' = [command EXCEPT ![c].pc = "unlocking", ![c].ok = FALSE]
NoOtherChange == UNCHANGED <<inventory, planned, strayLocks>>

Remote(c, after, goesOn, gives) ==
  /\ \/ goesOn /\ Effect(c, after) /\ UNCHANGED deployFaults
     \/ Fault /\ gives /\ (Effect(c, after) \/ UNCHANGED host)
  /\ NoOtherChange

(***************************************************************************)
(* Local plans: a deploy builds its release and names it before it reaches *)
(* a host; a rollback builds nothing.                                      *)
(***************************************************************************)
PlanDeploy(c) ==
  /\ command[c].pc = "idle"
  /\ planned' = planned + 1
  /\ command' = [command EXCEPT ![c].pc = "locking", ![c].release = planned + 1]
  /\ UNCHANGED <<host, inventory, deployFaults, strayLocks>>

PlanRollback(c) ==
  /\ command[c].pc = "idle"
  /\ command' = [command EXCEPT ![c].pc = "locking", ![c].kind = "rollback"]
  /\ UNCHANGED <<host, inventory, planned, deployFaults, strayLocks>>

\* Mutant: the marker is written without testing it.
LockIgnored(h) == TRUE

\* AcquireLockCommand: the marker is tested and written under flock, and a marker that is
\* there refuses the command.  A lost answer leaves the marker to nobody.
LockFree(h) == host[h].lock = Unlocked
\* Mutant: a command waits for a marker that is there instead of being refused.
AcquireLockWaiting(c) ==
  LET h == command[c].at
      locked == [host[h] EXCEPT !.lock = c] IN
  /\ command[c].pc = "locking" /\ LockFree(h)
  /\ \/ /\ Effect(c, locked)
        /\ Proceeds(c, IF command[c].kind = "deploy" THEN "uploading" ELSE "target")
        /\ UNCHANGED <<deployFaults, strayLocks>>
     \/ /\ Fault /\ Proceeds(c, "failed")
        /\ \/ UNCHANGED <<host, strayLocks>>
           \/ Effect(c, locked) /\ strayLocks' = strayLocks \cup {h}
  /\ UNCHANGED <<inventory, planned>>

AcquireLock(c) ==
  LET h == command[c].at
      locked == [host[h] EXCEPT !.lock = c] IN
  /\ command[c].pc = "locking"
  /\ \/ /\ LockFree(h) /\ Effect(c, locked)
        /\ Proceeds(c, IF command[c].kind = "deploy" THEN "uploading" ELSE "target")
        /\ UNCHANGED <<deployFaults, strayLocks>>
     \/ ~LockFree(h) /\ Proceeds(c, "failed") /\ UNCHANGED <<host, deployFaults, strayLocks>>
     \/ /\ Fault /\ Proceeds(c, "failed")
        /\ \/ UNCHANGED <<host, strayLocks>>
           \/ LockFree(h) /\ Effect(c, locked) /\ strayLocks' = strayLocks \cup {h}
  /\ UNCHANGED <<inventory, planned>>

(***************************************************************************)
(* deployHost.                                                             *)
(***************************************************************************)
\* The directory exists as soon as the upload starts; it is verified when all of it arrived.
Upload(c) ==
  LET r == command[c].release
      begun == [HostOf(c) EXCEPT !.dirs = @ \cup {r}] IN
  /\ command[c].pc = "uploading"
  /\ \/ /\ Effect(c, [begun EXCEPT !.verified = @ \cup {r}])
        /\ Proceeds(c, "shipping") /\ UNCHANGED deployFaults
     \/ Fault /\ Refuse(c) /\ (Effect(c, begun) \/ UNCHANGED host)
  /\ NoOtherChange

ShipEnvironment(c) ==
  /\ command[c].pc = "shipping"
  /\ Remote(c, [HostOf(c) EXCEPT !.env = command[c].release], Proceeds(c, "reading"), Refuse(c))

\* ReadCurrentTargetCommand, of a deploy and of a rollback.
ReadCurrent(c) ==
  /\ command[c].pc = "reading"
  /\ Remote(c, HostOf(c), command' = [command EXCEPT ![c].pc = "swapping", ![c].previous = HostOf(c).current],
            Refuse(c))

\* SwapCurrentCommands.  A failed swap returns an error without going back.
SwapCurrent(c) ==
  /\ command[c].pc = "swapping"
  /\ Remote(c, [HostOf(c) EXCEPT !.current = command[c].release], Proceeds(c, "restarting"),
            Refuse(c))

Serves(h) == IF host[h].current \in host[h].verified THEN host[h].current ELSE NoRelease
Restarted(c) == [HostOf(c) EXCEPT !.served = Serves(command[c].at)]

\* failAfterSwap: a deploy goes back to the release it replaced, or stops the service
\* when there was none; a rollback reports and stays.
FailAfterSwap(c) ==
  IF command[c].kind = "rollback" THEN Refuse(c)
  ELSE Proceeds(c, IF command[c].previous = NoRelease THEN "stopping" ELSE "reverting")

RestartService(c) ==
  /\ command[c].pc = "restarting"
  /\ Remote(c, Restarted(c), Proceeds(c, "probing"), FailAfterSwap(c))

\* runHealthGate: the release may be broken, whatever the attempts.
HealthGate(c) ==
  /\ command[c].pc = "probing"
  /\ \/ HostOf(c).served # NoRelease /\ Proceeds(c, "logging")
     \/ FailAfterSwap(c)
  /\ UNCHANGED <<host, deployFaults>> /\ NoOtherChange

\* AppendDeployLogCommand and AppendRollbackLogCommand; a rollback prunes nothing.
AppendLedger(c) ==
  /\ command[c].pc = "logging"
  /\ Remote(c, [HostOf(c) EXCEPT !.ledger = [release |-> command[c].release, previous |-> command[c].previous]],
            command' = [command EXCEPT ![c].pc = IF @ = "logging" /\ command[c].kind = "deploy" THEN "pruning" ELSE "unlocking",
                                       ![c].ok = TRUE],
            Refuse(c))

\* Mutant: the sort order of the directories is reversed.
Oldest(dirs) == {r \in dirs : Cardinality({s \in dirs : s < r}) < Keep}

\* PruneReleasesCommands: the newest Keep directories stay; a failure is a warning.
Newest(dirs) == {r \in dirs : Cardinality({s \in dirs : s > r}) < Keep}
Prune(c) ==
  LET kept == Newest(HostOf(c).dirs)
      pruned == [HostOf(c) EXCEPT !.dirs = kept, !.verified = @ \cap kept] IN
  /\ command[c].pc = "pruning"
  /\ Remote(c, pruned, Proceeds(c, "unlocking"), Proceeds(c, "unlocking"))

(***************************************************************************)
(* The way back of a deploy that failed after its swap.                    *)
(***************************************************************************)
Revert(c) ==
  /\ command[c].pc = "reverting"
  /\ Remote(c, [HostOf(c) EXCEPT !.current = command[c].previous], Proceeds(c, "revertRestart"),
            Refuse(c))

RevertRestart(c) ==
  /\ command[c].pc = "revertRestart"
  /\ Remote(c, Restarted(c), Proceeds(c, "revertProbe"), Refuse(c))

RevertProbe(c) ==
  /\ command[c].pc = "revertProbe"
  /\ Refuse(c) /\ UNCHANGED <<host, deployFaults>> /\ NoOtherChange

StopService(c) ==
  /\ command[c].pc = "stopping"
  /\ Remote(c, [HostOf(c) EXCEPT !.served = NoRelease], Refuse(c), Refuse(c))

(***************************************************************************)
(* rollbackHost: the target is what the last entry of the ledger replaced. *)
(***************************************************************************)
RollbackTarget(c) ==
  LET entry == HostOf(c).ledger IN
  /\ command[c].pc = "target"
  /\ \/ entry.previous = NoRelease /\ Refuse(c) /\ UNCHANGED deployFaults
     \/ /\ entry.previous # NoRelease /\ UNCHANGED deployFaults
        /\ command' = [command EXCEPT ![c].pc = "checking", ![c].release = entry.previous]
     \/ Fault /\ Refuse(c)
  /\ UNCHANGED host /\ NoOtherChange

CheckTarget(c) ==
  /\ command[c].pc = "checking"
  /\ \/ command[c].release \in HostOf(c).dirs /\ Proceeds(c, "reading") /\ UNCHANGED deployFaults
     \/ command[c].release \notin HostOf(c).dirs /\ Refuse(c) /\ UNCHANGED deployFaults
     \/ Fault /\ Refuse(c)
  /\ UNCHANGED host /\ NoOtherChange

(***************************************************************************)
(* The end of a host: the lock, the inventory, the next host or the abort. *)
(***************************************************************************)
ReleaseLock(c) ==
  LET h == command[c].at IN
  /\ command[c].pc = "unlocking"
  /\ Proceeds(c, IF command[c].ok THEN "recording" ELSE "failed")
  /\ \/ Effect(c, [host[h] EXCEPT !.lock = Unlocked]) /\ UNCHANGED <<deployFaults, strayLocks>>
     \/ Fault /\ UNCHANGED host /\ strayLocks' = strayLocks \cup {h}
  /\ UNCHANGED <<inventory, planned>>

\* UpsertDeployment under the lock of the inventory; a failure is a warning.
RecordInventory(c) ==
  LET h == command[c].at IN
  /\ command[c].pc = "recording"
  /\ command' = [command EXCEPT ![c].at = h + 1, ![c].ok = FALSE, ![c].previous = NoRelease,
                                ![c].pc = IF h = HostCount THEN "done" ELSE "locking"]
  /\ \/ inventory' = [inventory EXCEPT ![h] = command[c].release] /\ UNCHANGED deployFaults
     \/ Fault /\ UNCHANGED inventory
  /\ UNCHANGED <<host, planned, strayLocks>>

\* The local process is killed; what it holds on the host stays.
Kill(c) ==
  /\ command[c].pc \notin Before \cup Ended /\ Fault
  /\ Proceeds(c, "killed")
  /\ strayLocks' = IF command[c].pc = "recording" THEN strayLocks ELSE strayLocks \cup {command[c].at}
  /\ UNCHANGED <<host, inventory, planned>>

\* The operator reads the marker that refused a command, sees that its process is gone
\* and truncates the file.
ClearStaleLock(h) ==
  /\ host[h].lock # Unlocked
  /\ command[host[h].lock].pc \in Ended \/ command[host[h].lock].at > h
  /\ host' = [host EXCEPT ![h].lock = Unlocked] /\ strayLocks' = strayLocks \ {h}
  /\ UNCHANGED <<command, inventory, planned, deployFaults>>

\* systemd restarts a service that died, from whatever the link names now (Restart=always).
ServiceRestarts(h) ==
  /\ host[h].served # NoRelease
  /\ host' = [host EXCEPT ![h].served = Serves(h)]
  /\ UNCHANGED <<command, inventory, planned, deployFaults, strayLocks>>

HostStep(c) ==
  \/ Upload(c) \/ ShipEnvironment(c) \/ ReadCurrent(c) \/ SwapCurrent(c) \/ RestartService(c)
  \/ HealthGate(c) \/ AppendLedger(c) \/ Prune(c) \/ Revert(c) \/ RevertRestart(c)
  \/ RevertProbe(c) \/ StopService(c) \/ RollbackTarget(c) \/ CheckTarget(c)

DeployNext ==
  \/ \E c \in Commands : PlanDeploy(c) \/ PlanRollback(c) \/ AcquireLock(c) \/ HostStep(c)
                         \/ ReleaseLock(c) \/ RecordInventory(c) \/ Kill(c)
  \/ \E h \in Hosts : ClearStaleLock(h) \/ ServiceRestarts(h)

DeployFairness == \A c \in Commands : WF_deployVars(AcquireLock(c) \/ HostStep(c) \/ ReleaseLock(c) \/ RecordInventory(c))
DeploySpec == DeployInit /\ [][DeployNext]_deployVars /\ DeployFairness

(***************************************************************************)
(* Properties.                                                             *)
(***************************************************************************)
InSection(c) == command[c].pc \in Deploying \cup Reverting \cup {"target", "checking", "unlocking"}

\* What a command ships is what it starts: when the health gate of a deploy passes, the
\* release it serves, the link and the environment are its own, whatever other commands
\* try on the same host meanwhile (deploy_env.go deployHost, release.go AcquireLockCommand).
DeployedTogether ==
  \A c \in Commands : command[c].pc = "logging" =>
    LET h == host[command[c].at] IN
    /\ h.current = command[c].release /\ h.served = command[c].release
    /\ command[c].kind = "deploy" => h.env = command[c].release

\* Pruning spares the release that the link names, unless Keep newer directories are on
\* the host (release.go PruneReleasesCommands, rollback.go rollbackHost).
LiveReleaseKept ==
  \A h \in Hosts : LET live == host[h].current IN
    live # NoRelease => \/ live \in host[h].dirs
                        \/ Cardinality({r \in host[h].dirs : r > live}) >= Keep

\* A marker that nobody will remove was left by a kill or by a lost command, never by an
\* error path of a command (deploy_env.go deferred release, rollback.go releaseLock).
LockHasOwner ==
  \A h \in Hosts : host[h].lock # Unlocked =>
    \/ h \in strayLocks
    \/ LET c == host[h].lock IN InSection(c) /\ command[c].at = h

\* Every command ends, refused, failed or done: time and again none is under way
\* (deploy_env.go run, rollback.go run).
CommandsEnd == []<>(\A c \in Commands : command[c].pc \in {"idle"} \cup Ended)
=============================================================================
