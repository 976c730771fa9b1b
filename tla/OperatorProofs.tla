---------------------------- MODULE OperatorProofs ----------------------------
(***************************************************************************)
(* What is proved of the operator's side, for every value of its           *)
(* constants: the deploy commands of a fleet (FleetDeploy), the operate    *)
(* sessions and the tools of their turns (OperateSession, WorkerEvidence), *)
(* the tunnels and the console that opens them (TunnelManager, Console).   *)
(* Each part has its own inductive invariant.  At the end, the theorems    *)
(* about the parts together (MCOperator).                                  *)
(***************************************************************************)
EXTENDS MCOperator, FiniteSetTheorems, WellFoundedInduction, SequenceTheorems, TLAPS

\* Every set of natural numbers has a least element: the library's minimum of a
\* well-founded relation, for the order of the naturals.
LEMMA LeastNatural ==
    ASSUME NEW T, T \subseteq Nat, T # {} PROVE \E x \in T : \A y \in T : x <= y
  <1>1. PICK x \in T : \A y \in T : ~(<<y, x>> \in OpToRel(<, Nat))
    BY NatLessThanWellFounded, WFMin
  <1>2. ASSUME NEW y \in T, y < x PROVE FALSE
    <2>1. <<y, x>> \in Nat \X Nat /\ <<y, x>>[1] < <<y, x>>[2]
      BY <1>2
    <2>2. <<y, x>> \in OpToRel(<, Nat)
      BY <2>1, Zenon DEF OpToRel
    <2> QED BY <1>1, <2>2
  <1> QED BY <1>2

(***************************************************************************)
(* Deploys and rollbacks (FleetDeploy).  A command works on a host only in *)
(* its section, while the marker on that host is its own (LockHeld): what  *)
(* it found and did there stays as it left it (SectionSafe), and what a    *)
(* host keeps is settled between sections (HostSafe).                      *)
(***************************************************************************)
DeploySafety == DeployInit /\ [][DeployNext]_deployVars

SectionPCs == Deploying \cup Reverting \cup {"target", "checking", "unlocking"}
Spare(release, dirs) ==
  release # NoRelease =>
    release \in dirs \/ Cardinality({r \in dirs : r > release}) >= Keep
\* What the record of a command says of itself.
CommandSafe(k) ==
  /\ k.kind = "deploy" /\ k.pc # "idle" => k.release \in Releases
  /\ k.pc \in Reverting \cup {"uploading", "shipping", "pruning"} => k.kind = "deploy"
  /\ k.pc \in {"target", "checking"} => k.kind = "rollback"
  /\ k.pc # "done" => k.at \in Hosts
HostSafe(h) == h.verified \subseteq h.dirs /\ Spare(h.current, h.dirs)
Started(h) == IF h.current \in h.verified THEN h.current ELSE NoRelease
\* What a command in its section knows of its host.
SectionSafe(k, h) ==
  /\ k.kind = "deploy" /\ k.pc \in Deploying \ {"uploading", "pruning"} =>
       k.release \in h.verified
  /\ k.kind = "deploy" /\ k.pc \in Deploying \ {"uploading", "shipping", "pruning"} =>
       h.env = k.release
  /\ k.kind = "rollback" /\ k.pc \in {"reading", "swapping"} => k.release \in h.dirs
  /\ k.pc \in {"restarting", "probing", "logging"} => h.current = k.release
  /\ k.pc = "probing" => h.served = Started(h)
  /\ k.pc = "logging" => h.served = k.release /\ k.release \in h.verified
  /\ k.pc \in {"swapping", "restarting", "probing", "reverting"} => Spare(k.previous, h.dirs)
Planned == {c \in Commands : command[c].pc # "idle"}

LockHeld == \A c \in Commands : command[c].pc \in SectionPCs => host[command[c].at].lock = c
DeployInv ==
  /\ DeployTypeOK
  /\ planned <= Cardinality(Planned)
  /\ \A c \in Commands : CommandSafe(command[c])
  /\ \A h \in Hosts : HostSafe(host[h])
  /\ LockHeld
  /\ \A c \in Commands :
       command[c].pc \in SectionPCs => SectionSafe(command[c], host[command[c].at])
  /\ LockHasOwner

CommandState ==
  [pc : Before \cup SectionPCs \cup {"recording"} \cup Ended, kind : {"deploy", "rollback"},
   at : 1 .. HostCount + 1, release : Releases \cup {NoRelease},
   previous : Releases \cup {NoRelease}, ok : BOOLEAN]
HostState ==
  [lock : Commands \cup {Unlocked}, dirs : SUBSET Releases, verified : SUBSET Releases,
   current : Releases \cup {NoRelease}, served : Releases \cup {NoRelease},
   env : Releases \cup {NoRelease},
   ledger : [release : Releases \cup {NoRelease}, previous : Releases \cup {NoRelease}]]

\* The types of the commands and of the hosts, as sets of records.
LEMMA DeployStates ==
    DeployTypeOK <=>
      /\ command \in [Commands -> CommandState] /\ host \in [Hosts -> HostState]
      /\ inventory \in [Hosts -> Releases \cup {NoRelease}]
      /\ planned \in 0 .. Cardinality(Commands) /\ deployFaults \in 0 .. MaxDeployFaults
      /\ strayLocks \subseteq Hosts
  <1>1. CommandState =
          [pc : Before \cup Deploying \cup Reverting
                \cup {"target", "checking", "unlocking", "recording"} \cup Ended,
           kind : {"deploy", "rollback"}, at : 1 .. HostCount + 1,
           release : Releases \cup {NoRelease}, previous : Releases \cup {NoRelease},
           ok : BOOLEAN]
    <2>1. Before \cup SectionPCs \cup {"recording"} \cup Ended =
            Before \cup Deploying \cup Reverting
              \cup {"target", "checking", "unlocking", "recording"} \cup Ended
      BY DEF SectionPCs
    <2> QED BY <2>1 DEF CommandState
  <1> QED BY <1>1 DEF DeployTypeOK, HostState

\* A set of releases is finite, and so is what is newer in it than a release.
LEMMA ReleasesFinite ==
    ASSUME DeployConstants, NEW dirs \in SUBSET Releases, NEW x \in Nat
    PROVE /\ IsFiniteSet(dirs) /\ IsFiniteSet({r \in dirs : r > x})
          /\ Cardinality({r \in dirs : r > x}) \in Nat
  <1>1. Cardinality(Commands) \in Nat
    BY FS_CardinalityType DEF DeployConstants
  <1>2. IsFiniteSet(Releases)
    <2>1. 1 \in Int /\ Cardinality(Commands) \in Int
      BY <1>1
    <2> QED BY <2>1, FS_Interval DEF Releases
  <1>3. IsFiniteSet(dirs)
    BY <1>2, FS_Subset
  <1>4. IsFiniteSet({r \in dirs : r > x})
    <2>1. {r \in dirs : r > x} \in SUBSET dirs
      OBVIOUS
    <2> QED BY <1>3, <2>1, FS_Subset
  <1> QED BY <1>3, <1>4, FS_CardinalityType

\* What is spared stays so as directories come.
LEMMA SpareGrows ==
    ASSUME DeployConstants, NEW dirs \in SUBSET Releases, NEW more \in SUBSET Releases,
           dirs \subseteq more, NEW x \in Nat, Spare(x, dirs)
    PROVE Spare(x, more)
  <1> DEFINE Above(d) == {r \in d : r > x}
  <1>1. SUFFICES ASSUME x # NoRelease, x \notin more PROVE Cardinality(Above(more)) >= Keep
    BY DEF Spare
  <1>2. Cardinality(Above(dirs)) >= Keep
    BY <1>1 DEF Spare
  <1>3. IsFiniteSet(Above(more)) /\ Cardinality(Above(more)) \in Nat
    BY ReleasesFinite
  <1>4. Cardinality(Above(dirs)) \in Nat
    BY ReleasesFinite
  <1>5. Above(dirs) \in SUBSET Above(more)
    OBVIOUS
  <1>6. Cardinality(Above(dirs)) <= Cardinality(Above(more))
    BY <1>3, <1>5, FS_Subset
  <1> QED BY <1>2, <1>3, <1>4, <1>6 DEF DeployConstants

\* Pruning keeps what is spared: what it drops has Keep newer directories, and so many of
\* them stay, which are newer than the newest one that goes.
LEMMA PruningSpares ==
    ASSUME DeployConstants, NEW dirs \in SUBSET Releases, NEW x \in Nat, Spare(x, dirs)
    PROVE Spare(x, Newest(dirs))
  <1> DEFINE Above(d, y) == {r \in d : r > y}
             Pruned == Above(dirs, x) \ Newest(dirs)
  <1>0. /\ Cardinality(Commands) \in Nat /\ Keep \in Nat /\ dirs \subseteq Nat
        /\ \A r \in dirs : r <= Cardinality(Commands)
    BY FS_CardinalityType DEF DeployConstants, Releases
  <1>1. SUFFICES ASSUME x # NoRelease, x \notin Newest(dirs)
                 PROVE Cardinality(Above(Newest(dirs), x)) >= Keep
    BY DEF Spare
  <1>2. Cardinality(Above(dirs, x)) >= Keep
    <2>1. CASE x \in dirs
      <3>1. ~(Cardinality(Above(dirs, x)) < Keep)
        BY <1>1, <2>1 DEF Newest
      <3>2. Cardinality(Above(dirs, x)) \in Nat
        BY ReleasesFinite
      <3> QED BY <1>0, <3>1, <3>2
    <2>2. CASE x \notin dirs
      BY <1>1, <2>2 DEF Spare
    <2> QED BY <2>1, <2>2
  <1>3. CASE Pruned = {}
    <2>1. Above(Newest(dirs), x) = Above(dirs, x)
      BY <1>3 DEF Newest
    <2> QED BY <1>2, <2>1
  <1>4. CASE Pruned # {}
    <2> DEFINE n == Cardinality(Commands)
               Under == {n - r : r \in Pruned}
    <2>0. ASSUME NEW r \in Pruned PROVE r \in Nat /\ r <= n /\ n - r \in Nat
      <3>1. r \in dirs
        OBVIOUS
      <3> QED BY <1>0, <3>1
    <2>1. Under \subseteq Nat /\ Under # {}
      BY <1>4, <2>0
    <2>2. PICK least \in Under : \A u \in Under : least <= u
      BY <2>1, LeastNatural
    <2>3. PICK y \in Pruned : least = n - y
      BY <2>2
    <2>4. ASSUME NEW r \in Pruned PROVE r <= y
      <3>1. n - r \in Under /\ n \in Nat
        BY <1>0
      <3>2. n - y <= n - r
        BY <2>2, <2>3, <3>1
      <3> HIDE DEF n, Pruned
      <3> QED BY <2>0, <2>3, <3>1, <3>2
    <2>5. Above(dirs, y) \in SUBSET Above(Newest(dirs), x)
      <3>1. y \in Nat /\ y > x
        BY <1>0, <2>3
      <3>2. ASSUME NEW r \in dirs, r > y PROVE r \in Newest(dirs) /\ r > x
        <4>1. r > x /\ ~(r <= y)
          BY <1>0, <3>1, <3>2
        <4> QED BY <2>4, <3>2, <4>1
      <3> QED BY <3>2
    <2>6. Cardinality(Above(dirs, y)) >= Keep
      <3>1. ~(Cardinality(Above(dirs, y)) < Keep) /\ y \in Nat
        BY <1>0, <2>3 DEF Newest
      <3>2. Cardinality(Above(dirs, y)) \in Nat
        BY <3>1, ReleasesFinite
      <3> QED BY <1>0, <3>1, <3>2
    <2>7. /\ IsFiniteSet(Above(Newest(dirs), x)) /\ Cardinality(Above(Newest(dirs), x)) \in Nat
      <3>1. Newest(dirs) \in SUBSET Releases
        BY DEF Newest
      <3> QED BY <3>1, ReleasesFinite
    <2>8. Cardinality(Above(dirs, y)) <= Cardinality(Above(Newest(dirs), x))
      BY <2>5, <2>7, FS_Subset
    <2>9. Cardinality(Above(dirs, y)) \in Nat
      BY <1>0, <2>3, ReleasesFinite
    <2> QED BY <1>0, <2>6, <2>7, <2>8, <2>9
  <1> QED BY <1>3, <1>4

\* What a remote command leaves of a host is what it wrote, or what was there.
LEMMA HostChanges ==
    ASSUME host \in [Hosts -> HostState], NEW at \in Hosts, NEW after,
           after \in HostState, after.lock = host[at].lock,
           host' = [host EXCEPT ![at] = after] \/ host' = host
    PROVE /\ host'[at] \in {after, host[at]}
          /\ host'[at] \in HostState /\ host'[at].lock = host[at].lock
          /\ host' = [host EXCEPT ![at] = host'[at]]
  OBVIOUS

\* The same of the next state.
LEMMA DeployTypedNext ==
    ASSUME command' \in [Commands -> CommandState], host' \in [Hosts -> HostState],
           inventory' \in [Hosts -> Releases \cup {NoRelease}],
           planned' \in 0 .. Cardinality(Commands), deployFaults' \in 0 .. MaxDeployFaults,
           strayLocks' \subseteq Hosts
    PROVE DeployTypeOK'
  <1>1. (DeployTypeOK <=>
          /\ command \in [Commands -> CommandState] /\ host \in [Hosts -> HostState]
          /\ inventory \in [Hosts -> Releases \cup {NoRelease}]
          /\ planned \in 0 .. Cardinality(Commands) /\ deployFaults \in 0 .. MaxDeployFaults
          /\ strayLocks \subseteq Hosts)'
    BY DeployStates, PTL
  <1> QED BY <1>1

\* A step of a command in its section: only its own record and its own host change, the
\* marker stays, and what it knows of its host stays true.
Worked(c) ==
  /\ command'[c] \in CommandState /\ command'[c].at = command[c].at
  /\ command'[c].pc \in SectionPCs
  /\ command' = [command EXCEPT ![c] = command'[c]]
  /\ host'[command[c].at] \in HostState /\ host'[command[c].at].lock = HostOf(c).lock
  /\ host' = [host EXCEPT ![command[c].at] = host'[command[c].at]]
  /\ deployFaults' \in 0 .. MaxDeployFaults
  /\ UNCHANGED <<inventory, planned, strayLocks>>
WorkedSafely(c) ==
  /\ CommandSafe(command'[c]) /\ HostSafe(host'[command[c].at])
  /\ SectionSafe(command'[c], host'[command[c].at])

\* Each step of deployHost, failAfterSwap and rollbackHost is such a step.
LEMMA HostStepsStay ==
    ASSUME DeployConstants, DeployInv, NEW c \in Commands, HostStep(c)
    PROVE command[c].pc \in SectionPCs /\ Worked(c)
  <1> DEFINE k == command[c]
             h == host[k.at]
  <1>0. /\ command \in [Commands -> CommandState] /\ host \in [Hosts -> HostState]
        /\ k \in CommandState /\ deployFaults \in 0 .. MaxDeployFaults
    BY DeployStates DEF DeployInv
  <1>1. CommandSafe(k) /\ (k.pc \in SectionPCs => k.at \in Hosts /\ h \in HostState)
    BY <1>0 DEF DeployInv, CommandSafe, SectionPCs, Deploying, Reverting
  <1>2. CASE Upload(c)
    <2>1. k.pc \in SectionPCs
      BY <1>2 DEF Upload, SectionPCs, Deploying, Reverting
    <2>2. k.at \in Hosts /\ h \in HostState
      BY <1>1, <2>1
    <2>3. UNCHANGED <<inventory, planned, strayLocks>>
      BY <1>2 DEF Upload, Remote, NoOtherChange
    <2>4. deployFaults' \in 0 .. MaxDeployFaults
      BY <1>0, <1>2 DEF Upload, Remote, NoOtherChange, Fault, DeployConstants
    <2>5. /\ command'[c] \in CommandState /\ command'[c].at = command[c].at
          /\ command'[c].pc \in SectionPCs
          /\ command' = [command EXCEPT ![c] = command'[c]]
      BY <1>0, <1>1, <1>2, <2>1, <2>2
         DEF Upload, Remote, Proceeds, Refuse, FailAfterSwap, CommandState, HostState, SectionPCs,
             Deploying, Reverting, HostOf
    <2>6. /\ host'[k.at] \in HostState /\ host'[k.at].lock = h.lock
          /\ host' = [host EXCEPT ![k.at] = host'[k.at]]
      <3> DEFINE begun == [h EXCEPT !.dirs = @ \cup {k.release}]
                 full == [begun EXCEPT !.verified = @ \cup {k.release}]
      <3>1. k.release \in Releases
        BY <1>1, <1>2 DEF Upload, CommandSafe
      <3>2. begun \in HostState /\ begun.lock = h.lock
        BY <2>2, <3>1 DEF HostState
      <3>3. full \in HostState /\ full.lock = h.lock
        BY <2>2, <3>1 DEF HostState
      <3>4. \/ host' = [host EXCEPT ![k.at] = full] \/ host' = host
            \/ host' = [host EXCEPT ![k.at] = begun]
        BY <1>2 DEF Upload, Effect, HostOf
      <3> HIDE DEF begun, full
      <3> QED BY <1>0, <2>2, <3>2, <3>3, <3>4, HostChanges
    <2> QED BY <2>1, <2>3, <2>4, <2>5, <2>6 DEF Worked, HostOf
  <1>3. CASE ShipEnvironment(c)
    <2>1. k.pc \in SectionPCs
      BY <1>3 DEF ShipEnvironment, SectionPCs, Deploying, Reverting
    <2>2. k.at \in Hosts /\ h \in HostState
      BY <1>1, <2>1
    <2>3. UNCHANGED <<inventory, planned, strayLocks>>
      BY <1>3 DEF ShipEnvironment, Remote, NoOtherChange
    <2>4. deployFaults' \in 0 .. MaxDeployFaults
      BY <1>0, <1>3 DEF ShipEnvironment, Remote, NoOtherChange, Fault, DeployConstants
    <2>5. /\ command'[c] \in CommandState /\ command'[c].at = command[c].at
          /\ command'[c].pc \in SectionPCs
          /\ command' = [command EXCEPT ![c] = command'[c]]
      BY <1>0, <1>1, <1>3, <2>1, <2>2
         DEF ShipEnvironment, Remote, Proceeds, Refuse, FailAfterSwap, CommandState, HostState,
             SectionPCs, Deploying, Reverting, HostOf
    <2>6. /\ host'[k.at] \in HostState /\ host'[k.at].lock = h.lock
          /\ host' = [host EXCEPT ![k.at] = host'[k.at]]
      <3> DEFINE after == [h EXCEPT !.env = k.release]
      <3>1. after \in HostState /\ after.lock = h.lock
        BY <1>0, <1>1, <1>3, <2>1, <2>2
           DEF ShipEnvironment, HostState, CommandState, CommandSafe, Serves, Newest, Deploying,
               Reverting
      <3>2. host' = [host EXCEPT ![k.at] = after] \/ host' = host
        BY <1>3 DEF ShipEnvironment, Remote, Effect, HostOf, Restarted
      <3> HIDE DEF after
      <3> QED BY <1>0, <2>2, <3>1, <3>2, HostChanges
    <2> QED BY <2>1, <2>3, <2>4, <2>5, <2>6 DEF Worked, HostOf
  <1>4. CASE ReadCurrent(c)
    <2>1. k.pc \in SectionPCs
      BY <1>4 DEF ReadCurrent, SectionPCs, Deploying, Reverting
    <2>2. k.at \in Hosts /\ h \in HostState
      BY <1>1, <2>1
    <2>3. UNCHANGED <<inventory, planned, strayLocks>>
      BY <1>4 DEF ReadCurrent, Remote, NoOtherChange
    <2>4. deployFaults' \in 0 .. MaxDeployFaults
      BY <1>0, <1>4 DEF ReadCurrent, Remote, NoOtherChange, Fault, DeployConstants
    <2>5. /\ command'[c] \in CommandState /\ command'[c].at = command[c].at
          /\ command'[c].pc \in SectionPCs
          /\ command' = [command EXCEPT ![c] = command'[c]]
      BY <1>0, <1>1, <1>4, <2>1, <2>2
         DEF ReadCurrent, Remote, Proceeds, Refuse, FailAfterSwap, CommandState, HostState,
             SectionPCs, Deploying, Reverting, HostOf
    <2>6. /\ host'[k.at] \in HostState /\ host'[k.at].lock = h.lock
          /\ host' = [host EXCEPT ![k.at] = host'[k.at]]
      BY <1>0, <1>1, <1>4, <2>1, <2>2
         DEF ReadCurrent, Remote, Effect, HostOf, HostState
    <2> QED BY <2>1, <2>3, <2>4, <2>5, <2>6 DEF Worked, HostOf
  <1>5. CASE SwapCurrent(c)
    <2>1. k.pc \in SectionPCs
      BY <1>5 DEF SwapCurrent, SectionPCs, Deploying, Reverting
    <2>2. k.at \in Hosts /\ h \in HostState
      BY <1>1, <2>1
    <2>3. UNCHANGED <<inventory, planned, strayLocks>>
      BY <1>5 DEF SwapCurrent, Remote, NoOtherChange
    <2>4. deployFaults' \in 0 .. MaxDeployFaults
      BY <1>0, <1>5 DEF SwapCurrent, Remote, NoOtherChange, Fault, DeployConstants
    <2>5. /\ command'[c] \in CommandState /\ command'[c].at = command[c].at
          /\ command'[c].pc \in SectionPCs
          /\ command' = [command EXCEPT ![c] = command'[c]]
      BY <1>0, <1>1, <1>5, <2>1, <2>2
         DEF SwapCurrent, Remote, Proceeds, Refuse, FailAfterSwap, CommandState, HostState,
             SectionPCs, Deploying, Reverting, HostOf
    <2>6. /\ host'[k.at] \in HostState /\ host'[k.at].lock = h.lock
          /\ host' = [host EXCEPT ![k.at] = host'[k.at]]
      <3> DEFINE after == [h EXCEPT !.current = k.release]
      <3>1. after \in HostState /\ after.lock = h.lock
        BY <1>0, <1>1, <1>5, <2>1, <2>2
           DEF SwapCurrent, HostState, CommandState, CommandSafe, Serves, Newest, Deploying,
               Reverting
      <3>2. host' = [host EXCEPT ![k.at] = after] \/ host' = host
        BY <1>5 DEF SwapCurrent, Remote, Effect, HostOf, Restarted
      <3> HIDE DEF after
      <3> QED BY <1>0, <2>2, <3>1, <3>2, HostChanges
    <2> QED BY <2>1, <2>3, <2>4, <2>5, <2>6 DEF Worked, HostOf
  <1>6. CASE RestartService(c)
    <2>1. k.pc \in SectionPCs
      BY <1>6 DEF RestartService, SectionPCs, Deploying, Reverting
    <2>2. k.at \in Hosts /\ h \in HostState
      BY <1>1, <2>1
    <2>3. UNCHANGED <<inventory, planned, strayLocks>>
      BY <1>6 DEF RestartService, Remote, NoOtherChange
    <2>4. deployFaults' \in 0 .. MaxDeployFaults
      BY <1>0, <1>6 DEF RestartService, Remote, NoOtherChange, Fault, DeployConstants
    <2>5. /\ command'[c] \in CommandState /\ command'[c].at = command[c].at
          /\ command'[c].pc \in SectionPCs
          /\ command' = [command EXCEPT ![c] = command'[c]]
      BY <1>0, <1>1, <1>6, <2>1, <2>2
         DEF RestartService, Remote, Proceeds, Refuse, FailAfterSwap, CommandState, HostState,
             SectionPCs, Deploying, Reverting, HostOf
    <2>6. /\ host'[k.at] \in HostState /\ host'[k.at].lock = h.lock
          /\ host' = [host EXCEPT ![k.at] = host'[k.at]]
      <3> DEFINE after == [h EXCEPT !.served = Serves(k.at)]
      <3>1. after \in HostState /\ after.lock = h.lock
        BY <1>0, <1>1, <1>6, <2>1, <2>2
           DEF RestartService, HostState, CommandState, CommandSafe, Serves, Newest, Deploying,
               Reverting
      <3>2. host' = [host EXCEPT ![k.at] = after] \/ host' = host
        BY <1>6 DEF RestartService, Remote, Effect, HostOf, Restarted
      <3> HIDE DEF after
      <3> QED BY <1>0, <2>2, <3>1, <3>2, HostChanges
    <2> QED BY <2>1, <2>3, <2>4, <2>5, <2>6 DEF Worked, HostOf
  <1>7. CASE HealthGate(c)
    <2>1. k.pc \in SectionPCs
      BY <1>7 DEF HealthGate, SectionPCs, Deploying, Reverting
    <2>2. k.at \in Hosts /\ h \in HostState
      BY <1>1, <2>1
    <2>3. UNCHANGED <<inventory, planned, strayLocks>>
      BY <1>7 DEF HealthGate, Remote, NoOtherChange
    <2>4. deployFaults' \in 0 .. MaxDeployFaults
      BY <1>0, <1>7 DEF HealthGate, Remote, NoOtherChange, Fault, DeployConstants
    <2>5. /\ command'[c] \in CommandState /\ command'[c].at = command[c].at
          /\ command'[c].pc \in SectionPCs
          /\ command' = [command EXCEPT ![c] = command'[c]]
      BY <1>0, <1>1, <1>7, <2>1, <2>2
         DEF HealthGate, Remote, Proceeds, Refuse, FailAfterSwap, CommandState, HostState,
             SectionPCs, Deploying, Reverting, HostOf
    <2>6. /\ host'[k.at] \in HostState /\ host'[k.at].lock = h.lock
          /\ host' = [host EXCEPT ![k.at] = host'[k.at]]
      BY <1>0, <1>1, <1>7, <2>1, <2>2
         DEF HealthGate, Remote, Effect, HostOf, HostState
    <2> QED BY <2>1, <2>3, <2>4, <2>5, <2>6 DEF Worked, HostOf
  <1>8. CASE AppendLedger(c)
    <2>1. k.pc \in SectionPCs
      BY <1>8 DEF AppendLedger, SectionPCs, Deploying, Reverting
    <2>2. k.at \in Hosts /\ h \in HostState
      BY <1>1, <2>1
    <2>3. UNCHANGED <<inventory, planned, strayLocks>>
      BY <1>8 DEF AppendLedger, Remote, NoOtherChange
    <2>4. deployFaults' \in 0 .. MaxDeployFaults
      BY <1>0, <1>8 DEF AppendLedger, Remote, NoOtherChange, Fault, DeployConstants
    <2>5. /\ command'[c] \in CommandState /\ command'[c].at = command[c].at
          /\ command'[c].pc \in SectionPCs
          /\ command' = [command EXCEPT ![c] = command'[c]]
      BY <1>0, <1>1, <1>8, <2>1, <2>2
         DEF AppendLedger, Remote, Proceeds, Refuse, FailAfterSwap, CommandState, HostState,
             SectionPCs, Deploying, Reverting, HostOf
    <2>6. /\ host'[k.at] \in HostState /\ host'[k.at].lock = h.lock
          /\ host' = [host EXCEPT ![k.at] = host'[k.at]]
      <3> DEFINE after == [h EXCEPT !.ledger = [release |-> k.release, previous |-> k.previous]]
      <3>1. after \in HostState /\ after.lock = h.lock
        BY <1>0, <1>1, <1>8, <2>1, <2>2
           DEF AppendLedger, HostState, CommandState, CommandSafe, Serves, Newest, Deploying,
               Reverting
      <3>2. host' = [host EXCEPT ![k.at] = after] \/ host' = host
        BY <1>8 DEF AppendLedger, Remote, Effect, HostOf, Restarted
      <3> HIDE DEF after
      <3> QED BY <1>0, <2>2, <3>1, <3>2, HostChanges
    <2> QED BY <2>1, <2>3, <2>4, <2>5, <2>6 DEF Worked, HostOf
  <1>9. CASE Prune(c)
    <2>1. k.pc \in SectionPCs
      BY <1>9 DEF Prune, SectionPCs, Deploying, Reverting
    <2>2. k.at \in Hosts /\ h \in HostState
      BY <1>1, <2>1
    <2>3. UNCHANGED <<inventory, planned, strayLocks>>
      BY <1>9 DEF Prune, Remote, NoOtherChange
    <2>4. deployFaults' \in 0 .. MaxDeployFaults
      BY <1>0, <1>9 DEF Prune, Remote, NoOtherChange, Fault, DeployConstants
    <2>5. /\ command'[c] \in CommandState /\ command'[c].at = command[c].at
          /\ command'[c].pc \in SectionPCs
          /\ command' = [command EXCEPT ![c] = command'[c]]
      BY <1>0, <1>1, <1>9, <2>1, <2>2
         DEF Prune, Remote, Proceeds, Refuse, FailAfterSwap, CommandState, HostState, SectionPCs,
             Deploying, Reverting, HostOf
    <2>6. /\ host'[k.at] \in HostState /\ host'[k.at].lock = h.lock
          /\ host' = [host EXCEPT ![k.at] = host'[k.at]]
      <3> DEFINE after == [h EXCEPT !.dirs = Newest(h.dirs), !.verified = @ \cap Newest(h.dirs)]
      <3>1. after \in HostState /\ after.lock = h.lock
        BY <1>0, <1>1, <1>9, <2>1, <2>2
           DEF Prune, HostState, CommandState, CommandSafe, Serves, Newest, Deploying, Reverting
      <3>2. host' = [host EXCEPT ![k.at] = after] \/ host' = host
        BY <1>9 DEF Prune, Remote, Effect, HostOf, Restarted
      <3> HIDE DEF after
      <3> QED BY <1>0, <2>2, <3>1, <3>2, HostChanges
    <2> QED BY <2>1, <2>3, <2>4, <2>5, <2>6 DEF Worked, HostOf
  <1>10. CASE Revert(c)
    <2>1. k.pc \in SectionPCs
      BY <1>10 DEF Revert, SectionPCs, Deploying, Reverting
    <2>2. k.at \in Hosts /\ h \in HostState
      BY <1>1, <2>1
    <2>3. UNCHANGED <<inventory, planned, strayLocks>>
      BY <1>10 DEF Revert, Remote, NoOtherChange
    <2>4. deployFaults' \in 0 .. MaxDeployFaults
      BY <1>0, <1>10 DEF Revert, Remote, NoOtherChange, Fault, DeployConstants
    <2>5. /\ command'[c] \in CommandState /\ command'[c].at = command[c].at
          /\ command'[c].pc \in SectionPCs
          /\ command' = [command EXCEPT ![c] = command'[c]]
      BY <1>0, <1>1, <1>10, <2>1, <2>2
         DEF Revert, Remote, Proceeds, Refuse, FailAfterSwap, CommandState, HostState, SectionPCs,
             Deploying, Reverting, HostOf
    <2>6. /\ host'[k.at] \in HostState /\ host'[k.at].lock = h.lock
          /\ host' = [host EXCEPT ![k.at] = host'[k.at]]
      <3> DEFINE after == [h EXCEPT !.current = k.previous]
      <3>1. after \in HostState /\ after.lock = h.lock
        BY <1>0, <1>1, <1>10, <2>1, <2>2
           DEF Revert, HostState, CommandState, CommandSafe, Serves, Newest, Deploying, Reverting
      <3>2. host' = [host EXCEPT ![k.at] = after] \/ host' = host
        BY <1>10 DEF Revert, Remote, Effect, HostOf, Restarted
      <3> HIDE DEF after
      <3> QED BY <1>0, <2>2, <3>1, <3>2, HostChanges
    <2> QED BY <2>1, <2>3, <2>4, <2>5, <2>6 DEF Worked, HostOf
  <1>11. CASE RevertRestart(c)
    <2>1. k.pc \in SectionPCs
      BY <1>11 DEF RevertRestart, SectionPCs, Deploying, Reverting
    <2>2. k.at \in Hosts /\ h \in HostState
      BY <1>1, <2>1
    <2>3. UNCHANGED <<inventory, planned, strayLocks>>
      BY <1>11 DEF RevertRestart, Remote, NoOtherChange
    <2>4. deployFaults' \in 0 .. MaxDeployFaults
      BY <1>0, <1>11 DEF RevertRestart, Remote, NoOtherChange, Fault, DeployConstants
    <2>5. /\ command'[c] \in CommandState /\ command'[c].at = command[c].at
          /\ command'[c].pc \in SectionPCs
          /\ command' = [command EXCEPT ![c] = command'[c]]
      BY <1>0, <1>1, <1>11, <2>1, <2>2
         DEF RevertRestart, Remote, Proceeds, Refuse, FailAfterSwap, CommandState, HostState,
             SectionPCs, Deploying, Reverting, HostOf
    <2>6. /\ host'[k.at] \in HostState /\ host'[k.at].lock = h.lock
          /\ host' = [host EXCEPT ![k.at] = host'[k.at]]
      <3> DEFINE after == [h EXCEPT !.served = Serves(k.at)]
      <3>1. after \in HostState /\ after.lock = h.lock
        BY <1>0, <1>1, <1>11, <2>1, <2>2
           DEF RevertRestart, HostState, CommandState, CommandSafe, Serves, Newest, Deploying,
               Reverting
      <3>2. host' = [host EXCEPT ![k.at] = after] \/ host' = host
        BY <1>11 DEF RevertRestart, Remote, Effect, HostOf, Restarted
      <3> HIDE DEF after
      <3> QED BY <1>0, <2>2, <3>1, <3>2, HostChanges
    <2> QED BY <2>1, <2>3, <2>4, <2>5, <2>6 DEF Worked, HostOf
  <1>12. CASE RevertProbe(c)
    <2>1. k.pc \in SectionPCs
      BY <1>12 DEF RevertProbe, SectionPCs, Deploying, Reverting
    <2>2. k.at \in Hosts /\ h \in HostState
      BY <1>1, <2>1
    <2>3. UNCHANGED <<inventory, planned, strayLocks>>
      BY <1>12 DEF RevertProbe, Remote, NoOtherChange
    <2>4. deployFaults' \in 0 .. MaxDeployFaults
      BY <1>0, <1>12 DEF RevertProbe, Remote, NoOtherChange, Fault, DeployConstants
    <2>5. /\ command'[c] \in CommandState /\ command'[c].at = command[c].at
          /\ command'[c].pc \in SectionPCs
          /\ command' = [command EXCEPT ![c] = command'[c]]
      BY <1>0, <1>1, <1>12, <2>1, <2>2
         DEF RevertProbe, Remote, Proceeds, Refuse, FailAfterSwap, CommandState, HostState,
             SectionPCs, Deploying, Reverting, HostOf
    <2>6. /\ host'[k.at] \in HostState /\ host'[k.at].lock = h.lock
          /\ host' = [host EXCEPT ![k.at] = host'[k.at]]
      BY <1>0, <1>1, <1>12, <2>1, <2>2
         DEF RevertProbe, Remote, Effect, HostOf, HostState
    <2> QED BY <2>1, <2>3, <2>4, <2>5, <2>6 DEF Worked, HostOf
  <1>13. CASE StopService(c)
    <2>1. k.pc \in SectionPCs
      BY <1>13 DEF StopService, SectionPCs, Deploying, Reverting
    <2>2. k.at \in Hosts /\ h \in HostState
      BY <1>1, <2>1
    <2>3. UNCHANGED <<inventory, planned, strayLocks>>
      BY <1>13 DEF StopService, Remote, NoOtherChange
    <2>4. deployFaults' \in 0 .. MaxDeployFaults
      BY <1>0, <1>13 DEF StopService, Remote, NoOtherChange, Fault, DeployConstants
    <2>5. /\ command'[c] \in CommandState /\ command'[c].at = command[c].at
          /\ command'[c].pc \in SectionPCs
          /\ command' = [command EXCEPT ![c] = command'[c]]
      BY <1>0, <1>1, <1>13, <2>1, <2>2
         DEF StopService, Remote, Proceeds, Refuse, FailAfterSwap, CommandState, HostState,
             SectionPCs, Deploying, Reverting, HostOf
    <2>6. /\ host'[k.at] \in HostState /\ host'[k.at].lock = h.lock
          /\ host' = [host EXCEPT ![k.at] = host'[k.at]]
      <3> DEFINE after == [h EXCEPT !.served = NoRelease]
      <3>1. after \in HostState /\ after.lock = h.lock
        BY <1>0, <1>1, <1>13, <2>1, <2>2
           DEF StopService, HostState, CommandState, CommandSafe, Serves, Newest, Deploying,
               Reverting
      <3>2. host' = [host EXCEPT ![k.at] = after] \/ host' = host
        BY <1>13 DEF StopService, Remote, Effect, HostOf, Restarted
      <3> HIDE DEF after
      <3> QED BY <1>0, <2>2, <3>1, <3>2, HostChanges
    <2> QED BY <2>1, <2>3, <2>4, <2>5, <2>6 DEF Worked, HostOf
  <1>14. CASE RollbackTarget(c)
    <2>1. k.pc \in SectionPCs
      BY <1>14 DEF RollbackTarget, SectionPCs, Deploying, Reverting
    <2>2. k.at \in Hosts /\ h \in HostState
      BY <1>1, <2>1
    <2>3. UNCHANGED <<inventory, planned, strayLocks>>
      BY <1>14 DEF RollbackTarget, Remote, NoOtherChange
    <2>4. deployFaults' \in 0 .. MaxDeployFaults
      BY <1>0, <1>14 DEF RollbackTarget, Remote, NoOtherChange, Fault, DeployConstants
    <2>5. /\ command'[c] \in CommandState /\ command'[c].at = command[c].at
          /\ command'[c].pc \in SectionPCs
          /\ command' = [command EXCEPT ![c] = command'[c]]
      BY <1>0, <1>1, <1>14, <2>1, <2>2
         DEF RollbackTarget, Remote, Proceeds, Refuse, FailAfterSwap, CommandState, HostState,
             SectionPCs, Deploying, Reverting, HostOf
    <2>6. /\ host'[k.at] \in HostState /\ host'[k.at].lock = h.lock
          /\ host' = [host EXCEPT ![k.at] = host'[k.at]]
      BY <1>0, <1>1, <1>14, <2>1, <2>2
         DEF RollbackTarget, Remote, Effect, HostOf, HostState
    <2> QED BY <2>1, <2>3, <2>4, <2>5, <2>6 DEF Worked, HostOf
  <1>15. CASE CheckTarget(c)
    <2>1. k.pc \in SectionPCs
      BY <1>15 DEF CheckTarget, SectionPCs, Deploying, Reverting
    <2>2. k.at \in Hosts /\ h \in HostState
      BY <1>1, <2>1
    <2>3. UNCHANGED <<inventory, planned, strayLocks>>
      BY <1>15 DEF CheckTarget, Remote, NoOtherChange
    <2>4. deployFaults' \in 0 .. MaxDeployFaults
      BY <1>0, <1>15 DEF CheckTarget, Remote, NoOtherChange, Fault, DeployConstants
    <2>5. /\ command'[c] \in CommandState /\ command'[c].at = command[c].at
          /\ command'[c].pc \in SectionPCs
          /\ command' = [command EXCEPT ![c] = command'[c]]
      BY <1>0, <1>1, <1>15, <2>1, <2>2
         DEF CheckTarget, Remote, Proceeds, Refuse, FailAfterSwap, CommandState, HostState,
             SectionPCs, Deploying, Reverting, HostOf
    <2>6. /\ host'[k.at] \in HostState /\ host'[k.at].lock = h.lock
          /\ host' = [host EXCEPT ![k.at] = host'[k.at]]
      BY <1>0, <1>1, <1>15, <2>1, <2>2
         DEF CheckTarget, Remote, Effect, HostOf, HostState
    <2> QED BY <2>1, <2>3, <2>4, <2>5, <2>6 DEF Worked, HostOf
  <1> QED BY <1>2, <1>3, <1>4, <1>5, <1>6, <1>7, <1>8, <1>9, <1>10, <1>11, <1>12, <1>13, <1>14,
             <1>15 DEF HostStep

\* What a command knows of its host stays true in each of its steps.
LEMMA HostStepsSafe ==
    ASSUME DeployConstants, DeployInv, NEW c \in Commands, HostStep(c)
    PROVE WorkedSafely(c)
  <1> DEFINE k == command[c]
             h == host[k.at]
             k1 == command'[c]
             h1 == host'[k.at]
  <1>0. /\ command \in [Commands -> CommandState] /\ host \in [Hosts -> HostState]
        /\ k \in CommandState /\ k.pc \in SectionPCs
    BY DeployStates, HostStepsStay DEF DeployInv
  <1>1. CommandSafe(k) /\ k.at \in Hosts /\ h \in HostState /\ HostSafe(h) /\ SectionSafe(k, h)
    BY <1>0 DEF DeployInv, CommandSafe, SectionPCs, Deploying, Reverting
  <1>2. k1 \in CommandState /\ h1 \in HostState /\ k1.pc \in SectionPCs /\ k1.at = k.at
    BY HostStepsStay DEF Worked
  <1>3. \A r : r \in Releases => r \in Nat /\ r # NoRelease
    BY FS_CardinalityType DEF Releases, NoRelease, DeployConstants
  <1>4. CASE Upload(c)
    <2>1. CommandSafe(k1)
      BY <1>0, <1>1, <1>4
         DEF Upload, Remote, Proceeds, Refuse, FailAfterSwap, CommandState, CommandSafe,
             SectionPCs, Deploying, Reverting, HostOf
    <2>2. HostSafe(h1) /\ (k1.pc = "shipping" => k.release \in h1.verified)
      <3> DEFINE begun == [h EXCEPT !.dirs = @ \cup {k.release}]
                 full == [begun EXCEPT !.verified = @ \cup {k.release}]
      <3>1. k.release \in Releases
        BY <1>1, <1>4 DEF Upload, CommandSafe
      <3>2. begun \in HostState /\ full \in HostState
        BY <1>1, <3>1 DEF HostState
      <3>3. Spare(h.current, h.dirs \cup {k.release})
        <4>1. h.current \in Nat /\ h.dirs \in SUBSET Releases
          BY <1>1, <1>3 DEF HostState, NoRelease
        <4> QED BY <1>1, <3>1, <4>1, SpareGrows DEF HostSafe
      <3>4. HostSafe(begun) /\ HostSafe(full)
        BY <1>1, <3>1, <3>2, <3>3 DEF HostSafe, HostState
      <3>5. \/ h1 = full \/ (h1 \in {begun, h} /\ k1.pc = "unlocking")
        BY <1>0, <1>1, <1>4 DEF Upload, Effect, HostOf, Proceeds, Refuse, CommandState
      <3>6. k.release \in full.verified
        BY <1>1, <3>1 DEF HostState
      <3> HIDE DEF begun, full
      <3> QED BY <1>1, <3>4, <3>5, <3>6
    <2>3. SectionSafe(k1, h1)
      <3>1. k1 \in {[k EXCEPT !.pc = "shipping"], [k EXCEPT !.pc = "unlocking", !.ok = FALSE]}
        BY <1>0, <1>4 DEF Upload, Proceeds, Refuse
      <3>2. k1.release = k.release /\ k1.pc \in {"shipping", "unlocking"}
        BY <1>0, <3>1 DEF CommandState
      <3>3. k1.kind = "deploy"
        BY <1>0, <1>1, <1>4, <3>1 DEF CommandState, CommandSafe, Upload
      <3> QED BY <2>2, <3>2, <3>3 DEF SectionSafe, Deploying
    <2> QED BY <2>1, <2>2, <2>3 DEF WorkedSafely
  <1>5. CASE ShipEnvironment(c)
    <2>1. CommandSafe(k1)
      BY <1>0, <1>1, <1>5
         DEF ShipEnvironment, Remote, Proceeds, Refuse, FailAfterSwap, CommandState, CommandSafe,
             SectionPCs, Deploying, Reverting, HostOf
    <2>2. HostSafe(h1)
      BY <1>0, <1>1, <1>3, <1>5
         DEF ShipEnvironment, Remote, Effect, HostOf, Restarted, HostSafe, HostState,
             CommandState, SectionSafe, CommandSafe, Deploying, Reverting
    <2>3. SectionSafe(k1, h1)
      BY <1>0, <1>1, <1>3, <1>5
         DEF ShipEnvironment, Remote, Proceeds, Refuse, FailAfterSwap, Effect, HostOf,
             Restarted, Serves, Started, HostSafe, HostState, CommandState, CommandSafe,
             SectionSafe, Deploying, Reverting
    <2> QED BY <2>1, <2>2, <2>3 DEF WorkedSafely
  <1>6. CASE ReadCurrent(c)
    <2>1. CommandSafe(k1)
      BY <1>0, <1>1, <1>6
         DEF ReadCurrent, Remote, Proceeds, Refuse, FailAfterSwap, CommandState, CommandSafe,
             SectionPCs, Deploying, Reverting, HostOf
    <2>2. HostSafe(h1)
      BY <1>0, <1>1, <1>3, <1>6
         DEF ReadCurrent, Remote, Effect, HostOf, Restarted, HostSafe, HostState, CommandState,
             SectionSafe, CommandSafe, Deploying, Reverting
    <2>3. SectionSafe(k1, h1)
      BY <1>0, <1>1, <1>3, <1>6
         DEF ReadCurrent, Remote, Proceeds, Refuse, FailAfterSwap, Effect, HostOf, Restarted,
             Serves, Started, HostSafe, HostState, CommandState, CommandSafe, SectionSafe,
             Deploying, Reverting
    <2> QED BY <2>1, <2>2, <2>3 DEF WorkedSafely
  <1>7. CASE SwapCurrent(c)
    <2>1. CommandSafe(k1)
      BY <1>0, <1>1, <1>7
         DEF SwapCurrent, Remote, Proceeds, Refuse, FailAfterSwap, CommandState, CommandSafe,
             SectionPCs, Deploying, Reverting, HostOf
    <2>2. HostSafe(h1) /\ h1.dirs = h.dirs /\ h1.verified = h.verified /\ h1.env = h.env
      <3>1. k.release \in h.dirs
        BY <1>0, <1>1, <1>7
           DEF SwapCurrent, SectionSafe, HostSafe, CommandState, Deploying, SectionPCs
      <3>2. h1 \in {[h EXCEPT !.current = k.release], h}
        BY <1>0, <1>1, <1>7 DEF SwapCurrent, Remote, Effect, HostOf
      <3> QED BY <1>1, <3>1, <3>2 DEF HostSafe, HostState, Spare
    <2>3. SectionSafe(k1, h1)
      <3>1. \/ /\ k1 = [k EXCEPT !.pc = "restarting"]
               /\ h1 = [h EXCEPT !.current = k.release]
            \/ k1 = [k EXCEPT !.pc = "unlocking", !.ok = FALSE]
        BY <1>0, <1>1, <1>7 DEF SwapCurrent, Remote, Effect, HostOf, Proceeds, Refuse
      <3>2. CASE k1.pc = "restarting"
        <4>1. /\ k1.release = k.release /\ k1.kind = k.kind /\ k1.previous = k.previous
              /\ h1.current = k.release
          BY <1>0, <1>1, <3>1, <3>2 DEF CommandState, HostState
        <4>2. k.pc = "swapping"
          BY <1>7 DEF SwapCurrent
        <4> QED BY <1>1, <2>2, <3>2, <4>1, <4>2 DEF SectionSafe, Deploying
      <3>3. CASE k1.pc # "restarting"
        <4>1. k1.pc = "unlocking"
          BY <1>0, <3>1, <3>3 DEF CommandState
        <4> QED BY <4>1 DEF SectionSafe, Deploying
      <3> QED BY <3>2, <3>3
    <2> QED BY <2>1, <2>2, <2>3 DEF WorkedSafely
  <1>8. CASE RestartService(c)
    <2>1. CommandSafe(k1)
      BY <1>0, <1>1, <1>8
         DEF RestartService, Remote, Proceeds, Refuse, FailAfterSwap, CommandState, CommandSafe,
             SectionPCs, Deploying, Reverting, HostOf
    <2>2. HostSafe(h1)
      BY <1>0, <1>1, <1>3, <1>8
         DEF RestartService, Remote, Effect, HostOf, Restarted, HostSafe, HostState, CommandState,
             SectionSafe, CommandSafe, Deploying, Reverting
    <2>3. SectionSafe(k1, h1)
      BY <1>0, <1>1, <1>3, <1>8
         DEF RestartService, Remote, Proceeds, Refuse, FailAfterSwap, Effect, HostOf, Restarted,
             Serves, Started, HostSafe, HostState, CommandState, CommandSafe, SectionSafe,
             Deploying, Reverting
    <2> QED BY <2>1, <2>2, <2>3 DEF WorkedSafely
  <1>9. CASE HealthGate(c)
    <2>1. CommandSafe(k1)
      BY <1>0, <1>1, <1>9
         DEF HealthGate, Remote, Proceeds, Refuse, FailAfterSwap, CommandState, CommandSafe,
             SectionPCs, Deploying, Reverting, HostOf
    <2>2. HostSafe(h1)
      BY <1>0, <1>1, <1>3, <1>9
         DEF HealthGate, Remote, Effect, HostOf, Restarted, HostSafe, HostState, CommandState,
             SectionSafe, CommandSafe, Deploying, Reverting
    <2>3. SectionSafe(k1, h1)
      BY <1>0, <1>1, <1>3, <1>9
         DEF HealthGate, Remote, Proceeds, Refuse, FailAfterSwap, Effect, HostOf, Restarted,
             Serves, Started, HostSafe, HostState, CommandState, CommandSafe, SectionSafe,
             Deploying, Reverting
    <2> QED BY <2>1, <2>2, <2>3 DEF WorkedSafely
  <1>10. CASE AppendLedger(c)
    <2>1. CommandSafe(k1)
      BY <1>0, <1>1, <1>10
         DEF AppendLedger, Remote, Proceeds, Refuse, FailAfterSwap, CommandState, CommandSafe,
             SectionPCs, Deploying, Reverting, HostOf
    <2>2. HostSafe(h1)
      BY <1>0, <1>1, <1>3, <1>10
         DEF AppendLedger, Remote, Effect, HostOf, Restarted, HostSafe, HostState, CommandState,
             SectionSafe, CommandSafe, Deploying, Reverting
    <2>3. SectionSafe(k1, h1)
      BY <1>0, <1>1, <1>3, <1>10
         DEF AppendLedger, Remote, Proceeds, Refuse, FailAfterSwap, Effect, HostOf, Restarted,
             Serves, Started, HostSafe, HostState, CommandState, CommandSafe, SectionSafe,
             Deploying, Reverting
    <2> QED BY <2>1, <2>2, <2>3 DEF WorkedSafely
  <1>11. CASE Prune(c)
    <2>1. CommandSafe(k1)
      BY <1>0, <1>1, <1>11
         DEF Prune, Remote, Proceeds, Refuse, FailAfterSwap, CommandState, CommandSafe,
             SectionPCs, Deploying, Reverting, HostOf
    <2>2. HostSafe(h1)
      <3> DEFINE pruned == [h EXCEPT !.dirs = Newest(h.dirs),
                                     !.verified = @ \cap Newest(h.dirs)]
      <3>1. h1 \in {pruned, h}
        BY <1>0, <1>1, <1>11 DEF Prune, Remote, Effect, HostOf
      <3>2. pruned.dirs = Newest(h.dirs) /\ pruned.current = h.current
            /\ pruned.verified \subseteq Newest(h.dirs)
        BY <1>1 DEF HostState
      <3>3. Spare(h.current, Newest(h.dirs))
        <4>1. h.current \in Nat /\ h.dirs \in SUBSET Releases
          BY <1>1, <1>3 DEF HostState, NoRelease
        <4> QED BY <1>1, <4>1, PruningSpares DEF HostSafe
      <3> HIDE DEF pruned
      <3> QED BY <1>1, <3>1, <3>2, <3>3 DEF HostSafe
    <2>3. SectionSafe(k1, h1)
      BY <1>0, <1>1, <1>3, <1>11
         DEF Prune, Remote, Proceeds, Refuse, FailAfterSwap, Effect, HostOf, Restarted, Serves,
             Started, HostSafe, HostState, CommandState, CommandSafe, SectionSafe, Deploying,
             Reverting
    <2> QED BY <2>1, <2>2, <2>3 DEF WorkedSafely
  <1>12. CASE Revert(c)
    <2>1. CommandSafe(k1)
      BY <1>0, <1>1, <1>12
         DEF Revert, Remote, Proceeds, Refuse, FailAfterSwap, CommandState, CommandSafe,
             SectionPCs, Deploying, Reverting, HostOf
    <2>2. HostSafe(h1)
      BY <1>0, <1>1, <1>3, <1>12
         DEF Revert, Remote, Effect, HostOf, Restarted, HostSafe, HostState, CommandState,
             SectionSafe, CommandSafe, Deploying, Reverting
    <2>3. SectionSafe(k1, h1)
      BY <1>0, <1>1, <1>3, <1>12
         DEF Revert, Remote, Proceeds, Refuse, FailAfterSwap, Effect, HostOf, Restarted, Serves,
             Started, HostSafe, HostState, CommandState, CommandSafe, SectionSafe, Deploying,
             Reverting
    <2> QED BY <2>1, <2>2, <2>3 DEF WorkedSafely
  <1>13. CASE RevertRestart(c)
    <2>1. CommandSafe(k1)
      BY <1>0, <1>1, <1>13
         DEF RevertRestart, Remote, Proceeds, Refuse, FailAfterSwap, CommandState, CommandSafe,
             SectionPCs, Deploying, Reverting, HostOf
    <2>2. HostSafe(h1)
      BY <1>0, <1>1, <1>3, <1>13
         DEF RevertRestart, Remote, Effect, HostOf, Restarted, HostSafe, HostState, CommandState,
             SectionSafe, CommandSafe, Deploying, Reverting
    <2>3. SectionSafe(k1, h1)
      BY <1>0, <1>1, <1>3, <1>13
         DEF RevertRestart, Remote, Proceeds, Refuse, FailAfterSwap, Effect, HostOf, Restarted,
             Serves, Started, HostSafe, HostState, CommandState, CommandSafe, SectionSafe,
             Deploying, Reverting
    <2> QED BY <2>1, <2>2, <2>3 DEF WorkedSafely
  <1>14. CASE RevertProbe(c)
    <2>1. CommandSafe(k1)
      BY <1>0, <1>1, <1>14
         DEF RevertProbe, Remote, Proceeds, Refuse, FailAfterSwap, CommandState, CommandSafe,
             SectionPCs, Deploying, Reverting, HostOf
    <2>2. HostSafe(h1)
      BY <1>0, <1>1, <1>3, <1>14
         DEF RevertProbe, Remote, Effect, HostOf, Restarted, HostSafe, HostState, CommandState,
             SectionSafe, CommandSafe, Deploying, Reverting
    <2>3. SectionSafe(k1, h1)
      BY <1>0, <1>1, <1>3, <1>14
         DEF RevertProbe, Remote, Proceeds, Refuse, FailAfterSwap, Effect, HostOf, Restarted,
             Serves, Started, HostSafe, HostState, CommandState, CommandSafe, SectionSafe,
             Deploying, Reverting
    <2> QED BY <2>1, <2>2, <2>3 DEF WorkedSafely
  <1>15. CASE StopService(c)
    <2>1. CommandSafe(k1)
      BY <1>0, <1>1, <1>15
         DEF StopService, Remote, Proceeds, Refuse, FailAfterSwap, CommandState, CommandSafe,
             SectionPCs, Deploying, Reverting, HostOf
    <2>2. HostSafe(h1)
      BY <1>0, <1>1, <1>3, <1>15
         DEF StopService, Remote, Effect, HostOf, Restarted, HostSafe, HostState, CommandState,
             SectionSafe, CommandSafe, Deploying, Reverting
    <2>3. SectionSafe(k1, h1)
      BY <1>0, <1>1, <1>3, <1>15
         DEF StopService, Remote, Proceeds, Refuse, FailAfterSwap, Effect, HostOf, Restarted,
             Serves, Started, HostSafe, HostState, CommandState, CommandSafe, SectionSafe,
             Deploying, Reverting
    <2> QED BY <2>1, <2>2, <2>3 DEF WorkedSafely
  <1>16. CASE RollbackTarget(c)
    <2>1. CommandSafe(k1)
      BY <1>0, <1>1, <1>16
         DEF RollbackTarget, Remote, Proceeds, Refuse, FailAfterSwap, CommandState, CommandSafe,
             SectionPCs, Deploying, Reverting, HostOf
    <2>2. HostSafe(h1)
      BY <1>0, <1>1, <1>3, <1>16
         DEF RollbackTarget, Remote, Effect, HostOf, Restarted, HostSafe, HostState, CommandState,
             SectionSafe, CommandSafe, Deploying, Reverting
    <2>3. SectionSafe(k1, h1)
      BY <1>0, <1>1, <1>3, <1>16
         DEF RollbackTarget, Remote, Proceeds, Refuse, FailAfterSwap, Effect, HostOf, Restarted,
             Serves, Started, HostSafe, HostState, CommandState, CommandSafe, SectionSafe,
             Deploying, Reverting
    <2> QED BY <2>1, <2>2, <2>3 DEF WorkedSafely
  <1>17. CASE CheckTarget(c)
    <2>1. CommandSafe(k1)
      BY <1>0, <1>1, <1>17
         DEF CheckTarget, Remote, Proceeds, Refuse, FailAfterSwap, CommandState, CommandSafe,
             SectionPCs, Deploying, Reverting, HostOf
    <2>2. HostSafe(h1)
      BY <1>0, <1>1, <1>3, <1>17
         DEF CheckTarget, Remote, Effect, HostOf, Restarted, HostSafe, HostState, CommandState,
             SectionSafe, CommandSafe, Deploying, Reverting
    <2>3. SectionSafe(k1, h1)
      BY <1>0, <1>1, <1>3, <1>17
         DEF CheckTarget, Remote, Proceeds, Refuse, FailAfterSwap, Effect, HostOf, Restarted,
             Serves, Started, HostSafe, HostState, CommandState, CommandSafe, SectionSafe,
             Deploying, Reverting
    <2> QED BY <2>1, <2>2, <2>3 DEF WorkedSafely
  <1> QED BY <1>4, <1>5, <1>6, <1>7, <1>8, <1>9, <1>10, <1>11, <1>12, <1>13, <1>14, <1>15,
             <1>16, <1>17 DEF HostStep

\* A command that is not idle is counted among those that have planned.
LEMMA PlannedGrows ==
    ASSUME DeployConstants, DeployInv, NEW c \in Commands,
           command' = [command EXCEPT ![c] = command'[c]], command'[c].pc # "idle"
    PROVE /\ Cardinality(Planned) \in Nat /\ Cardinality(Planned') \in Nat
          /\ Cardinality(Planned) <= Cardinality(Planned')
          /\ command[c].pc = "idle" => Cardinality(Planned') = Cardinality(Planned) + 1
          /\ Cardinality(Planned') <= Cardinality(Commands)
  <1>1. command \in [Commands -> CommandState]
    BY DeployStates DEF DeployInv
  <1>2. Planned' = Planned \cup {c}
    BY <1>1 DEF Planned
  <1>3. IsFiniteSet(Planned) /\ IsFiniteSet(Planned')
        /\ Cardinality(Planned') <= Cardinality(Commands)
    <2>1. Planned \in SUBSET Commands /\ Planned' \in SUBSET Commands
      BY DEF Planned
    <2> QED BY <2>1, FS_Subset DEF DeployConstants
  <1>4. Cardinality(Planned) \in Nat /\ Cardinality(Planned') \in Nat
    BY <1>3, FS_CardinalityType
  <1>5. Cardinality(Planned') = IF c \in Planned THEN Cardinality(Planned)
                                ELSE Cardinality(Planned) + 1
    BY <1>2, <1>3, FS_AddElement
  <1>6. command[c].pc = "idle" => c \notin Planned
    BY DEF Planned
  <1> QED BY <1>3, <1>4, <1>5, <1>6

\* The invariant when one command moves and no more than its host changes.
LEMMA OneCommandMoves ==
    ASSUME DeployConstants, DeployInv, NEW c \in Commands,
           command' = [command EXCEPT ![c] = command'[c]],
           command'[c] \in CommandState, command'[c].pc # "idle", CommandSafe(command'[c]),
           command[c].at \in Hosts,
           host' = [host EXCEPT ![command[c].at] = host'[command[c].at]],
           host'[command[c].at] \in HostState, HostSafe(host'[command[c].at]),
           \/ host' = host
           \/ command[c].pc \in SectionPCs
           \/ host[command[c].at].lock = Unlocked,
           command'[c].pc \in SectionPCs =>
             /\ command'[c].at = command[c].at /\ host'[command[c].at].lock = c
             /\ SectionSafe(command'[c], host'[command[c].at])
    PROVE /\ command' \in [Commands -> CommandState] /\ host' \in [Hosts -> HostState]
          /\ \A d \in Commands : CommandSafe(command'[d])
          /\ \A h \in Hosts : HostSafe(host'[h])
          /\ LockHeld'
          /\ \A d \in Commands :
               command'[d].pc \in SectionPCs => SectionSafe(command'[d], host'[command'[d].at])
  <1>1. command \in [Commands -> CommandState] /\ host \in [Hosts -> HostState]
    BY DeployStates DEF DeployInv
  <1>2. \A d \in Commands : d # c => command'[d] = command[d]
    BY <1>1
  <1>3. \A h \in Hosts : h # command[c].at => host'[h] = host[h]
    BY <1>1
  <1>4. command' \in [Commands -> CommandState] /\ host' \in [Hosts -> HostState]
    BY <1>1
  <1>5. ASSUME NEW d \in Commands, d # c, command'[d].pc \in SectionPCs
        PROVE /\ host'[command'[d].at].lock = d
              /\ SectionSafe(command'[d], host'[command'[d].at])
    <2>1. /\ command[d].pc \in SectionPCs /\ command'[d] = command[d]
          /\ host[command[d].at].lock = d
          /\ SectionSafe(command[d], host[command[d].at])
          /\ command[d].at \in Hosts
      BY <1>2, <1>5 DEF DeployInv, LockHeld, CommandSafe, SectionPCs, Deploying, Reverting
    <2>2. host'[command[d].at] = host[command[d].at]
      <3>1. CASE command[d].at = command[c].at
        <4>1. host[command[c].at].lock # Unlocked
          BY <2>1, <3>1 DEF DeployConstants
        <4>2. command[c].pc \notin SectionPCs
          BY <1>5, <2>1, <3>1 DEF DeployInv, LockHeld
        <4> QED BY <4>1, <4>2
      <3>2. CASE command[d].at # command[c].at
        BY <1>3, <2>1, <3>2
      <3> QED BY <3>1, <3>2
    <2> QED BY <2>1, <2>2
  <1>6. LockHeld'
    BY <1>5 DEF LockHeld
  <1>7. \A d \in Commands : CommandSafe(command'[d])
    BY <1>2 DEF DeployInv
  <1>8. \A h \in Hosts : HostSafe(host'[h])
    BY <1>3 DEF DeployInv
  <1>9. \A d \in Commands :
          command'[d].pc \in SectionPCs => SectionSafe(command'[d], host'[command'[d].at])
    BY <1>5
  <1> QED BY <1>4, <1>6, <1>7, <1>8, <1>9

\* A plan names a release at most, before any host is reached.
LEMMA PlansKeep ==
    ASSUME DeployConstants, DeployInv, NEW c \in Commands, PlanDeploy(c) \/ PlanRollback(c)
    PROVE DeployInv'
  <1> DEFINE k == command[c]
             k1 == command'[c]
  <1>1. /\ command \in [Commands -> CommandState] /\ host \in [Hosts -> HostState]
        /\ k \in CommandState /\ k.pc = "idle" /\ CommandSafe(k) /\ host' = host
    BY DeployStates DEF DeployInv, PlanDeploy, PlanRollback
  <1>2. /\ command' = [command EXCEPT ![c] = k1] /\ k1.pc = "locking" /\ k1.at = k.at
        /\ PlanDeploy(c) => k1 = [k EXCEPT !.pc = "locking", !.release = planned + 1]
        /\ PlanRollback(c) => k1 = [k EXCEPT !.pc = "locking", !.kind = "rollback"]
    <2>1. /\ PlanDeploy(c) => command' = [command EXCEPT
                                             ![c] = [k EXCEPT !.pc = "locking",
                                                              !.release = planned + 1]]
          /\ PlanRollback(c) => command' = [command EXCEPT
                                               ![c] = [k EXCEPT !.pc = "locking",
                                                                !.kind = "rollback"]]
      BY DEF PlanDeploy, PlanRollback
    <2>2. /\ command' = [command EXCEPT ![c] = k1]
          /\ PlanDeploy(c) => k1 = [k EXCEPT !.pc = "locking", !.release = planned + 1]
          /\ PlanRollback(c) => k1 = [k EXCEPT !.pc = "locking", !.kind = "rollback"]
      BY <1>1, <2>1
    <2> HIDE DEF k, k1
    <2> QED BY <1>1, <2>2 DEF CommandState
  <1>3. /\ Cardinality(Planned) \in Nat /\ Cardinality(Planned') \in Nat
        /\ Cardinality(Planned') = Cardinality(Planned) + 1
        /\ Cardinality(Planned') <= Cardinality(Commands)
    BY <1>1, <1>2, PlannedGrows
  <1>4. /\ planned' \in 0 .. Cardinality(Commands) /\ planned' <= Cardinality(Planned')
        /\ PlanDeploy(c) => planned + 1 \in Releases
    <2>1. planned \in Nat /\ planned <= Cardinality(Planned) /\ planned' \in {planned, planned + 1}
      BY DeployStates DEF DeployInv, PlanDeploy, PlanRollback
    <2>2. Cardinality(Commands) \in Nat
      BY FS_CardinalityType DEF DeployConstants
    <2> QED BY <1>3, <2>1, <2>2 DEF Releases
  <1>5. k1 \in CommandState /\ CommandSafe(k1)
    BY <1>1, <1>2, <1>4
       DEF CommandState, CommandSafe, SectionPCs, Before, Deploying, Reverting
  <1>6. k1.pc \notin SectionPCs
    BY <1>2 DEF SectionPCs, Deploying, Reverting
  <1>7. k.at \in Hosts
    BY <1>1 DEF CommandSafe
  <1>8. host' = [host EXCEPT ![k.at] = host'[k.at]] /\ host'[k.at] \in HostState
        /\ HostSafe(host'[k.at])
    BY <1>1, <1>7 DEF DeployInv
  <1>9. /\ command' \in [Commands -> CommandState] /\ host' \in [Hosts -> HostState]
        /\ \A d \in Commands : CommandSafe(command'[d])
        /\ \A h \in Hosts : HostSafe(host'[h])
        /\ LockHeld'
        /\ \A d \in Commands :
             command'[d].pc \in SectionPCs => SectionSafe(command'[d], host'[command'[d].at])
    BY <1>1, <1>2, <1>5, <1>6, <1>7, <1>8, OneCommandMoves
  <1>10. /\ inventory' = inventory /\ deployFaults' = deployFaults /\ strayLocks' = strayLocks
    BY DEF PlanDeploy, PlanRollback
  <1>11. DeployTypeOK'
    <2>1. /\ inventory \in [Hosts -> Releases \cup {NoRelease}]
          /\ deployFaults \in 0 .. MaxDeployFaults /\ strayLocks \subseteq Hosts
      BY DeployStates DEF DeployInv
    <2> QED BY <1>4, <1>9, <1>10, <2>1, DeployTypedNext
  <1>12. LockHasOwner'
    <2>1. ASSUME NEW h \in Hosts, host[h].lock # Unlocked, h \notin strayLocks
          PROVE host[h].lock # c /\ InSection(host[h].lock)
      BY <1>1, <2>1 DEF DeployInv, LockHasOwner, InSection, Deploying, Reverting
    <2>2. ASSUME NEW d \in Commands, d # c PROVE command'[d] = command[d]
      BY <1>1, <1>2, <2>2
    <2>3. \A h \in Hosts : host[h].lock \in Commands \cup {Unlocked}
      BY <1>1 DEF HostState
    <2> QED BY <1>1, <1>10, <2>1, <2>2, <2>3 DEF DeployInv, LockHasOwner, InSection
  <1> QED BY <1>4, <1>9, <1>11, <1>12 DEF DeployInv

\* What the commands that move leave of the invariant, once the marker is accounted for.
LEMMA DeployInvFrom ==
    ASSUME DeployConstants, DeployInv, NEW c \in Commands,
           command' = [command EXCEPT ![c] = command'[c]], command'[c].pc # "idle",
           command[c].pc # "idle",
           /\ command' \in [Commands -> CommandState] /\ host' \in [Hosts -> HostState]
           /\ \A d \in Commands : CommandSafe(command'[d])
           /\ \A h \in Hosts : HostSafe(host'[h])
           /\ LockHeld'
           /\ \A d \in Commands :
                command'[d].pc \in SectionPCs => SectionSafe(command'[d], host'[command'[d].at]),
           inventory' \in [Hosts -> Releases \cup {NoRelease}], planned' = planned,
           deployFaults' \in 0 .. MaxDeployFaults, strayLocks' \subseteq Hosts,
           LockHasOwner'
    PROVE DeployInv'
  <1>1. planned' \in 0 .. Cardinality(Commands) /\ planned' <= Cardinality(Planned')
    <2>1. planned \in 0 .. Cardinality(Commands) /\ planned <= Cardinality(Planned)
      BY DeployStates DEF DeployInv
    <2>2. /\ Cardinality(Planned) \in Nat /\ Cardinality(Planned') \in Nat
          /\ Cardinality(Planned) <= Cardinality(Planned')
      BY PlannedGrows
    <2> QED BY <2>1, <2>2
  <1>2. DeployTypeOK'
    BY <1>1, DeployTypedNext
  <1> QED BY <1>1, <1>2 DEF DeployInv

\* A step in the section.
LEMMA HostStepsKeep ==
    ASSUME DeployConstants, DeployInv, NEW c \in Commands, HostStep(c) PROVE DeployInv'
  <1> DEFINE k == command[c]
             k1 == command'[c]
  <1>1. k.pc \in SectionPCs /\ Worked(c) /\ WorkedSafely(c)
    BY HostStepsStay, HostStepsSafe
  <1>2. /\ command \in [Commands -> CommandState] /\ host \in [Hosts -> HostState]
        /\ k.at \in Hosts /\ host[k.at].lock = c
        /\ inventory \in [Hosts -> Releases \cup {NoRelease}] /\ strayLocks \subseteq Hosts
    BY <1>1, DeployStates
       DEF DeployInv, LockHeld, CommandSafe, SectionPCs, Deploying, Reverting
  <1>3. k1.pc # "idle" /\ k.pc # "idle"
    BY <1>1 DEF Worked, SectionPCs, Deploying, Reverting
  <1>4. /\ command' \in [Commands -> CommandState] /\ host' \in [Hosts -> HostState]
        /\ \A d \in Commands : CommandSafe(command'[d])
        /\ \A h \in Hosts : HostSafe(host'[h])
        /\ LockHeld'
        /\ \A d \in Commands :
             command'[d].pc \in SectionPCs => SectionSafe(command'[d], host'[command'[d].at])
    BY <1>1, <1>2, <1>3, OneCommandMoves DEF Worked, WorkedSafely, HostOf
  <1>5. LockHasOwner'
    <2>1. \A h \in Hosts : host'[h].lock = host[h].lock
      BY <1>1, <1>2 DEF Worked, HostOf
    <2>2. strayLocks' = strayLocks
      BY <1>1 DEF Worked
    <2>3. ASSUME NEW d, InSection(d), d \in Commands
          PROVE InSection(d)' /\ command'[d].at = command[d].at
      BY <1>1, <1>2, <2>3 DEF Worked, InSection, SectionPCs
    <2>4. \A h \in Hosts : host[h].lock \in Commands \cup {Unlocked}
      BY <1>2 DEF HostState
    <2>5. ASSUME NEW h \in Hosts, host'[h].lock # Unlocked, h \notin strayLocks'
          PROVE command'[host'[h].lock].pc \in SectionPCs /\ command'[host'[h].lock].at = h
      <3> DEFINE d == host[h].lock
      <3>1. d \in Commands /\ InSection(d) /\ command[d].at = h
        BY <2>1, <2>2, <2>4, <2>5 DEF DeployInv, LockHasOwner
      <3> QED BY <2>1, <2>3, <3>1 DEF InSection, SectionPCs
    <2> QED BY <2>5 DEF LockHasOwner, InSection, SectionPCs
  <1>6. /\ inventory' = inventory /\ planned' = planned /\ strayLocks' = strayLocks
        /\ deployFaults' \in 0 .. MaxDeployFaults
        /\ command' = [command EXCEPT ![c] = command'[c]]
    BY <1>1 DEF Worked
  <1> QED BY <1>2, <1>3, <1>4, <1>5, <1>6, DeployInvFrom

\* A host whose marker its owner still explains, after a step of c.
LEMMA OwnersStay ==
    ASSUME DeployInv, NEW c \in Commands, command' = [command EXCEPT ![c] = command'[c]],
           NEW h \in Hosts, host'[h].lock = host[h].lock, host[h].lock # c,
           host'[h].lock # Unlocked, h \notin strayLocks
    PROVE command'[host'[h].lock].pc \in SectionPCs /\ command'[host'[h].lock].at = h
  <1>1. command \in [Commands -> CommandState] /\ host \in [Hosts -> HostState]
    BY DeployStates DEF DeployInv
  <1>2. host[h].lock \in Commands
    BY <1>1 DEF HostState
  <1>3. command'[host[h].lock] = command[host[h].lock]
    BY <1>1, <1>2
  <1>4. InSection(host[h].lock) /\ command[host[h].lock].at = h
    BY DEF DeployInv, LockHasOwner
  <1> QED BY <1>3, <1>4 DEF InSection, SectionPCs

\* The marker is taken, seen, or taken by an answer that is lost.
LEMMA AcquireKeeps ==
    ASSUME DeployConstants, DeployInv, NEW c \in Commands, AcquireLock(c) PROVE DeployInv'
  <1> DEFINE k == command[c]
             at == k.at
             k1 == command'[c]
             locked == [host[at] EXCEPT !.lock = c]
  <1>1. /\ command \in [Commands -> CommandState] /\ host \in [Hosts -> HostState]
        /\ k \in CommandState /\ k.pc = "locking" /\ CommandSafe(k) /\ at \in Hosts
        /\ inventory \in [Hosts -> Releases \cup {NoRelease}] /\ strayLocks \subseteq Hosts
        /\ deployFaults \in 0 .. MaxDeployFaults
    BY DeployStates DEF DeployInv, AcquireLock, CommandSafe
  <1>2. /\ command' = [command EXCEPT ![c] = k1]
        /\ k1 \in {[k EXCEPT !.pc = "uploading"], [k EXCEPT !.pc = "target"],
                   [k EXCEPT !.pc = "failed"]}
        /\ k1.pc = "uploading" => k.kind = "deploy"
        /\ k1.pc = "target" => k.kind = "rollback"
    BY <1>1 DEF AcquireLock, Proceeds, CommandState
  <1>3. k1 \in CommandState /\ CommandSafe(k1) /\ k1.pc # "idle" /\ k1.at = at
    BY <1>1, <1>2
       DEF CommandState, CommandSafe, SectionPCs, Deploying, Reverting, Ended, Before
  <1>4. /\ locked \in HostState /\ locked.lock = c
        /\ locked.dirs = host[at].dirs /\ locked.verified = host[at].verified
        /\ locked.current = host[at].current
    <2>1. host[at] \in HostState /\ c \in Commands \cup {Unlocked}
      BY <1>1
    <2>2. ASSUME NEW h \in HostState
          PROVE /\ [h EXCEPT !.lock = c] \in HostState /\ [h EXCEPT !.lock = c].lock = c
                /\ [h EXCEPT !.lock = c].dirs = h.dirs
                /\ [h EXCEPT !.lock = c].verified = h.verified
                /\ [h EXCEPT !.lock = c].current = h.current
      BY <2>1 DEF HostState
    <2> QED BY <2>1, <2>2
  <1>5. /\ HostSafe(host[at]) /\ HostSafe(locked)
    BY <1>1, <1>4 DEF DeployInv, HostSafe
  <1>6. /\ inventory' = inventory /\ planned' = planned
        /\ \/ /\ host' = [host EXCEPT ![at] = locked] /\ host[at].lock = Unlocked
              /\ k1.pc = "failed" => strayLocks' = strayLocks \cup {at}
              /\ k1.pc # "failed" => strayLocks' = strayLocks
           \/ host' = host /\ k1.pc = "failed" /\ strayLocks' = strayLocks
    BY <1>1 DEF AcquireLock, Effect, LockFree, Proceeds, CommandState
  <1>7. deployFaults' \in 0 .. MaxDeployFaults
    BY <1>1 DEF AcquireLock, Fault, DeployConstants
  <1>8. host' = [host EXCEPT ![at] = host'[at]] /\ host'[at] \in {locked, host[at]}
    <2> HIDE DEF locked
    <2> QED BY <1>1, <1>6
  <1>9. k1.pc \in SectionPCs => /\ k1.at = at /\ host'[at].lock = c
                                /\ SectionSafe(k1, host'[at])
    <2>1. CASE k1.pc \in {"uploading", "target"}
      <3>1. host'[at] = locked
        BY <1>1, <1>6, <2>1
      <3> QED BY <1>3, <1>4, <2>1, <3>1 DEF SectionSafe, Deploying
    <2>2. CASE k1.pc = "failed"
      BY <2>2 DEF SectionPCs, Deploying, Reverting
    <2> QED BY <1>1, <1>2, <2>1, <2>2 DEF CommandState
  <1>10. host'[at] \in HostState /\ HostSafe(host'[at])
    <2>1. host[at] \in HostState
      BY <1>1
    <2> HIDE DEF locked
    <2> QED BY <1>4, <1>5, <1>8, <2>1
  <1>11. host' = host \/ host[at].lock = Unlocked
    BY <1>6
  <1>12. /\ command' \in [Commands -> CommandState] /\ host' \in [Hosts -> HostState]
         /\ \A d \in Commands : CommandSafe(command'[d])
         /\ \A h \in Hosts : HostSafe(host'[h])
         /\ LockHeld'
         /\ \A d \in Commands :
              command'[d].pc \in SectionPCs => SectionSafe(command'[d], host'[command'[d].at])
    <2> HIDE DEF locked
    <2> QED BY <1>1, <1>2, <1>3, <1>8, <1>9, <1>10, <1>11, OneCommandMoves
  <1>13. strayLocks' \subseteq Hosts
    BY <1>1, <1>6
  <1>14. LockHasOwner'
    <2> SUFFICES ASSUME NEW h \in Hosts, host'[h].lock # Unlocked, h \notin strayLocks'
                 PROVE command'[host'[h].lock].pc \in SectionPCs /\ command'[host'[h].lock].at = h
      BY DEF LockHasOwner, InSection, SectionPCs
    <2>1. CASE host'[h] = host[h]
      <3>1. host[h].lock # c
        BY <1>1, <1>6, <2>1 DEF DeployInv, LockHasOwner, InSection, Deploying, Reverting
      <3>2. h \notin strayLocks
        BY <1>6
      <3> QED BY <1>2, <2>1, <3>1, <3>2, OwnersStay
    <2>2. CASE host'[h] # host[h]
      <3>1. h = at /\ host'[at].lock = c /\ k1.pc # "failed"
        <4> HIDE DEF locked
        <4> QED BY <1>1, <1>4, <1>6, <1>8, <2>2
      <3>2. k1.pc \in {"uploading", "target"}
        BY <1>1, <1>2, <3>1 DEF CommandState
      <3> QED BY <1>3, <3>1, <3>2 DEF SectionPCs, Deploying
    <2> QED BY <2>1, <2>2
  <1>15. k.pc # "idle"
    BY <1>1
  <1> QED BY <1>1, <1>2, <1>3, <1>6, <1>7, <1>12, <1>13, <1>14, <1>15, DeployInvFrom

\* The marker is freed, or stays to nobody when the command that frees it is lost.
LEMMA ReleaseKeeps ==
    ASSUME DeployConstants, DeployInv, NEW c \in Commands, ReleaseLock(c) PROVE DeployInv'
  <1> DEFINE k == command[c]
             at == k.at
             k1 == command'[c]
             free == [host[at] EXCEPT !.lock = Unlocked]
  <1>1. /\ command \in [Commands -> CommandState] /\ host \in [Hosts -> HostState]
        /\ k \in CommandState /\ k.pc = "unlocking" /\ CommandSafe(k) /\ at \in Hosts
        /\ inventory \in [Hosts -> Releases \cup {NoRelease}] /\ strayLocks \subseteq Hosts
        /\ deployFaults \in 0 .. MaxDeployFaults
        /\ k.pc \in SectionPCs /\ k.pc # "idle" /\ host[at].lock = c
    BY DeployStates DEF DeployInv, ReleaseLock, CommandSafe, LockHeld, SectionPCs
  <1>2. /\ command' = [command EXCEPT ![c] = k1]
        /\ k1 \in {[k EXCEPT !.pc = "recording"], [k EXCEPT !.pc = "failed"]}
    BY <1>1 DEF ReleaseLock, Proceeds, CommandState
  <1>3. /\ k1 \in CommandState /\ CommandSafe(k1) /\ k1.pc \in {"recording", "failed"}
        /\ k1.pc # "idle" /\ k1.pc \notin SectionPCs
    BY <1>1, <1>2
       DEF CommandState, CommandSafe, SectionPCs, Deploying, Reverting, Ended, Before
  <1>4. /\ free \in HostState /\ free.lock = Unlocked
        /\ free.dirs = host[at].dirs /\ free.verified = host[at].verified
        /\ free.current = host[at].current
    <2>1. host[at] \in HostState
      BY <1>1
    <2>2. ASSUME NEW h \in HostState
          PROVE /\ [h EXCEPT !.lock = Unlocked] \in HostState
                /\ [h EXCEPT !.lock = Unlocked].lock = Unlocked
                /\ [h EXCEPT !.lock = Unlocked].dirs = h.dirs
                /\ [h EXCEPT !.lock = Unlocked].verified = h.verified
                /\ [h EXCEPT !.lock = Unlocked].current = h.current
      BY DEF HostState
    <2> QED BY <2>1, <2>2
  <1>5. /\ HostSafe(host[at]) /\ HostSafe(free)
    BY <1>1, <1>4 DEF DeployInv, HostSafe
  <1>6. /\ inventory' = inventory /\ planned' = planned
        /\ \/ host' = [host EXCEPT ![at] = free] /\ strayLocks' = strayLocks
           \/ host' = host /\ strayLocks' = strayLocks \cup {at}
    BY DEF ReleaseLock, Effect
  <1>7. deployFaults' \in 0 .. MaxDeployFaults
    BY <1>1 DEF ReleaseLock, Fault, DeployConstants
  <1>8. host' = [host EXCEPT ![at] = host'[at]] /\ host'[at] \in {free, host[at]}
    <2> HIDE DEF free
    <2> QED BY <1>1, <1>6
  <1>9. host'[at] \in HostState /\ HostSafe(host'[at])
    <2>1. host[at] \in HostState
      BY <1>1
    <2> HIDE DEF free
    <2> QED BY <1>4, <1>5, <1>8, <2>1
  <1>10. /\ command' \in [Commands -> CommandState] /\ host' \in [Hosts -> HostState]
         /\ \A d \in Commands : CommandSafe(command'[d])
         /\ \A h \in Hosts : HostSafe(host'[h])
         /\ LockHeld'
         /\ \A d \in Commands :
              command'[d].pc \in SectionPCs => SectionSafe(command'[d], host'[command'[d].at])
    BY <1>1, <1>2, <1>3, <1>8, <1>9, OneCommandMoves
  <1>11. strayLocks' \subseteq Hosts
    BY <1>1, <1>6
  <1>12. LockHasOwner'
    <2> SUFFICES ASSUME NEW h \in Hosts, host'[h].lock # Unlocked, h \notin strayLocks'
                 PROVE command'[host'[h].lock].pc \in SectionPCs /\ command'[host'[h].lock].at = h
      BY DEF LockHasOwner, InSection, SectionPCs
    <2>1. h # at
      <3> HIDE DEF free
      <3> QED BY <1>1, <1>4, <1>6
    <2>2. host'[h] = host[h] /\ h \notin strayLocks
      <3> HIDE DEF free
      <3> QED BY <1>1, <1>6, <2>1
    <2>3. host[h].lock # c
      BY <1>1, <2>1, <2>2 DEF DeployInv, LockHasOwner
    <2> QED BY <1>2, <2>2, <2>3, OwnersStay
  <1> QED BY <1>1, <1>2, <1>3, <1>6, <1>7, <1>10, <1>11, <1>12, DeployInvFrom

\* A command whose marker is gone records the host and goes to the next one.
LEMMA RecordKeeps ==
    ASSUME DeployConstants, DeployInv, NEW c \in Commands, RecordInventory(c)
    PROVE DeployInv'
  <1> DEFINE k == command[c]
             at == k.at
             k1 == command'[c]
  <1>1. /\ command \in [Commands -> CommandState] /\ host \in [Hosts -> HostState]
        /\ k \in CommandState /\ k.pc = "recording" /\ CommandSafe(k) /\ at \in Hosts
        /\ inventory \in [Hosts -> Releases \cup {NoRelease}] /\ strayLocks \subseteq Hosts
        /\ deployFaults \in 0 .. MaxDeployFaults /\ k.pc # "idle"
    BY DeployStates DEF DeployInv, RecordInventory, CommandSafe
  <1>2. /\ command' = [command EXCEPT ![c] = k1]
        /\ k1 = [k EXCEPT !.at = at + 1, !.ok = FALSE, !.previous = NoRelease,
                          !.pc = IF at = HostCount THEN "done" ELSE "locking"]
    BY <1>1 DEF RecordInventory, CommandState
  <1>3. /\ k1.pc \in {"done", "locking"} /\ k1.kind = k.kind /\ k1.release = k.release
        /\ k1.at = at + 1 /\ (k1.pc = "done" <=> at = HostCount)
        /\ k1.previous = NoRelease /\ k1.ok = FALSE
    BY <1>1, <1>2 DEF CommandState
  <1>4. at + 1 \in 1 .. HostCount + 1 /\ (at # HostCount => at + 1 \in Hosts)
    BY <1>1 DEF Hosts, DeployConstants
  <1>5. k1 \in CommandState
    BY <1>1, <1>2, <1>4 DEF CommandState, Ended, Before
  <1>6. CommandSafe(k1) /\ k1.pc # "idle" /\ k1.pc \notin SectionPCs
    BY <1>1, <1>3, <1>4 DEF CommandSafe, SectionPCs, Deploying, Reverting
  <1>7. /\ host' = host /\ planned' = planned /\ strayLocks' = strayLocks
        /\ host' = [host EXCEPT ![at] = host'[at]]
        /\ host'[at] \in HostState /\ HostSafe(host'[at])
    BY <1>1 DEF RecordInventory, DeployInv
  <1>8. deployFaults' \in 0 .. MaxDeployFaults
    BY <1>1 DEF RecordInventory, Fault, DeployConstants
  <1>9. inventory' \in [Hosts -> Releases \cup {NoRelease}]
    BY <1>1 DEF RecordInventory, CommandState
  <1>10. /\ command' \in [Commands -> CommandState] /\ host' \in [Hosts -> HostState]
         /\ \A d \in Commands : CommandSafe(command'[d])
         /\ \A h \in Hosts : HostSafe(host'[h])
         /\ LockHeld'
         /\ \A d \in Commands :
              command'[d].pc \in SectionPCs => SectionSafe(command'[d], host'[command'[d].at])
    BY <1>1, <1>2, <1>5, <1>6, <1>7, OneCommandMoves
  <1>11. LockHasOwner'
    <2> SUFFICES ASSUME NEW h \in Hosts, host'[h].lock # Unlocked, h \notin strayLocks'
                 PROVE command'[host'[h].lock].pc \in SectionPCs /\ command'[host'[h].lock].at = h
      BY DEF LockHasOwner, InSection, SectionPCs
    <2>1. host[h].lock # c
      BY <1>1, <1>7 DEF DeployInv, LockHasOwner, InSection, Deploying, Reverting
    <2> QED BY <1>2, <1>7, <2>1, OwnersStay
  <1> QED BY <1>1, <1>2, <1>6, <1>7, <1>8, <1>9, <1>10, <1>11, DeployInvFrom

\* What a killed command holds is a stray marker, unless it had given it back.
LEMMA KillKeeps ==
    ASSUME DeployConstants, DeployInv, NEW c \in Commands, Kill(c) PROVE DeployInv'
  <1> DEFINE k == command[c]
             at == k.at
             k1 == command'[c]
  <1>1. /\ command \in [Commands -> CommandState] /\ host \in [Hosts -> HostState]
        /\ k \in CommandState /\ k.pc \notin Before \cup Ended /\ CommandSafe(k) /\ at \in Hosts
        /\ inventory \in [Hosts -> Releases \cup {NoRelease}] /\ strayLocks \subseteq Hosts
        /\ deployFaults \in 0 .. MaxDeployFaults /\ k.pc # "idle"
    BY DeployStates DEF DeployInv, Kill, CommandSafe, Before, Ended
  <1>2. /\ command' = [command EXCEPT ![c] = k1] /\ k1 = [k EXCEPT !.pc = "killed"]
    BY <1>1 DEF Kill, Proceeds, CommandState
  <1>3. k1 \in CommandState /\ CommandSafe(k1) /\ k1.pc # "idle" /\ k1.pc \notin SectionPCs
    BY <1>1, <1>2
       DEF CommandState, CommandSafe, SectionPCs, Deploying, Reverting, Ended, Before
  <1>4. /\ host' = host /\ planned' = planned /\ inventory' = inventory
        /\ host' = [host EXCEPT ![at] = host'[at]]
        /\ host'[at] \in HostState /\ HostSafe(host'[at])
    BY <1>1 DEF Kill, DeployInv
  <1>5. deployFaults' \in 0 .. MaxDeployFaults
    BY <1>1 DEF Kill, Fault, DeployConstants
  <1>6. /\ strayLocks' \subseteq Hosts /\ strayLocks \subseteq strayLocks'
        /\ k.pc \in SectionPCs => at \in strayLocks'
    BY <1>1 DEF Kill, SectionPCs, Deploying, Reverting
  <1>7. /\ command' \in [Commands -> CommandState] /\ host' \in [Hosts -> HostState]
        /\ \A d \in Commands : CommandSafe(command'[d])
        /\ \A h \in Hosts : HostSafe(host'[h])
        /\ LockHeld'
        /\ \A d \in Commands :
             command'[d].pc \in SectionPCs => SectionSafe(command'[d], host'[command'[d].at])
    BY <1>1, <1>2, <1>3, <1>4, OneCommandMoves
  <1>8. LockHasOwner'
    <2> SUFFICES ASSUME NEW h \in Hosts, host'[h].lock # Unlocked, h \notin strayLocks'
                 PROVE command'[host'[h].lock].pc \in SectionPCs /\ command'[host'[h].lock].at = h
      BY DEF LockHasOwner, InSection, SectionPCs
    <2>1. host[h].lock # c
      BY <1>1, <1>4, <1>6 DEF DeployInv, LockHasOwner, InSection, SectionPCs
    <2> QED BY <1>2, <1>4, <1>6, <2>1, OwnersStay
  <1> QED BY <1>1, <1>2, <1>3, <1>4, <1>5, <1>6, <1>7, <1>8, DeployInvFrom

\* What the operator and systemd do to a host: its marker goes, or its service starts anew.
LEMMA HostMoves ==
    ASSUME DeployConstants, DeployInv, NEW h \in Hosts, ClearStaleLock(h) \/ ServiceRestarts(h)
    PROVE DeployInv'
  <1> DEFINE h0 == host[h]
             h1 == host'[h]
  <1>1. /\ command \in [Commands -> CommandState] /\ host \in [Hosts -> HostState]
        /\ h0 \in HostState /\ HostSafe(h0) /\ strayLocks \subseteq Hosts
    BY DeployStates DEF DeployInv
  <1>2. /\ UNCHANGED <<command, inventory, planned, deployFaults>>
        /\ host' = [host EXCEPT ![h] = h1]
        /\ \/ /\ h1 = [h0 EXCEPT !.lock = Unlocked] /\ strayLocks' = strayLocks \ {h}
              /\ ClearStaleLock(h)
           \/ /\ h1 = [h0 EXCEPT !.served = Started(h0)] /\ strayLocks' = strayLocks
              /\ h0.served # NoRelease
    BY <1>1 DEF ClearStaleLock, ServiceRestarts, Serves, Started
  <1>3. /\ h1 \in HostState /\ h1.dirs = h0.dirs /\ h1.verified = h0.verified
        /\ h1.current = h0.current /\ h1.env = h0.env
        /\ \/ h1.lock = Unlocked /\ h1.served = h0.served /\ ClearStaleLock(h)
           \/ h1.lock = h0.lock /\ h1.served = Started(h0) /\ h0.served # NoRelease
    BY <1>1, <1>2 DEF HostState, Started
  <1>4. host' \in [Hosts -> HostState]
    BY <1>1, <1>2, <1>3
  <1>5. \A g \in Hosts : HostSafe(host'[g])
    <2>1. HostSafe(h1)
      BY <1>1, <1>3 DEF HostSafe
    <2> QED BY <1>1, <1>2, <2>1 DEF DeployInv
  <1>6. ASSUME NEW d \in Commands, command[d].pc \in SectionPCs
        PROVE /\ host'[command[d].at].lock = d
              /\ SectionSafe(command[d], host'[command[d].at])
    <2>1. /\ host[command[d].at].lock = d /\ command[d].at \in Hosts
          /\ SectionSafe(command[d], host[command[d].at])
      BY <1>6 DEF DeployInv, LockHeld, CommandSafe, SectionPCs, Deploying, Reverting
    <2>2. CASE command[d].at # h
      BY <1>1, <1>2, <2>1, <2>2
    <2>3. CASE command[d].at = h
      <3>1. ~ClearStaleLock(h)
        BY <1>6, <2>1, <2>3
           DEF ClearStaleLock, SectionPCs, Deploying, Reverting, Ended, Hosts, DeployConstants
      <3>2. h1.lock = h0.lock /\ h1.served = Started(h0)
        BY <1>3, <3>1
      <3>3. Started(h1) = Started(h0)
        BY <1>3 DEF Started
      <3>4. SectionSafe(command[d], h1)
        BY <1>3, <2>1, <2>3, <3>2, <3>3 DEF SectionSafe, Started
      <3> QED BY <2>1, <2>3, <3>2, <3>4
    <2> QED BY <2>2, <2>3
  <1>7. LockHeld'
    BY <1>2, <1>6 DEF LockHeld
  <1>8. LockHasOwner'
    <2> SUFFICES ASSUME NEW g \in Hosts, host'[g].lock # Unlocked, g \notin strayLocks'
                 PROVE command'[host'[g].lock].pc \in SectionPCs /\ command'[host'[g].lock].at = g
      BY DEF LockHasOwner, InSection, SectionPCs
    <2>1. host'[g].lock = host[g].lock /\ g \notin strayLocks
      <3>1. CASE g = h
        <4>1. host'[g] = h1 /\ h1.lock # Unlocked
          BY <3>1
        <4>2. h1.lock = h0.lock /\ ~(h1.lock = Unlocked)
          BY <1>3, <4>1
        <4>3. strayLocks' = strayLocks
          BY <1>1, <1>2, <4>1 DEF HostState
        <4> QED BY <3>1, <4>1, <4>2, <4>3
      <3>2. CASE g # h
        BY <1>1, <1>2, <3>2
      <3> QED BY <3>1, <3>2
    <2> QED BY <1>2, <2>1 DEF DeployInv, LockHasOwner, InSection, SectionPCs
  <1>9. DeployTypeOK'
    <2>1. /\ inventory \in [Hosts -> Releases \cup {NoRelease}]
          /\ planned \in 0 .. Cardinality(Commands)
          /\ deployFaults \in 0 .. MaxDeployFaults /\ strayLocks' \subseteq Hosts
      BY <1>1, <1>2, DeployStates DEF DeployInv
    <2> QED BY <1>1, <1>2, <1>4, <2>1, DeployTypedNext
  <1> QED BY <1>2, <1>5, <1>6, <1>7, <1>8, <1>9 DEF DeployInv, Planned

\* Nothing is planned, held or served at first.
LEMMA DeployInvInit == ASSUME DeployConstants, DeployInit PROVE DeployInv
  <1>1. Cardinality(Commands) \in Nat
    BY FS_CardinalityType DEF DeployConstants
  <1>2. DeployTypeOK
    <2>1. command \in [Commands -> CommandState]
      BY DEF DeployInit, DeployConstants, CommandState, Before
    <2>2. host \in [Hosts -> HostState]
      BY DEF DeployInit, HostState, NoEntry
    <2>3. /\ inventory \in [Hosts -> Releases \cup {NoRelease}] /\ strayLocks \subseteq Hosts
          /\ planned \in 0 .. Cardinality(Commands) /\ deployFaults \in 0 .. MaxDeployFaults
      BY <1>1 DEF DeployInit, DeployConstants
    <2> QED BY <2>1, <2>2, <2>3, DeployStates
  <1>3. planned <= Cardinality(Planned)
    <2>1. Planned \in SUBSET Commands
      BY DEF Planned
    <2>2. Cardinality(Planned) \in Nat
      BY <2>1, FS_Subset, FS_CardinalityType DEF DeployConstants
    <2> QED BY <2>2 DEF DeployInit
  <1>4. ASSUME NEW c \in Commands PROVE CommandSafe(command[c]) /\ command[c].pc \notin SectionPCs
    BY DEF DeployInit, CommandSafe, SectionPCs, Deploying, Reverting, Hosts, DeployConstants
  <1>5. \A h \in Hosts : HostSafe(host[h]) /\ host[h].lock = Unlocked
    BY DEF DeployInit, HostSafe, Spare
  <1> QED BY <1>2, <1>3, <1>4, <1>5 DEF DeployInv, LockHeld, LockHasOwner

\* The invariant of the deploys and rollbacks is inductive.
THEOREM DeployInvHolds == ASSUME DeployConstants PROVE DeploySafety => []DeployInv
  <1>1. DeployInit => DeployInv
    BY DeployInvInit
  <1>2. DeployInv /\ [DeployNext]_deployVars => DeployInv'
    <2> SUFFICES ASSUME DeployInv, [DeployNext]_deployVars PROVE DeployInv'
      OBVIOUS
    <2>1. CASE UNCHANGED deployVars
      BY <2>1 DEF deployVars, DeployInv, DeployTypeOK, Planned, LockHeld, LockHasOwner, InSection
    <2>2. CASE DeployNext
      BY <2>2, PlansKeep, AcquireKeeps, HostStepsKeep, ReleaseKeeps, RecordKeeps, KillKeeps,
         HostMoves DEF DeployNext
    <2> QED BY <2>1, <2>2
  <1> QED BY <1>1, <1>2, PTL DEF DeploySafety

\* The variables keep their types, whatever fails: no more releases are named than there
\* are commands (deploy_env.go run, planEnvDeploy).
THEOREM DeployTyped == ASSUME DeployConstants PROVE DeploySafety => []DeployTypeOK
  <1>1. DeployInv => DeployTypeOK
    BY DEF DeployInv
  <1> QED BY <1>1, DeployInvHolds, PTL

\* Machines: whatever other commands try meanwhile and wherever one fails or is killed, what
\* passes the health gate is what its command shipped, pruning spares the release the link
\* names, and a marker nobody will remove was left by a kill or a lost answer
\* (release.go AcquireLockCommand, PruneReleasesCommands, deploy_env.go deployHost).
THEOREM DeploysAreConsistent ==
    ASSUME DeployConstants
    PROVE DeploySafety => [](DeployedTogether /\ LiveReleaseKept /\ LockHasOwner)
  <1>1. ASSUME DeployInv PROVE DeployedTogether /\ LiveReleaseKept /\ LockHasOwner
    <2>1. ASSUME NEW c \in Commands, command[c].pc = "logging"
          PROVE LET h == host[command[c].at] IN
                /\ h.current = command[c].release /\ h.served = command[c].release
                /\ command[c].kind = "deploy" => h.env = command[c].release
      <3>1. SectionSafe(command[c], host[command[c].at])
        BY <1>1, <2>1 DEF DeployInv, SectionPCs, Deploying
      <3> QED BY <2>1, <3>1 DEF SectionSafe, Deploying
    <2>2. LiveReleaseKept
      BY <1>1 DEF DeployInv, HostSafe, Spare, LiveReleaseKept
    <2> QED BY <1>1, <2>1, <2>2 DEF DeployInv, DeployedTogether
  <1> QED BY <1>1, DeployInvHolds, PTL

---------------------------------------------------------------------------
(***************************************************************************)
(* The session of the cockpit (OperateSession).  Lives: the writer lock    *)
(* leaves one process, the lane one turn, and only the turn of the lane    *)
(* has calls to run (LivesSafe).  Calls: a call of that turn has no result *)
(* but the one a recovery wrote under it, and a recovery only answers and  *)
(* audits what nobody else does, but for what overlapped keeps (CallsKept).*)
(***************************************************************************)
SessionSafety == SessionInit /\ [][SessionNext]_sessionVars

Laned == {"reading", "asking", "recording", "gating", "auditing", "answering"}
AtCalls == {"recording", "gating", "auditing", "answering"}
RuntimeSafe(r) ==
  /\ runtime[r] # "absent" <=> writer = r
  /\ recovery[r].pc # "none" => runtime[r] # "absent"
  /\ runtime[r] = "opening" => recovery[r].pc # "none"
  /\ recovery[r].pc \in {"none", "reading"} => recovery[r].pending = {}
TurnSafe(t) ==
  /\ Alive(t) => turn[t].on \in Runtimes /\ runtime[turn[t].on] \in {"open", "closing"}
  /\ lane = t <=> turn[t].pc \in Laned
  /\ turn[t].todo # {} <=> turn[t].pc \in AtCalls
LivesSafe == (\A r \in Runtimes : RuntimeSafe(r)) /\ (\A t \in Turns : TurnSafe(t))

Once(b) == IF b THEN 1 ELSE 0
RecordSafe(c) ==
  /\ c > issued => call[c] = Fresh
  /\ call[c].recovered => call[c].recorded /\ call[c].results >= 1
  /\ call[c].results <= 1 + Once(call[c].recovered) /\ call[c].ran <= 1
  /\ c \notin overlapped => call[c].results <= 1 /\ call[c].audits <= 1
\* A call of the running turn, before its turn to be audited: Ahead.
Ahead(t, c) == turn[t].pc # "answering" \/ c # First(turn[t].todo)
TodoSafe(t, c) ==
  /\ c <= issued /\ call[c].results = Once(call[c].recovered)
  /\ turn[t].pc = "recording" => call[c].group = turn[t].todo
  /\ turn[t].pc # "recording" => \A d \in call[c].group : call[d].recorded
  /\ turn[t].pc \in {"recording", "gating"} \/ c # First(turn[t].todo) => call[c].ran = 0
  /\ Ahead(t, c) => call[c].audits <= 1 /\ (c \notin overlapped => call[c].audits = 0)
  /\ c \notin overlapped => ~call[c].recovered
PendingSafe(r, c) ==
  /\ call[c].recorded
  /\ recovery[r].pc = "answering" => ~call[c].recovered
  /\ recovery[r].pc = "auditing" => call[c].recovered /\ call[c].audits <= 1
  /\ c \notin overlapped =>
       /\ recovery[r].pc = "answering" => call[c].results = 0
       /\ recovery[r].pc = "auditing" => call[c].audits = 0
  /\ \A t \in Turns : c \in turn[t].todo =>
       c \in overlapped /\ (recovery[r].pc = "auditing" /\ Ahead(t, c) => call[c].audits = 0)
OpeningSafe(r) ==
  /\ recovery[r].pc = "answering" => Pending \subseteq recovery[r].pending
  /\ recovery[r].pc = "auditing" => Pending = {} /\ Unaudited \subseteq recovery[r].pending
CallsKept ==
  /\ \A c \in Calls : RecordSafe(c)
  /\ \A t \in Turns : /\ turn[t].pc = "recording" => Unrecorded(t) # {}
                      /\ \A c \in turn[t].todo : TodoSafe(t, c)
  /\ \A r \in Runtimes : /\ \A c \in recovery[r].pending : PendingSafe(r, c)
                         /\ runtime[r] = "opening" => OpeningSafe(r)
SessionInv == SessionTypeOK /\ LivesSafe /\ CallsKept

RecoveryState ==
  [pc : {"none", "reading", "answering", "auditing"}, pending : SUBSET Calls]
TurnState ==
  [pc : {"new", "queued", "reading", "asking", "recording", "gating", "auditing", "answering",
         "over"},
   on : Runtimes \cup {Nobody}, todo : SUBSET Calls, cancelled : BOOLEAN]
CallRecord ==
  [recorded : BOOLEAN, audits : 0 .. 2, results : 0 .. 2, ran : 0 .. 2, recovered : BOOLEAN,
   group : SUBSET Calls]
\* The processes, and the turns.
ProcessesTyped ==
  /\ runtime \in [Runtimes -> {"absent", "opening", "open", "closing"}]
  /\ writer \in Runtimes \cup {Nobody} /\ recovery \in [Runtimes -> RecoveryState]
  /\ sessionFaults \in [openings : 0 .. MaxOpenings, mishaps : 0 .. MaxMishaps]
TurnsTyped == turn \in [Turns -> TurnState] /\ lane \in Turns \cup {Nobody}
CallsTyped ==
  call \in [Calls -> CallRecord] /\ issued \in 0 .. MaxCalls /\ overlapped \subseteq Calls

\* The types, as sets of records.
LEMMA SessionStates == SessionTypeOK <=> ProcessesTyped /\ TurnsTyped /\ CallsTyped
  BY DEF SessionTypeOK, ProcessesTyped, TurnsTyped, CallsTyped, RecoveryState, TurnState,
         CallRecord

\* The same of the next state.
LEMMA SessionTypedNext == ASSUME ProcessesTyped', TurnsTyped', CallsTyped' PROVE SessionTypeOK'
  <1>1. (SessionTypeOK <=> ProcessesTyped /\ TurnsTyped /\ CallsTyped)'
    BY SessionStates, PTL
  <1> QED BY <1>1

\* The first of some calls is one of them.
LEMMA FirstIsOne ==
    ASSUME NEW calls \in SUBSET Calls, calls # {}
    PROVE First(calls) \in calls
  <1>1. calls \subseteq Nat
    BY DEF Calls
  <1>2. \E c \in calls : \A d \in calls : c <= d
    BY <1>1, LeastNatural
  <1> QED BY <1>2 DEF First

\* A counter of the bounds stays in them.
LEMMA MishapTyped ==
    ASSUME SessionConstants, ProcessesTyped, Mishap
    PROVE sessionFaults' \in [openings : 0 .. MaxOpenings, mishaps : 0 .. MaxMishaps]
  <1>1. /\ sessionFaults.mishaps \in 0 .. MaxMishaps /\ sessionFaults.mishaps < MaxMishaps
        /\ MaxMishaps \in Nat
    BY DEF Mishap, ProcessesTyped, SessionConstants
  <1>2. sessionFaults.mishaps + 1 \in 0 .. MaxMishaps
    BY <1>1
  <1> QED BY <1>2 DEF Mishap, ProcessesTyped

\* The lives when one turn moves: it keeps, takes or gives back the lane.
LEMMA OneTurnMoves ==
    ASSUME SessionConstants, SessionInv, NEW t \in Turns, UNCHANGED <<runtime, writer, recovery>>,
           turn' = [turn EXCEPT ![t] = turn'[t]], turn'[t] \in TurnState,
           turn'[t].todo # {} <=> turn'[t].pc \in AtCalls,
           turn'[t].pc \notin {"new", "over"} =>
             turn'[t].on \in Runtimes /\ runtime[turn'[t].on] \in {"open", "closing"},
           \/ lane' = lane /\ (turn'[t].pc \in Laned <=> turn[t].pc \in Laned)
           \/ lane = Nobody /\ lane' = t /\ turn'[t].pc \in Laned
           \/ lane = t /\ lane' = Nobody /\ turn'[t].pc \notin Laned
    PROVE LivesSafe' /\ TurnsTyped'
  <1>1. ProcessesTyped /\ TurnsTyped /\ LivesSafe
    BY SessionStates DEF SessionInv
  <1>2. turn' \in [Turns -> TurnState] /\ \A u \in Turns : u # t => turn'[u] = turn[u]
    BY <1>1 DEF TurnsTyped
  <1>3. TurnsTyped'
    BY <1>1, <1>2 DEF TurnsTyped
  <1>4. \A r \in Runtimes : RuntimeSafe(r)'
    BY <1>1 DEF LivesSafe, RuntimeSafe
  <1>5. TurnSafe(t)'
    <2>1. Nobody \notin Turns /\ TurnSafe(t)
      BY <1>1 DEF SessionConstants, LivesSafe
    <2> QED BY <2>1 DEF TurnSafe, Alive
  <1>6. ASSUME NEW u \in Turns, u # t PROVE TurnSafe(u)'
    <2>1. Nobody \notin Turns /\ TurnSafe(u) /\ turn'[u] = turn[u]
      BY <1>1, <1>2, <1>6 DEF SessionConstants, LivesSafe
    <2> QED BY <1>6, <2>1 DEF TurnSafe, Alive
  <1> QED BY <1>3, <1>4, <1>5, <1>6 DEF LivesSafe

\* The lives when a recovery moves: what it reads of the process decides.
LEMMA OneRecoveryMoves ==
    ASSUME SessionConstants, SessionInv, NEW r \in Runtimes,
           recovery' = [recovery EXCEPT ![r] = recovery'[r]], recovery'[r] \in RecoveryState,
           UNCHANGED <<runtime, writer, turn, lane>>,
           sessionFaults' \in [openings : 0 .. MaxOpenings, mishaps : 0 .. MaxMishaps],
           RuntimeSafe(r)'
    PROVE LivesSafe' /\ ProcessesTyped' /\ TurnsTyped'
  <1>1. ProcessesTyped /\ TurnsTyped /\ LivesSafe
    BY SessionStates DEF SessionInv
  <1>2. /\ recovery' \in [Runtimes -> RecoveryState]
        /\ \A q \in Runtimes : q # r => recovery'[q] = recovery[q]
    BY <1>1 DEF ProcessesTyped
  <1>3. ProcessesTyped' /\ TurnsTyped'
    BY <1>1, <1>2 DEF ProcessesTyped, TurnsTyped
  <1>4. ASSUME NEW q \in Runtimes PROVE RuntimeSafe(q)'
    BY <1>1, <1>2 DEF LivesSafe, RuntimeSafe
  <1>5. \A t \in Turns : TurnSafe(t)'
    BY <1>1 DEF LivesSafe, TurnSafe, Alive
  <1> QED BY <1>3, <1>4, <1>5 DEF LivesSafe

\* The calls when no step writes one: a turn keeps its calls or is over, a recovery keeps some
\* of what is left to it.
LEMMA CallsUntouched ==
    ASSUME SessionConstants, SessionInv, UNCHANGED <<call, issued, overlapped>>,
           \A t \in Turns : \/ turn'[t].todo = turn[t].todo /\ turn'[t].pc = turn[t].pc
                            \/ turn'[t].todo = {} /\ turn'[t].pc # "recording",
           \A r \in Runtimes : \/ /\ recovery'[r].pc = recovery[r].pc
                                  /\ recovery'[r].pending \subseteq recovery[r].pending
                               \/ recovery'[r].pending = {},
           \A r \in Runtimes : runtime'[r] = "opening" =>
             \/ runtime[r] = "opening" /\ recovery'[r] = recovery[r]
             \/ recovery'[r].pc = "reading"
    PROVE CallsKept' /\ CallsTyped'
  <1>1. CallsTyped /\ CallsKept
    BY SessionStates DEF SessionInv
  <1>2. CallsTyped'
    BY <1>1 DEF CallsTyped
  <1>3. \A c \in Calls : RecordSafe(c)'
    BY <1>1 DEF CallsKept, RecordSafe
  <1>4. ASSUME NEW t \in Turns
        PROVE /\ (turn[t].pc = "recording" => Unrecorded(t) # {})'
              /\ \A c \in turn'[t].todo : TodoSafe(t, c)'
    <2>1. CASE turn'[t].todo = turn[t].todo /\ turn'[t].pc = turn[t].pc
      <3>1. (turn[t].pc = "recording" => Unrecorded(t) # {})'
        BY <1>1, <2>1 DEF CallsKept, Unrecorded
      <3>2. ASSUME NEW c \in turn'[t].todo PROVE TodoSafe(t, c)'
        BY <1>1, <2>1, <3>2 DEF CallsKept, TodoSafe, Ahead
      <3> QED BY <3>1, <3>2
    <2>2. CASE turn'[t].todo = {} /\ turn'[t].pc # "recording"
      BY <2>2
    <2> QED BY <2>1, <2>2
  <1>5. ASSUME NEW r \in Runtimes, NEW c \in recovery'[r].pending PROVE PendingSafe(r, c)'
    <2>1. c \in recovery[r].pending /\ recovery'[r].pc = recovery[r].pc /\ PendingSafe(r, c)
      BY <1>1, <1>5 DEF CallsKept
    <2>2. ASSUME NEW t \in Turns, c \in turn'[t].todo
          PROVE c \in turn[t].todo /\ (Ahead(t, c)' => Ahead(t, c))
      BY <2>2 DEF Ahead
    <2> QED BY <2>1, <2>2 DEF PendingSafe
  <1>6. ASSUME NEW r \in Runtimes, runtime'[r] = "opening" PROVE OpeningSafe(r)'
    <2>1. CASE runtime[r] = "opening" /\ recovery'[r] = recovery[r]
      BY <1>1, <2>1 DEF CallsKept, OpeningSafe, Pending, Unaudited
    <2>2. CASE recovery'[r].pc = "reading"
      BY <2>2 DEF OpeningSafe
    <2> QED BY <1>6, <2>1, <2>2
  <1> QED BY <1>2, <1>3, <1>4, <1>5, <1>6 DEF CallsKept

\* Nobody opens the session but who finds the lock free: opening and resuming keep the
\* invariant.
LEMMA OpeningsKeep ==
    ASSUME SessionConstants, SessionInv, NEW r \in Runtimes, Open(r) \/ Resume(r)
    PROVE SessionInv'
  <1>1. ProcessesTyped /\ TurnsTyped /\ LivesSafe
    BY SessionStates DEF SessionInv
  <1>2. /\ recovery' = [recovery EXCEPT ![r].pc = "reading"]
        /\ sessionFaults' = [sessionFaults EXCEPT !.openings = @ + 1]
        /\ sessionFaults.openings < MaxOpenings
        /\ UNCHANGED <<turn, lane, call, issued, overlapped>>
    BY DEF Open, Resume, StartsRecovery
  <1>3. recovery[r].pc = "none" /\ recovery[r].pending = {}
    BY <1>1 DEF LivesSafe, RuntimeSafe, Open, Resume, ProcessesTyped, RecoveryState
  <1>4. /\ recovery' = [recovery EXCEPT ![r] = recovery'[r]] /\ recovery'[r] \in RecoveryState
        /\ recovery'[r].pc = "reading" /\ recovery'[r].pending = {}
    <2>1. recovery[r] \in RecoveryState
      BY <1>1 DEF ProcessesTyped
    <2> QED BY <1>1, <1>2, <1>3, <2>1 DEF ProcessesTyped, RecoveryState
  <1>5. \A q \in Runtimes : q # r => recovery'[q] = recovery[q]
    BY <1>1, <1>4 DEF ProcessesTyped
  <1>6. sessionFaults' \in [openings : 0 .. MaxOpenings, mishaps : 0 .. MaxMishaps]
    <2>1. sessionFaults.openings + 1 \in 0 .. MaxOpenings
      BY <1>1, <1>2 DEF ProcessesTyped, SessionConstants
    <2> QED BY <1>1, <1>2, <2>1 DEF ProcessesTyped
  <1>7. CallsKept' /\ CallsTyped'
    <2>1. \A q \in Runtimes : runtime'[q] = "opening" =>
            \/ runtime[q] = "opening" /\ recovery'[q] = recovery[q]
            \/ recovery'[q].pc = "reading"
      BY <1>1, <1>4, <1>5 DEF Open, Resume, ProcessesTyped
    <2>2. \A q \in Runtimes : \/ /\ recovery'[q].pc = recovery[q].pc
                                 /\ recovery'[q].pending \subseteq recovery[q].pending
                              \/ recovery'[q].pending = {}
      BY <1>4, <1>5
    <2> QED BY <1>2, <2>1, <2>2, CallsUntouched
  <1>8. LivesSafe' /\ ProcessesTyped' /\ TurnsTyped'
    <2>1. CASE Resume(r)
      <3>1. RuntimeSafe(r)'
        BY <1>1, <1>4, <2>1 DEF LivesSafe, RuntimeSafe, Resume
      <3> QED BY <1>2, <1>4, <1>6, <2>1, <3>1, OneRecoveryMoves DEF Resume
    <2>2. CASE Open(r)
      <3>1. /\ runtime' = [runtime EXCEPT ![r] = "opening"] /\ writer = Nobody /\ writer' = r
            /\ Nobody \notin Runtimes
        BY <2>2 DEF Open, SessionConstants
      <3>2. /\ runtime'[r] = "opening"
            /\ \A q \in Runtimes : q # r => runtime'[q] = runtime[q]
            /\ runtime' \in [Runtimes -> {"absent", "opening", "open", "closing"}]
        BY <1>1, <3>1 DEF ProcessesTyped
      <3>3. ProcessesTyped' /\ TurnsTyped'
        BY <1>1, <1>2, <1>4, <1>6, <3>1, <3>2 DEF ProcessesTyped, TurnsTyped
      <3>4. \A q \in Runtimes : runtime[q] = "absent"
        BY <1>1, <3>1 DEF LivesSafe, RuntimeSafe
      <3>5. ASSUME NEW q \in Runtimes PROVE RuntimeSafe(q)'
        BY <1>1, <1>4, <1>5, <3>1, <3>2, <3>4 DEF LivesSafe, RuntimeSafe
      <3>6. ASSUME NEW t \in Turns PROVE TurnSafe(t)'
        BY <1>1, <1>2, <3>4 DEF LivesSafe, TurnSafe, Alive
      <3> QED BY <3>3, <3>5, <3>6 DEF LivesSafe
    <2> QED BY <2>1, <2>2
  <1> QED BY <1>7, <1>8, SessionTypedNext DEF SessionInv

\* A recovery that gives up keeps the invariant: an opening gives the lock back.
LEMMA GiveUpKeeps ==
    ASSUME SessionConstants, SessionInv, NEW r \in Runtimes, recovery[r].pc # "none",
           Mishap, GiveUp(r)
    PROVE SessionInv'
  <1>1. ProcessesTyped /\ TurnsTyped /\ LivesSafe
    BY SessionStates DEF SessionInv
  <1>2. /\ recovery' = [recovery EXCEPT ![r] = Idle]
        /\ UNCHANGED <<turn, lane, call, issued, overlapped>>
    BY DEF GiveUp
  <1>3. /\ recovery' = [recovery EXCEPT ![r] = recovery'[r]] /\ recovery'[r] \in RecoveryState
        /\ recovery'[r].pc = "none" /\ recovery'[r].pending = {}
        /\ \A q \in Runtimes : q # r => recovery'[q] = recovery[q]
    BY <1>1, <1>2 DEF ProcessesTyped, RecoveryState, Idle
  <1>4. sessionFaults' \in [openings : 0 .. MaxOpenings, mishaps : 0 .. MaxMishaps]
    BY <1>1, MishapTyped
  <1>5. /\ \A q \in Runtimes : q # r => runtime'[q] = runtime[q]
        /\ runtime' \in [Runtimes -> {"absent", "opening", "open", "closing"}]
        /\ runtime[r] = "opening" => runtime'[r] = "absent" /\ writer' = Nobody
        /\ runtime[r] # "opening" => runtime' = runtime /\ writer' = writer
    BY <1>1 DEF GiveUp, ProcessesTyped
  <1>6. CallsKept' /\ CallsTyped'
    <2>1. \A q \in Runtimes : runtime'[q] = "opening" =>
            runtime[q] = "opening" /\ recovery'[q] = recovery[q]
      BY <1>3, <1>5
    <2>2. \A q \in Runtimes : \/ /\ recovery'[q].pc = recovery[q].pc
                                 /\ recovery'[q].pending \subseteq recovery[q].pending
                              \/ recovery'[q].pending = {}
      BY <1>3
    <2> QED BY <1>2, <2>1, <2>2, CallsUntouched
  <1>7. ProcessesTyped' /\ TurnsTyped'
    BY <1>1, <1>2, <1>3, <1>4, <1>5 DEF ProcessesTyped, TurnsTyped
  <1>8. ASSUME NEW q \in Runtimes PROVE RuntimeSafe(q)'
    <2>1. RuntimeSafe(q) /\ RuntimeSafe(r) /\ Nobody \notin Runtimes
      BY <1>1 DEF LivesSafe, SessionConstants
    <2> QED BY <1>3, <1>5, <2>1 DEF RuntimeSafe
  <1>9. ASSUME NEW t \in Turns PROVE TurnSafe(t)'
    BY <1>1, <1>2, <1>5 DEF LivesSafe, TurnSafe, Alive
  <1> QED BY <1>6, <1>7, <1>8, <1>9, SessionTypedNext DEF SessionInv, LivesSafe

\* Opened keeps the invariant.
LEMMA OpenedKeeps ==
    ASSUME SessionConstants, SessionInv, NEW r \in Runtimes, Opened(r)
    PROVE SessionInv'
  <1>1. ProcessesTyped /\ TurnsTyped /\ LivesSafe
    BY SessionStates DEF SessionInv
  <1>2. /\ recovery' = [recovery EXCEPT ![r] = Idle] /\ recovery[r].pc = "auditing"
        /\ UNCHANGED <<writer, turn, lane, call, issued, sessionFaults, overlapped>>
    BY DEF Opened
  <1>3. /\ recovery'[r] \in RecoveryState /\ recovery' \in [Runtimes -> RecoveryState]
        /\ recovery'[r].pc = "none" /\ recovery'[r].pending = {}
        /\ \A q \in Runtimes : q # r => recovery'[q] = recovery[q]
    BY <1>1, <1>2 DEF ProcessesTyped, RecoveryState, Idle
  <1>4. /\ \A q \in Runtimes : q # r => runtime'[q] = runtime[q]
        /\ runtime' \in [Runtimes -> {"absent", "opening", "open", "closing"}]
        /\ runtime[r] = "opening" => runtime'[r] = "open"
        /\ runtime[r] # "opening" => runtime'[r] = runtime[r]
    BY <1>1 DEF Opened, ProcessesTyped
  <1>5. CallsKept' /\ CallsTyped'
    <2>1. \A q \in Runtimes : runtime'[q] = "opening" =>
            runtime[q] = "opening" /\ recovery'[q] = recovery[q]
      BY <1>3, <1>4
    <2>2. \A q \in Runtimes : \/ /\ recovery'[q].pc = recovery[q].pc
                                 /\ recovery'[q].pending \subseteq recovery[q].pending
                              \/ recovery'[q].pending = {}
      BY <1>3
    <2> QED BY <1>2, <2>1, <2>2, CallsUntouched
  <1>6. ProcessesTyped' /\ TurnsTyped'
    BY <1>1, <1>2, <1>3, <1>4 DEF ProcessesTyped, TurnsTyped
  <1>7. ASSUME NEW q \in Runtimes PROVE RuntimeSafe(q)'
    <2>1. RuntimeSafe(q) /\ RuntimeSafe(r)
      BY <1>1 DEF LivesSafe
    <2> QED BY <1>2, <1>3, <1>4, <2>1 DEF RuntimeSafe
  <1>8. ASSUME NEW t \in Turns PROVE TurnSafe(t)'
    BY <1>1, <1>2, <1>4 DEF LivesSafe, TurnSafe, Alive
  <1> QED BY <1>5, <1>6, <1>7, <1>8, SessionTypedNext DEF SessionInv, LivesSafe

\* Cancelled turns are what they were but for their context.
LEMMA Cancelled ==
    ASSUME TurnsTyped, NEW r \in Runtimes, CancelTurns(r)
    PROVE /\ turn' \in [Turns -> TurnState]
          /\ \A t \in Turns : /\ turn'[t].pc = turn[t].pc /\ turn'[t].on = turn[t].on
                              /\ turn'[t].todo = turn[t].todo
  <1>1. ASSUME NEW t \in Turns
        PROVE /\ turn'[t] \in TurnState /\ turn'[t].pc = turn[t].pc
              /\ turn'[t].on = turn[t].on /\ turn'[t].todo = turn[t].todo
    <2>1. turn[t] \in TurnState
      BY DEF TurnsTyped
    <2>2. turn'[t] = turn[t] \/ turn'[t] = [turn[t] EXCEPT !.cancelled = TRUE]
      BY DEF CancelTurns
    <2> QED BY <2>1, <2>2 DEF TurnState
  <1>2. turn' = [t \in Turns |-> turn'[t]]
    BY DEF CancelTurns
  <1> QED BY <1>1, <1>2

\* Interrupt and Close keep the invariant: neither frees the lock nor the lane.
LEMMA CancelsKeep ==
    ASSUME SessionConstants, SessionInv, NEW r \in Runtimes, Interrupt(r) \/ Close(r)
    PROVE SessionInv'
  <1>1. ProcessesTyped /\ TurnsTyped /\ LivesSafe
    BY SessionStates DEF SessionInv
  <1>2. /\ runtime[r] = "open" /\ CancelTurns(r)
        /\ UNCHANGED <<writer, recovery, lane, call, issued, sessionFaults, overlapped>>
    BY DEF Interrupt, Close
  <1>3. /\ turn' \in [Turns -> TurnState]
        /\ \A t \in Turns : /\ turn'[t].pc = turn[t].pc /\ turn'[t].on = turn[t].on
                            /\ turn'[t].todo = turn[t].todo
    BY <1>1, <1>2, Cancelled
  <1>4. /\ \A q \in Runtimes : q # r => runtime'[q] = runtime[q]
        /\ runtime' \in [Runtimes -> {"absent", "opening", "open", "closing"}]
        /\ runtime'[r] \in {"open", "closing"}
    BY <1>1, <1>2 DEF Interrupt, Close, ProcessesTyped
  <1>5. CallsKept' /\ CallsTyped'
    <2>1. \A q \in Runtimes : runtime'[q] = "opening" =>
            runtime[q] = "opening" /\ recovery'[q] = recovery[q]
      BY <1>2, <1>4
    <2>2. \A q \in Runtimes : /\ recovery'[q].pc = recovery[q].pc
                              /\ recovery'[q].pending \subseteq recovery[q].pending
      BY <1>2
    <2> QED BY <1>2, <1>3, <2>1, <2>2, CallsUntouched
  <1>6. ProcessesTyped' /\ TurnsTyped'
    BY <1>1, <1>2, <1>3, <1>4 DEF ProcessesTyped, TurnsTyped
  <1>7. ASSUME NEW q \in Runtimes PROVE RuntimeSafe(q)'
    <2>1. RuntimeSafe(q) /\ RuntimeSafe(r)
      BY <1>1 DEF LivesSafe
    <2> QED BY <1>2, <1>4, <2>1 DEF RuntimeSafe
  <1>8. ASSUME NEW t \in Turns PROVE TurnSafe(t)'
    <2>1. TurnSafe(t)
      BY <1>1 DEF LivesSafe
    <2> QED BY <1>2, <1>3, <1>4, <2>1 DEF TurnSafe, Alive
  <1> QED BY <1>5, <1>6, <1>7, <1>8, SessionTypedNext DEF SessionInv, LivesSafe

\* Closed keeps the invariant: it waited for every turn of its process and for its recovery.
LEMMA ClosedKeeps ==
    ASSUME SessionConstants, SessionInv, NEW r \in Runtimes, Closed(r)
    PROVE SessionInv'
  <1>1. ProcessesTyped /\ TurnsTyped /\ LivesSafe
    BY SessionStates DEF SessionInv
  <1>2. /\ runtime[r] = "closing" /\ recovery[r].pc = "none" /\ TurnsOf(r) = {}
        /\ runtime' = [runtime EXCEPT ![r] = "absent"] /\ writer' = Nobody
        /\ UNCHANGED <<recovery, turn, lane, call, issued, sessionFaults, overlapped>>
    BY DEF Closed, Joined
  <1>3. /\ \A q \in Runtimes : q # r => runtime'[q] = runtime[q]
        /\ runtime' \in [Runtimes -> {"absent", "opening", "open", "closing"}]
        /\ runtime'[r] = "absent"
    BY <1>1, <1>2 DEF ProcessesTyped
  <1>4. CallsKept' /\ CallsTyped'
    <2>1. \A q \in Runtimes : runtime'[q] = "opening" =>
            runtime[q] = "opening" /\ recovery'[q] = recovery[q]
      BY <1>2, <1>3
    <2> QED BY <1>2, <2>1, CallsUntouched
  <1>5. ProcessesTyped' /\ TurnsTyped'
    BY <1>1, <1>2, <1>3 DEF ProcessesTyped, TurnsTyped
  <1>6. ASSUME NEW q \in Runtimes PROVE RuntimeSafe(q)'
    <2>1. RuntimeSafe(q) /\ RuntimeSafe(r) /\ Nobody \notin Runtimes
      BY <1>1 DEF LivesSafe, SessionConstants
    <2> QED BY <1>2, <1>3, <2>1 DEF RuntimeSafe
  <1>7. ASSUME NEW t \in Turns PROVE TurnSafe(t)'
    <2>1. TurnSafe(t) /\ (Alive(t) => turn[t].on # r)
      BY <1>1, <1>2 DEF LivesSafe, TurnsOf
    <2> QED BY <1>2, <1>3, <2>1 DEF TurnSafe, Alive
  <1> QED BY <1>4, <1>5, <1>6, <1>7, SessionTypedNext DEF SessionInv, LivesSafe

\* The death of a process keeps the invariant: its turns, its recovery and its lock go with it.
LEMMA CrashKeeps ==
    ASSUME SessionConstants, SessionInv, NEW r \in Runtimes, Crash(r)
    PROVE SessionInv'
  <1>1. ProcessesTyped /\ TurnsTyped /\ LivesSafe
    BY SessionStates DEF SessionInv
  <1>2. /\ runtime[r] # "absent" /\ Mishap /\ runtime' = [runtime EXCEPT ![r] = "absent"]
        /\ writer' = (IF writer = r THEN Nobody ELSE writer)
        /\ recovery' = [recovery EXCEPT ![r] = Idle]
        /\ turn' = [t \in Turns |-> IF t \in TurnsOf(r) THEN Done ELSE turn[t]]
        /\ lane' = (IF lane \in TurnsOf(r) THEN Nobody ELSE lane)
        /\ UNCHANGED <<call, issued, overlapped>>
    BY DEF Crash
  <1>3. /\ recovery' \in [Runtimes -> RecoveryState]
        /\ recovery'[r].pc = "none" /\ recovery'[r].pending = {}
        /\ \A q \in Runtimes : q # r => recovery'[q] = recovery[q]
    BY <1>1, <1>2 DEF ProcessesTyped, RecoveryState, Idle
  <1>4. /\ \A q \in Runtimes : q # r => runtime'[q] = runtime[q]
        /\ runtime' \in [Runtimes -> {"absent", "opening", "open", "closing"}]
        /\ runtime'[r] = "absent"
    BY <1>1, <1>2 DEF ProcessesTyped
  <1>5. sessionFaults' \in [openings : 0 .. MaxOpenings, mishaps : 0 .. MaxMishaps]
    BY <1>1, <1>2, MishapTyped
  <1>6. /\ Done \in TurnState /\ Done.pc = "over" /\ Done.todo = {}
    BY DEF Done, NewTurn, TurnState
  <1>7. /\ turn' \in [Turns -> TurnState]
        /\ \A t \in Turns : turn'[t] = (IF t \in TurnsOf(r) THEN Done ELSE turn[t])
    BY <1>1, <1>2, <1>6 DEF TurnsTyped
  <1>8. CallsKept' /\ CallsTyped'
    <2>1. \A q \in Runtimes : runtime'[q] = "opening" =>
            runtime[q] = "opening" /\ recovery'[q] = recovery[q]
      BY <1>3, <1>4
    <2>2. \A q \in Runtimes : \/ /\ recovery'[q].pc = recovery[q].pc
                                 /\ recovery'[q].pending \subseteq recovery[q].pending
                              \/ recovery'[q].pending = {}
      BY <1>3
    <2>3. \A t \in Turns : \/ turn'[t].todo = turn[t].todo /\ turn'[t].pc = turn[t].pc
                           \/ turn'[t].todo = {} /\ turn'[t].pc # "recording"
      BY <1>6, <1>7
    <2> QED BY <1>2, <2>1, <2>2, <2>3, CallsUntouched
  <1>9. ProcessesTyped' /\ TurnsTyped'
    BY <1>1, <1>2, <1>3, <1>4, <1>5, <1>7 DEF ProcessesTyped, TurnsTyped
  <1>10. ASSUME NEW q \in Runtimes PROVE RuntimeSafe(q)'
    <2>1. RuntimeSafe(q) /\ RuntimeSafe(r) /\ Nobody \notin Runtimes
      BY <1>1 DEF LivesSafe, SessionConstants
    <2> QED BY <1>2, <1>3, <1>4, <2>1 DEF RuntimeSafe
  <1>11. ASSUME NEW t \in Turns PROVE TurnSafe(t)'
    <2>1. TurnSafe(t) /\ Nobody \notin Turns
      BY <1>1 DEF LivesSafe, SessionConstants
    <2>2. CASE t \in TurnsOf(r)
      BY <1>2, <1>6, <1>7, <2>1, <2>2 DEF TurnSafe, Alive, Laned, AtCalls
    <2>3. CASE t \notin TurnsOf(r)
      <3>1. turn'[t] = turn[t] /\ (Alive(t) => turn[t].on # r)
        BY <1>7, <2>3 DEF TurnsOf
      <3>2. lane' = t <=> lane = t
        BY <1>2, <2>1, <2>3
      <3> QED BY <1>4, <2>1, <3>1, <3>2 DEF TurnSafe, Alive
    <2> QED BY <2>2, <2>3
  <1> QED BY <1>8, <1>9, <1>10, <1>11, SessionTypedNext DEF SessionInv, LivesSafe

\* What a turn knows of itself before it moves.
LEMMA TurnStands ==
    ASSUME SessionInv, NEW t \in Turns
    PROVE /\ ProcessesTyped /\ TurnsTyped /\ CallsTyped /\ LivesSafe /\ CallsKept
          /\ turn[t] \in TurnState /\ TurnSafe(t)
  BY SessionStates DEF SessionInv, TurnsTyped, LivesSafe

\* A turn without calls waits, takes the lane, reads, asks or ends: the invariant is kept.
LEMMA TurnMovesWithoutCalls ==
    ASSUME SessionConstants, SessionInv, NEW t \in Turns,
           UNCHANGED <<runtime, writer, recovery, call, issued, overlapped>>,
           sessionFaults' \in [openings : 0 .. MaxOpenings, mishaps : 0 .. MaxMishaps],
           turn' = [turn EXCEPT ![t] = turn'[t]], turn'[t] \in TurnState,
           turn'[t].todo = {}, turn'[t].pc \notin AtCalls,
           turn'[t].pc \notin {"new", "over"} =>
             turn'[t].on \in Runtimes /\ runtime[turn'[t].on] \in {"open", "closing"},
           \/ lane' = lane /\ (turn'[t].pc \in Laned <=> turn[t].pc \in Laned)
           \/ lane = Nobody /\ lane' = t /\ turn'[t].pc \in Laned
           \/ lane = t /\ lane' = Nobody /\ turn'[t].pc \notin Laned
    PROVE SessionInv'
  <1>1. ProcessesTyped /\ TurnsTyped
    BY TurnStands
  <1>2. LivesSafe' /\ TurnsTyped'
    BY OneTurnMoves
  <1>3. ProcessesTyped'
    BY <1>1 DEF ProcessesTyped
  <1>4. \A u \in Turns : \/ turn'[u].todo = turn[u].todo /\ turn'[u].pc = turn[u].pc
                         \/ turn'[u].todo = {} /\ turn'[u].pc # "recording"
    <2>1. \A u \in Turns : u # t => turn'[u] = turn[u]
      BY <1>1 DEF TurnsTyped
    <2> QED BY <2>1 DEF AtCalls
  <1>5. CallsKept' /\ CallsTyped'
    BY <1>4, CallsUntouched
  <1> QED BY <1>2, <1>3, <1>5, SessionTypedNext DEF SessionInv

\* A turn that ends gives the lane back.
LEMMA OverKeeps ==
    ASSUME SessionConstants, SessionInv, NEW t \in Turns, turn[t].pc \in Laned, Over(t),
           UNCHANGED <<runtime, writer, recovery, call, issued, overlapped>>,
           sessionFaults' = sessionFaults \/ Mishap
    PROVE SessionInv'
  <1>1. ProcessesTyped /\ TurnsTyped /\ TurnSafe(t)
    BY TurnStands
  <1>2. /\ Done \in TurnState /\ Done.pc = "over" /\ Done.todo = {}
    BY DEF Done, NewTurn, TurnState
  <1>3. turn' = [turn EXCEPT ![t] = turn'[t]] /\ turn'[t] = Done /\ lane' = Nobody /\ lane = t
    BY <1>1 DEF Over, TurnsTyped, TurnSafe
  <1>4. sessionFaults' \in [openings : 0 .. MaxOpenings, mishaps : 0 .. MaxMishaps]
    BY <1>1, MishapTyped DEF ProcessesTyped
  <1> QED BY <1>2, <1>3, <1>4, TurnMovesWithoutCalls DEF AtCalls, Laned

\* Prompt, TakeLane, LeaveQueue, ReadHistory and EndTurn keep the invariant.
LEMMA TurnsKeep ==
    ASSUME SessionConstants, SessionInv, NEW t \in Turns,
           \/ \E r \in Runtimes : Prompt(t, r)
           \/ TakeLane(t) \/ LeaveQueue(t) \/ ReadHistory(t) \/ EndTurn(t)
    PROVE SessionInv'
  <1>1. ProcessesTyped /\ TurnsTyped /\ TurnSafe(t) /\ turn[t] \in TurnState
    BY TurnStands
  <1>2. UNCHANGED <<runtime, writer, recovery, call, issued, sessionFaults, overlapped>>
    BY DEF Prompt, TakeLane, LeaveQueue, ReadHistory, EndTurn
  <1>3. sessionFaults' \in [openings : 0 .. MaxOpenings, mishaps : 0 .. MaxMishaps]
    BY <1>1, <1>2 DEF ProcessesTyped
  <1>4. ASSUME NEW r \in Runtimes, Prompt(t, r) PROVE SessionInv'
    <2>1. /\ turn' = [turn EXCEPT ![t] = turn'[t]] /\ turn'[t] \in TurnState
          /\ turn'[t].pc = "queued" /\ turn'[t].on = r /\ turn'[t].todo = turn[t].todo
      BY <1>1, <1>4 DEF Prompt, TurnsTyped, TurnState
    <2>2. turn[t].pc = "new" /\ turn[t].todo = {} /\ runtime[r] = "open" /\ lane' = lane
      BY <1>1, <1>4 DEF Prompt, TurnSafe, AtCalls
    <2> QED BY <1>2, <1>3, <2>1, <2>2, TurnMovesWithoutCalls DEF AtCalls, Laned
  <1>5. CASE TakeLane(t)
    <2>1. /\ turn' = [turn EXCEPT ![t] = turn'[t]] /\ turn'[t] \in TurnState
          /\ turn'[t].pc = "reading" /\ turn'[t].on = turn[t].on
          /\ turn'[t].todo = turn[t].todo
      BY <1>1, <1>5 DEF TakeLane, TurnsTyped, TurnState
    <2>2. /\ turn[t].pc = "queued" /\ turn[t].todo = {} /\ lane = Nobody /\ lane' = t
          /\ turn[t].on \in Runtimes /\ runtime[turn[t].on] \in {"open", "closing"}
      BY <1>1, <1>5 DEF TakeLane, TurnSafe, AtCalls, Alive
    <2> QED BY <1>2, <1>3, <2>1, <2>2, TurnMovesWithoutCalls DEF AtCalls, Laned
  <1>6. CASE LeaveQueue(t)
    <2>1. Done \in TurnState /\ Done.pc = "over" /\ Done.todo = {}
      BY DEF Done, NewTurn, TurnState
    <2>2. /\ turn' = [turn EXCEPT ![t] = turn'[t]] /\ turn'[t] = Done /\ lane' = lane
          /\ turn[t].pc = "queued"
      BY <1>1, <1>6 DEF LeaveQueue, TurnsTyped
    <2> QED BY <1>2, <1>3, <2>1, <2>2, TurnMovesWithoutCalls DEF AtCalls, Laned
  <1>7. CASE (ReadHistory(t) /\ ~HistoryReads) \/ EndTurn(t)
    BY <1>2, <1>7, OverKeeps DEF ReadHistory, EndTurn, Laned
  <1>8. CASE ReadHistory(t) /\ HistoryReads
    <2>1. /\ turn' = [turn EXCEPT ![t] = turn'[t]] /\ turn'[t] \in TurnState
          /\ turn'[t].pc = "asking" /\ turn'[t].on = turn[t].on
          /\ turn'[t].todo = turn[t].todo /\ lane' = lane
      BY <1>1, <1>8 DEF ReadHistory, MovesOn, TurnsTyped, TurnState
    <2>2. /\ turn[t].pc = "reading" /\ turn[t].todo = {}
          /\ turn[t].on \in Runtimes /\ runtime[turn[t].on] \in {"open", "closing"}
      BY <1>1, <1>8 DEF ReadHistory, TurnSafe, AtCalls, Alive
    <2> QED BY <1>2, <1>3, <2>1, <2>2, TurnMovesWithoutCalls DEF AtCalls, Laned
  <1> QED BY <1>4, <1>5, <1>6, <1>7, <1>8

\* Only the turn of the lane has calls, and nobody opens the session under it.
LEMMA LaneAlone ==
    ASSUME SessionConstants, SessionInv, NEW t \in Turns, turn[t].pc \in Laned
    PROVE /\ lane = t /\ \A u \in Turns : u # t => turn[u].todo = {} /\ turn[u].pc \notin AtCalls
          /\ turn[t].on \in Runtimes /\ runtime[turn[t].on] \in {"open", "closing"}
          /\ \A r \in Runtimes : runtime[r] # "opening"
  <1>1. LivesSafe
    BY TurnStands
  <1>2. lane = t /\ \A u \in Turns : u # t => turn[u].todo = {} /\ turn[u].pc \notin AtCalls
    BY <1>1 DEF LivesSafe, TurnSafe, Laned, AtCalls
  <1>3. turn[t].on \in Runtimes /\ runtime[turn[t].on] \in {"open", "closing"}
    BY <1>1 DEF LivesSafe, TurnSafe, Alive, Laned
  <1>4. \A r \in Runtimes : runtime[r] # "opening"
    BY <1>1, <1>3 DEF LivesSafe, RuntimeSafe
  <1> QED BY <1>2, <1>3, <1>4

\* The turn of the lane moves with one of its calls: the invariant, from what becomes of that call.
LEMMA OneCallMoves ==
    ASSUME SessionConstants, SessionInv, NEW t \in Turns, NEW c \in turn[t].todo,
           UNCHANGED <<runtime, writer, recovery, issued, overlapped, lane>>,
           sessionFaults' \in [openings : 0 .. MaxOpenings, mishaps : 0 .. MaxMishaps],
           turn[t].pc \in AtCalls, turn[t].pc = "recording" \/ c = First(turn[t].todo),
           turn' = [turn EXCEPT ![t] = turn'[t]], turn'[t] \in TurnState,
           turn'[t].pc \in Laned, turn'[t].on = turn[t].on,
           turn'[t].todo # {} <=> turn'[t].pc \in AtCalls,
           turn'[t].todo \in {turn[t].todo, turn[t].todo \ {c}},
           turn'[t].pc = "recording" =>
             turn[t].pc = "recording" /\ turn'[t].todo = turn[t].todo /\ Unrecorded(t)' # {},
           turn[t].pc = "recording" /\ turn'[t].pc # "recording" =>
             \A d \in turn[t].todo : call'[d].recorded,
           call' = [call EXCEPT ![c] = call'[c]], call'[c] \in CallRecord,
           call'[c].group = call[c].group, call'[c].recovered = call[c].recovered,
           call[c].recorded => call'[c].recorded,
           RecordSafe(c)', c \in turn'[t].todo => TodoSafe(t, c)',
           \A r \in Runtimes : c \in recovery[r].pending => PendingSafe(r, c)'
    PROVE SessionInv'
  <1>1. /\ ProcessesTyped /\ TurnsTyped /\ CallsTyped /\ LivesSafe /\ CallsKept
        /\ turn[t] \in TurnState /\ TurnSafe(t)
    BY TurnStands
  <1>2. /\ lane = t /\ \A u \in Turns : u # t => turn[u].todo = {} /\ turn[u].pc \notin AtCalls
        /\ turn[t].on \in Runtimes /\ runtime[turn[t].on] \in {"open", "closing"}
        /\ \A r \in Runtimes : runtime[r] # "opening"
    <2>1. turn[t].pc \in Laned
      BY DEF Laned, AtCalls
    <2> QED BY <2>1, LaneAlone
  <1>3. LivesSafe' /\ TurnsTyped'
    BY <1>2, OneTurnMoves DEF Laned, AtCalls
  <1>4. c \in Calls /\ turn[t].todo \subseteq Calls
    BY <1>1 DEF TurnState
  <1>5. /\ call' \in [Calls -> CallRecord] /\ \A d \in Calls : d # c => call'[d] = call[d]
        /\ \A d \in Calls : call[d].recorded => call'[d].recorded
    BY <1>1, <1>4 DEF CallsTyped
  <1>6. ProcessesTyped' /\ CallsTyped'
    BY <1>1, <1>5 DEF ProcessesTyped, CallsTyped
  <1>7. \A u \in Turns : u # t => turn'[u] = turn[u]
    BY <1>1 DEF TurnsTyped
  <1>8. ASSUME NEW d \in Calls PROVE RecordSafe(d)'
    BY <1>1, <1>5, <1>8 DEF CallsKept, RecordSafe
  <1>9. ASSUME NEW d \in turn'[t].todo, d # c
        PROVE d \in turn[t].todo /\ Ahead(t, d) /\ TodoSafe(t, d)'
    <2>1. d \in turn[t].todo /\ d \in Calls /\ TodoSafe(t, d) /\ call'[d] = call[d]
      BY <1>1, <1>4, <1>5, <1>9 DEF CallsKept
    <2>2. Ahead(t, d) /\ call[d].ran = 0
      BY <1>9, <2>1 DEF Ahead, TodoSafe
    <2>3. turn[t].pc = "recording" => call[d].group = turn[t].todo
      BY <2>1 DEF TodoSafe
    <2>4. turn'[t].pc # "recording" => \A e \in call'[d].group : call'[e].recorded
      <3>1. CASE turn[t].pc = "recording"
        BY <2>1, <2>3, <3>1
      <3>2. CASE turn[t].pc # "recording"
        <4>1. call[d].group \subseteq Calls
          BY <1>1, <2>1 DEF CallsTyped, CallRecord
        <4> QED BY <1>5, <2>1, <3>2, <4>1 DEF TodoSafe
      <3> QED BY <3>1, <3>2
    <2> QED BY <2>1, <2>2, <2>3, <2>4 DEF TodoSafe
  <1>10. ASSUME NEW u \in Turns
         PROVE /\ (turn[u].pc = "recording" => Unrecorded(u) # {})'
               /\ \A d \in turn'[u].todo : TodoSafe(u, d)'
    <2>1. CASE u = t
      BY <1>9, <2>1
    <2>2. CASE u # t
      BY <1>2, <1>7, <2>2 DEF AtCalls
    <2> QED BY <2>1, <2>2
  <1>11. ASSUME NEW r \in Runtimes, NEW d \in recovery'[r].pending, d # c
         PROVE PendingSafe(r, d)'
    <2>1. d \in Calls /\ PendingSafe(r, d) /\ call'[d] = call[d]
      BY <1>1, <1>5, <1>11 DEF CallsKept, ProcessesTyped, RecoveryState
    <2>2. ASSUME NEW u \in Turns, d \in turn'[u].todo
          PROVE /\ d \in overlapped
                /\ recovery[r].pc = "auditing" => call[d].audits = 0
      <3>1. u = t
        BY <1>2, <1>7, <2>2
      <3>2. d \in turn[t].todo /\ Ahead(t, d)
        BY <1>9, <1>11, <2>2, <3>1
      <3> QED BY <2>1, <3>2 DEF PendingSafe
    <2> QED BY <2>1, <2>2 DEF PendingSafe
  <1>12. CallsKept'
    BY <1>2, <1>8, <1>10, <1>11 DEF CallsKept
  <1> QED BY <1>3, <1>6, <1>12, SessionTypedNext DEF SessionInv

\* RecordCall keeps the invariant: no call runs before all of its answer are recorded.
LEMMA RecordCallKeeps ==
    ASSUME SessionConstants, SessionInv, NEW t \in Turns, RecordCall(t)
    PROVE SessionInv'
  <1>1. /\ ProcessesTyped /\ TurnsTyped /\ CallsTyped /\ CallsKept
        /\ turn[t] \in TurnState /\ TurnSafe(t)
    BY TurnStands
  <1>2. /\ turn[t].pc = "recording"
        /\ UNCHANGED <<runtime, writer, recovery, issued, overlapped>>
    BY DEF RecordCall
  <1>3. PICK c \in Calls :
          c = First(Unrecorded(t)) /\ c \in turn[t].todo /\ ~call[c].recorded
    <2>1. Unrecorded(t) # {} /\ Unrecorded(t) \in SUBSET Calls
      BY <1>1, <1>2 DEF CallsKept, Unrecorded, TurnState
    <2>2. First(Unrecorded(t)) \in Unrecorded(t)
      BY <2>1, FirstIsOne
    <2> QED BY <2>1, <2>2 DEF Unrecorded
  <1>4. CASE Mishap /\ Over(t) /\ UNCHANGED call
    BY <1>2, <1>4, OverKeeps DEF Laned
  <1>5. CASE /\ call' = [call EXCEPT ![c].recorded = TRUE]
             /\ MovesOn(t, IF Unrecorded(t) = {c} THEN "gating" ELSE "recording")
             /\ UNCHANGED sessionFaults
    <2>1. c \in turn[t].todo /\ ~call[c].recorded /\ c \in Calls
      BY <1>3
    <2>2. call[c] \in CallRecord /\ RecordSafe(c) /\ TodoSafe(t, c)
      BY <1>1, <2>1 DEF CallsTyped, CallsKept
    <2> DEFINE pc == IF Unrecorded(t) = {c} THEN "gating" ELSE "recording"
    <2>3. /\ turn' = [turn EXCEPT ![t] = turn'[t]] /\ turn'[t] \in TurnState
          /\ turn'[t].pc = pc /\ turn'[t].on = turn[t].on
          /\ turn'[t].todo = turn[t].todo /\ lane' = lane
      BY <1>1, <1>5 DEF MovesOn, TurnsTyped, TurnState
    <2>4. /\ call' = [call EXCEPT ![c] = call'[c]] /\ call'[c] \in CallRecord
          /\ call'[c].recorded /\ call'[c].recovered = call[c].recovered
          /\ call'[c].results = call[c].results /\ call'[c].audits = call[c].audits
          /\ call'[c].ran = call[c].ran /\ call'[c].group = call[c].group
          /\ \A d \in Calls : d # c => call'[d] = call[d]
      BY <1>1, <1>5, <2>1, <2>2 DEF CallsTyped, CallRecord
    <2>5. pc = "recording" => Unrecorded(t)' # {}
      <3>1. ASSUME pc = "recording" PROVE \E d \in Unrecorded(t) : d # c
        BY <1>1, <1>2, <3>1 DEF CallsKept
      <3>2. ASSUME NEW d \in Unrecorded(t), d # c PROVE d \in Unrecorded(t)'
        BY <1>1, <2>3, <2>4, <3>2 DEF Unrecorded, TurnState
      <3> QED BY <3>1, <3>2
    <2>6. pc # "recording" => \A d \in turn[t].todo : call'[d].recorded
      BY <1>1, <2>4 DEF Unrecorded, TurnState
    <2> HIDE DEF pc
    <2>7. pc \in {"recording", "gating"}
      BY DEF pc
    <2>8. RecordSafe(c)'
      BY <1>1, <1>2, <2>1, <2>2, <2>4
         DEF RecordSafe, TodoSafe, Once, Calls, CallsTyped, SessionConstants
    <2>9. TodoSafe(t, c)'
      <3>1. call[c].group = turn[t].todo
        BY <1>2, <2>2 DEF TodoSafe
      <3>2. pc # "recording" => \A d \in call'[c].group : call'[d].recorded
        BY <2>4, <2>6, <3>1
      <3> QED BY <1>2, <2>2, <2>3, <2>4, <2>7, <3>1, <3>2 DEF TodoSafe, Ahead, Once
    <2>10. \A r \in Runtimes : c \notin recovery[r].pending
      BY <1>1, <2>1 DEF CallsKept, PendingSafe
    <2>11. sessionFaults' \in [openings : 0 .. MaxOpenings, mishaps : 0 .. MaxMishaps]
      BY <1>1, <1>5 DEF ProcessesTyped
    <2>12. turn[t].todo # {}
      BY <2>1
    <2> QED BY <1>2, <2>1, <2>3, <2>4, <2>5, <2>6, <2>7, <2>8, <2>9, <2>10, <2>11, <2>12,
               OneCallMoves
            DEF AtCalls, Laned
  <1> QED BY <1>4, <1>5, <1>3 DEF RecordCall

\* RunCall keeps the invariant.
LEMMA RunCallKeeps ==
    ASSUME SessionConstants, SessionInv, NEW t \in Turns, RunCall(t)
    PROVE SessionInv'
  <1>1. /\ ProcessesTyped /\ TurnsTyped /\ CallsTyped /\ CallsKept
        /\ turn[t] \in TurnState /\ TurnSafe(t)
    BY TurnStands
  <1>2. /\ turn[t].pc = "gating"
        /\ UNCHANGED <<runtime, writer, recovery, issued, sessionFaults, overlapped>>
    BY DEF RunCall
  <1>3. PICK c \in Calls : c = First(turn[t].todo) /\ c \in turn[t].todo
    <2>1. turn[t].todo # {} /\ turn[t].todo \in SUBSET Calls
      BY <1>1, <1>2 DEF TurnSafe, AtCalls, TurnState
    <2> QED BY <2>1, FirstIsOne
  <1>4. CASE Over(t) /\ UNCHANGED call
    BY <1>2, <1>4, OverKeeps DEF Laned
  <1>5. CASE /\ MovesOn(t, "auditing")
             /\ call' = call \/ call' = [call EXCEPT ![c].ran = @ + 1]
    <2>1. c \in turn[t].todo /\ c \in Calls
      BY <1>3
    <2>2. call[c] \in CallRecord /\ RecordSafe(c) /\ TodoSafe(t, c) /\ call[c].ran = 0
      BY <1>1, <1>2, <2>1 DEF CallsTyped, CallsKept, TodoSafe
    <2>3. /\ turn' = [turn EXCEPT ![t] = turn'[t]] /\ turn'[t] \in TurnState
          /\ turn'[t].pc = "auditing" /\ turn'[t].on = turn[t].on
          /\ turn'[t].todo = turn[t].todo /\ lane' = lane
      BY <1>1, <1>5 DEF MovesOn, TurnsTyped, TurnState
    <2>4. /\ call' = [call EXCEPT ![c] = call'[c]] /\ call'[c] \in CallRecord
          /\ call'[c].recorded = call[c].recorded /\ call'[c].recovered = call[c].recovered
          /\ call'[c].results = call[c].results /\ call'[c].audits = call[c].audits
          /\ call'[c].ran \in {0, 1} /\ call'[c].group = call[c].group
          /\ \A d \in Calls : call'[d].recorded = call[d].recorded
      BY <1>1, <1>5, <2>1, <2>2 DEF CallsTyped, CallRecord
    <2>5. RecordSafe(c)'
      BY <1>1, <1>2, <2>1, <2>2, <2>4
         DEF RecordSafe, TodoSafe, Once, Calls, CallsTyped, SessionConstants
    <2>6. TodoSafe(t, c)'
      <3>1. c = First(turn'[t].todo)
        BY <1>3, <2>3
      <3>2. call[c].group \subseteq Calls
        BY <2>2 DEF CallRecord
      <3> QED BY <1>2, <2>2, <2>3, <2>4, <3>1, <3>2 DEF TodoSafe, Ahead, Once
    <2>7. ASSUME NEW r \in Runtimes, c \in recovery[r].pending PROVE PendingSafe(r, c)'
      <3>1. PendingSafe(r, c)
        BY <1>1, <2>7 DEF CallsKept
      <3>2. \A u \in Turns : c \in turn'[u].todo => c \in turn[u].todo /\ Ahead(u, c)
        <4>1. \A u \in Turns : u # t => turn'[u] = turn[u] /\ turn[u].todo = {}
          BY <1>1, <1>2, <2>3, LaneAlone DEF TurnsTyped, Laned
        <4> QED BY <1>2, <2>3, <4>1 DEF Ahead
      <3> QED BY <1>2, <2>4, <3>1, <3>2 DEF PendingSafe
    <2>8. sessionFaults' \in [openings : 0 .. MaxOpenings, mishaps : 0 .. MaxMishaps]
      BY <1>1, <1>2 DEF ProcessesTyped
    <2>9. turn[t].todo # {}
      BY <2>1
    <2>10. c = First(turn[t].todo)
      BY <1>3
    <2> QED BY <1>2, <2>1, <2>3, <2>4, <2>5, <2>6, <2>7, <2>8, <2>9, <2>10, OneCallMoves
            DEF AtCalls, Laned
  <1> QED BY <1>3, <1>4, <1>5 DEF RunCall

\* AuditCall keeps the invariant: the first call gets its line, or a mishap keeps it without.
LEMMA AuditCallKeeps ==
    ASSUME SessionConstants, SessionInv, NEW t \in Turns, AuditCall(t)
    PROVE SessionInv'
  <1>1. /\ ProcessesTyped /\ TurnsTyped /\ CallsTyped /\ CallsKept
        /\ turn[t] \in TurnState /\ TurnSafe(t)
    BY TurnStands
  <1>2. /\ turn[t].pc = "auditing" /\ MovesOn(t, "answering")
        /\ UNCHANGED <<runtime, writer, recovery, issued, overlapped>>
    BY DEF AuditCall
  <1>3. PICK c \in Calls : c = First(turn[t].todo) /\ c \in turn[t].todo
    <2>1. turn[t].todo # {} /\ turn[t].todo \in SUBSET Calls
      BY <1>1, <1>2 DEF TurnSafe, AtCalls, TurnState
    <2> QED BY <2>1, FirstIsOne
  <1>4. call' = call \/ call' = [call EXCEPT ![c].audits = @ + 1]
    BY <1>3 DEF AuditCall
  <1>5. /\ call[c] \in CallRecord /\ RecordSafe(c) /\ TodoSafe(t, c) /\ Ahead(t, c)
        /\ call[c].audits <= 1 /\ (c \notin overlapped => call[c].audits = 0)
    BY <1>1, <1>2, <1>3 DEF CallsTyped, CallsKept, TodoSafe, Ahead
  <1>6. /\ turn' = [turn EXCEPT ![t] = turn'[t]] /\ turn'[t] \in TurnState
        /\ turn'[t].pc = "answering" /\ turn'[t].on = turn[t].on
        /\ turn'[t].todo = turn[t].todo /\ lane' = lane
    BY <1>1, <1>2 DEF MovesOn, TurnsTyped, TurnState
  <1>7. /\ call' = [call EXCEPT ![c] = call'[c]] /\ call'[c] \in CallRecord
        /\ call'[c].recorded = call[c].recorded /\ call'[c].recovered = call[c].recovered
        /\ call'[c].results = call[c].results /\ call'[c].ran = call[c].ran
        /\ call'[c].audits \in {call[c].audits, call[c].audits + 1}
        /\ call'[c].group = call[c].group
        /\ \A d \in Calls : call'[d].recorded = call[d].recorded
    <2>1. call[c].audits + 1 \in 0 .. 2
      BY <1>5 DEF CallRecord
    <2> QED BY <1>1, <1>4, <1>5, <2>1 DEF CallsTyped, CallRecord
  <1>8. RecordSafe(c)'
    <2>1. c <= issued /\ issued \in Int /\ c \in Int /\ call[c].audits \in 0 .. 2
      BY <1>1, <1>5 DEF TodoSafe, CallsTyped, CallRecord, SessionConstants, Calls
    <2> QED BY <1>2, <1>5, <1>7, <2>1 DEF RecordSafe, Once
  <1>9. TodoSafe(t, c)'
    <2>1. c = First(turn'[t].todo)
      BY <1>3, <1>6
    <2>2. call[c].group \subseteq Calls
      BY <1>5 DEF CallRecord
    <2> QED BY <1>2, <1>5, <1>6, <1>7, <2>1, <2>2 DEF TodoSafe, Ahead, Once
  <1>10. ASSUME NEW r \in Runtimes, c \in recovery[r].pending PROVE PendingSafe(r, c)'
    <2>1. PendingSafe(r, c) /\ recovery'[r] = recovery[r]
      BY <1>1, <1>2, <1>10 DEF CallsKept
    <2>2. c \in overlapped /\ (recovery[r].pc = "auditing" => call[c].audits = 0)
      BY <1>3, <1>5, <2>1 DEF PendingSafe
    <2>3. \A u \in Turns : c \in turn'[u].todo => ~Ahead(u, c)'
      <3>1. \A u \in Turns : u # t => turn'[u] = turn[u] /\ turn[u].todo = {}
        BY <1>1, <1>2, <1>6, LaneAlone DEF TurnsTyped, Laned
      <3>2. ~Ahead(t, c)'
        BY <1>3, <1>6 DEF Ahead
      <3> QED BY <3>1, <3>2
    <2> QED BY <1>2, <1>7, <2>1, <2>2, <2>3 DEF PendingSafe
  <1>11. sessionFaults' \in [openings : 0 .. MaxOpenings, mishaps : 0 .. MaxMishaps]
    BY <1>1, MishapTyped DEF AuditCall, ProcessesTyped
  <1> QED BY <1>2, <1>3, <1>6, <1>7, <1>8, <1>9, <1>10, <1>11, OneCallMoves DEF AtCalls, Laned

\* AnswerCall keeps the invariant: the first call gets its result, or a mishap leaves it open.
LEMMA AnswerCallKeeps ==
    ASSUME SessionConstants, SessionInv, NEW t \in Turns, AnswerCall(t)
    PROVE SessionInv'
  <1>1. /\ ProcessesTyped /\ TurnsTyped /\ CallsTyped /\ CallsKept
        /\ turn[t] \in TurnState /\ TurnSafe(t)
    BY TurnStands
  <1>2. /\ turn[t].pc = "answering"
        /\ UNCHANGED <<runtime, writer, recovery, lane, issued, overlapped>>
    BY DEF AnswerCall
  <1>3. PICK c \in Calls : c = First(turn[t].todo) /\ c \in turn[t].todo
    <2>1. turn[t].todo # {} /\ turn[t].todo \in SUBSET Calls
      BY <1>1, <1>2 DEF TurnSafe, AtCalls, TurnState
    <2> QED BY <2>1, FirstIsOne
  <1>4. call' = call \/ call' = [call EXCEPT ![c].results = @ + 1]
    BY <1>3 DEF AnswerCall
  <1>5. /\ call[c] \in CallRecord /\ RecordSafe(c) /\ TodoSafe(t, c)
        /\ call[c].results = Once(call[c].recovered)
    BY <1>1, <1>2, <1>3 DEF CallsTyped, CallsKept, TodoSafe
  <1>6. /\ turn' = [turn EXCEPT ![t] = turn'[t]] /\ turn'[t] \in TurnState
        /\ turn'[t].pc = (IF turn[t].todo = {c} THEN "asking" ELSE "gating")
        /\ turn'[t].on = turn[t].on /\ turn'[t].todo = turn[t].todo \ {c}
    <2> DEFINE pc == IF turn[t].todo = {c} THEN "asking" ELSE "gating"
               left == turn[t].todo \ {c}
    <2>1. turn' = [turn EXCEPT ![t].todo = left, ![t].pc = pc]
      BY <1>3 DEF AnswerCall
    <2>2. left \in SUBSET Calls /\ pc \in {"asking", "gating"}
      BY <1>1 DEF TurnState
    <2> HIDE DEF left, pc
    <2>3. turn' = [turn EXCEPT ![t] = turn'[t]] /\ turn'[t] = [turn[t] EXCEPT !.todo = left, !.pc = pc]
      BY <1>1, <2>1 DEF TurnsTyped
    <2>4. /\ turn'[t] \in TurnState /\ turn'[t].pc = pc /\ turn'[t].todo = left
          /\ turn'[t].on = turn[t].on
      BY <1>1, <2>2, <2>3 DEF TurnState
    <2> QED BY <2>3, <2>4 DEF pc, left
  <1>7. /\ call' = [call EXCEPT ![c] = call'[c]] /\ call'[c] \in CallRecord
        /\ call'[c].recorded = call[c].recorded /\ call'[c].recovered = call[c].recovered
        /\ call'[c].audits = call[c].audits /\ call'[c].ran = call[c].ran
        /\ call'[c].results \in {call[c].results, call[c].results + 1}
        /\ call'[c].group = call[c].group
    <2>1. call[c].results + 1 \in 0 .. 2
      BY <1>5 DEF CallRecord, Once
    <2> QED BY <1>1, <1>4, <1>5, <2>1 DEF CallsTyped, CallRecord
  <1>8. RecordSafe(c)'
    <2>1. c <= issued /\ issued \in Int /\ c \in Int /\ call[c].results \in 0 .. 2
      BY <1>1, <1>5 DEF TodoSafe, CallsTyped, CallRecord, SessionConstants, Calls
    <2>2. c \notin overlapped => ~call[c].recovered
      BY <1>5 DEF TodoSafe
    <2> QED BY <1>2, <1>5, <1>7, <2>1, <2>2 DEF RecordSafe, Once
  <1>9. ASSUME NEW r \in Runtimes, c \in recovery[r].pending PROVE PendingSafe(r, c)'
    <2>1. PendingSafe(r, c) /\ recovery'[r] = recovery[r]
      BY <1>1, <1>2, <1>9 DEF CallsKept
    <2>2. c \in overlapped
      BY <1>3, <2>1 DEF PendingSafe
    <2>3. \A u \in Turns : c \notin turn'[u].todo
      <3>1. \A u \in Turns : u # t => turn'[u] = turn[u] /\ turn[u].todo = {}
        BY <1>1, <1>2, <1>6, LaneAlone DEF TurnsTyped, Laned
      <3> QED BY <1>6, <3>1
    <2> QED BY <1>2, <1>7, <2>1, <2>2, <2>3 DEF PendingSafe
  <1>10. sessionFaults' \in [openings : 0 .. MaxOpenings, mishaps : 0 .. MaxMishaps]
    BY <1>1, MishapTyped DEF AnswerCall, ProcessesTyped
  <1> QED BY <1>2, <1>3, <1>6, <1>7, <1>8, <1>9, <1>10, OneCallMoves DEF AtCalls, Laned

\* IssueCalls keeps the invariant: the calls of an answer are new.
LEMMA IssueCallsKeeps ==
    ASSUME SessionConstants, SessionInv, NEW t \in Turns, NEW n \in 1 .. 2, IssueCalls(t, n)
    PROVE SessionInv'
  <1> DEFINE group == issued + 1 .. issued + n
  <1>1. /\ ProcessesTyped /\ TurnsTyped /\ CallsTyped /\ LivesSafe /\ CallsKept
        /\ turn[t] \in TurnState /\ TurnSafe(t)
    BY TurnStands
  <1>2. /\ turn[t].pc = "asking" /\ issued + n <= MaxCalls /\ issued' = issued + n
        /\ call' = [c \in Calls |-> IF c \in group THEN [call[c] EXCEPT !.group = group]
                                    ELSE call[c]]
        /\ turn' = [turn EXCEPT ![t].pc = "recording", ![t].todo = group]
        /\ UNCHANGED <<runtime, writer, recovery, lane, sessionFaults, overlapped>>
    BY DEF IssueCalls
  <1>3. /\ issued \in Nat /\ MaxCalls \in Nat /\ issued + n \in 0 .. MaxCalls
        /\ group \in SUBSET Calls /\ group # {}
    <2>1. issued \in Nat /\ MaxCalls \in Nat /\ n \in Nat /\ n >= 1
      BY <1>1 DEF CallsTyped, SessionConstants
    <2>2. issued + 1 \in group
      BY <2>1
    <2> QED BY <1>2, <2>1, <2>2 DEF Calls
  <1>4. \A c \in group : c > issued /\ c <= issued + n
    BY <1>3
  <1>5. \A c \in group : call[c] = Fresh
    BY <1>1, <1>3, <1>4 DEF CallsKept, RecordSafe
  <1>6. PICK g \in SUBSET Calls : g = group
    BY <1>3
  <1> HIDE DEF group
  <1>7. /\ turn' = [turn EXCEPT ![t] = turn'[t]] /\ turn'[t] \in TurnState
        /\ turn'[t].pc = "recording" /\ turn'[t].on = turn[t].on /\ turn'[t].todo = g
        /\ \A u \in Turns : u # t => turn'[u] = turn[u]
    <2>1. /\ turn' = [turn EXCEPT ![t] = turn'[t]]
          /\ turn'[t] = [turn[t] EXCEPT !.pc = "recording", !.todo = g]
      BY <1>1, <1>2, <1>6 DEF TurnsTyped
    <2> QED BY <1>1, <2>1 DEF TurnsTyped, TurnState
  <1>8. /\ call' \in [Calls -> CallRecord] /\ \A c \in Calls : c \notin g => call'[c] = call[c]
        /\ \A c \in g : /\ call'[c].group = g /\ ~call'[c].recorded /\ ~call'[c].recovered
                        /\ call'[c].results = 0 /\ call'[c].audits = 0 /\ call'[c].ran = 0
    <2>1. ASSUME NEW c \in g
          PROVE /\ call'[c] \in CallRecord
                /\ call'[c].group = g /\ ~call'[c].recorded /\ ~call'[c].recovered
                /\ call'[c].results = 0 /\ call'[c].audits = 0 /\ call'[c].ran = 0
      <3>1. call'[c] = [Fresh EXCEPT !.group = g]
        BY <1>2, <1>5, <1>6, <2>1
      <3>2. /\ Fresh \in CallRecord /\ ~Fresh.recorded /\ ~Fresh.recovered
            /\ Fresh.results = 0 /\ Fresh.audits = 0 /\ Fresh.ran = 0
        BY DEF Fresh, CallRecord
      <3>3. ASSUME NEW k \in CallRecord
            PROVE LET k1 == [k EXCEPT !.group = g]
                  IN /\ k1 \in CallRecord /\ k1.group = g
                     /\ k1.recorded = k.recorded /\ k1.recovered = k.recovered
                     /\ k1.results = k.results /\ k1.audits = k.audits /\ k1.ran = k.ran
        BY DEF CallRecord
      <3> QED BY <3>1, <3>2, <3>3
    <2>2. ASSUME NEW c \in Calls, c \notin g PROVE call'[c] = call[c]
      BY <1>2, <1>6, <2>2
    <2>3. \A c \in Calls : call'[c] \in CallRecord
      BY <1>1, <2>1, <2>2 DEF CallsTyped
    <2>4. call' = [c \in Calls |-> call'[c]]
      BY <1>2
    <2> QED BY <2>1, <2>2, <2>3, <2>4
  <1>9. /\ lane = t /\ \A u \in Turns : u # t => turn[u].todo = {} /\ turn[u].pc \notin AtCalls
        /\ turn[t].on \in Runtimes /\ runtime[turn[t].on] \in {"open", "closing"}
        /\ \A r \in Runtimes : runtime[r] # "opening"
    BY <1>2, LaneAlone DEF Laned
  <1>10. LivesSafe' /\ TurnsTyped'
    BY <1>2, <1>3, <1>6, <1>7, <1>9, OneTurnMoves DEF Laned, AtCalls
  <1>11. ProcessesTyped' /\ CallsTyped'
    BY <1>1, <1>2, <1>3, <1>8 DEF ProcessesTyped, CallsTyped
  <1>12. ASSUME NEW c \in Calls PROVE RecordSafe(c)'
    <2>1. CASE c \in g
      <3>1. c <= issued' /\ c \in Int /\ issued' \in Int
        BY <1>2, <1>3, <1>4, <1>6, <2>1 DEF Calls
      <3> QED BY <1>8, <2>1, <3>1 DEF RecordSafe, Once
    <2>2. CASE c \notin g
      <3>1. c > issued' => c > issued
        BY <1>2, <1>3 DEF Calls
      <3> QED BY <1>1, <1>2, <1>8, <2>2, <3>1 DEF CallsKept, RecordSafe
    <2> QED BY <2>1, <2>2
  <1>13. ASSUME NEW u \in Turns
         PROVE /\ (turn[u].pc = "recording" => Unrecorded(u) # {})'
               /\ \A c \in turn'[u].todo : TodoSafe(u, c)'
    <2>1. CASE u = t
      <3>1. Unrecorded(t)' = g
        BY <1>7, <1>8 DEF Unrecorded
      <3>2. ASSUME NEW c \in g PROVE TodoSafe(t, c)'
        <4>1. c <= issued'
          BY <1>2, <1>4, <1>6, <3>2
        <4> QED BY <1>7, <1>8, <3>2, <4>1 DEF TodoSafe, Ahead, Once
      <3> QED BY <1>3, <1>6, <1>7, <2>1, <3>1, <3>2
    <2>2. CASE u # t
      BY <1>7, <1>9, <2>2 DEF AtCalls
    <2> QED BY <2>1, <2>2
  <1>14. ASSUME NEW r \in Runtimes, NEW c \in recovery'[r].pending PROVE PendingSafe(r, c)'
    <2>1. c \in Calls /\ PendingSafe(r, c) /\ recovery' = recovery
      BY <1>1, <1>2, <1>14 DEF CallsKept, ProcessesTyped, RecoveryState
    <2>2. c \notin g
      BY <1>5, <1>6, <2>1 DEF PendingSafe, Fresh
    <2>3. \A u \in Turns : c \notin turn'[u].todo
      BY <1>7, <1>9, <2>2
    <2> QED BY <1>2, <1>8, <2>1, <2>2, <2>3 DEF PendingSafe
  <1>15. CallsKept'
    BY <1>2, <1>9, <1>12, <1>13, <1>14 DEF CallsKept
  <1> QED BY <1>10, <1>11, <1>15, SessionTypedNext DEF SessionInv

\* A recovery is the only one, and the turns that have calls are of its process.
LEMMA RecoveryAlone ==
    ASSUME SessionInv, NEW r \in Runtimes, recovery[r].pc # "none"
    PROVE /\ \A q \in Runtimes : q # r => recovery[q].pending = {}
          /\ \A t \in Turns : turn[t].todo # {} => turn[t].on = r
  <1>1. LivesSafe /\ runtime[r] # "absent" /\ writer = r
    BY DEF SessionInv, LivesSafe, RuntimeSafe
  <1>2. \A q \in Runtimes : q # r => recovery[q].pending = {}
    BY <1>1 DEF LivesSafe, RuntimeSafe
  <1>3. ASSUME NEW t \in Turns, turn[t].todo # {} PROVE turn[t].on = r
    <2>1. turn[t].pc \in AtCalls
      BY <1>1, <1>3 DEF LivesSafe, TurnSafe
    <2>2. turn[t].on \in Runtimes /\ runtime[turn[t].on] \in {"open", "closing"}
      BY <1>1, <2>1 DEF LivesSafe, TurnSafe, Alive, AtCalls
    <2> QED BY <1>1, <2>2 DEF LivesSafe, RuntimeSafe
  <1> QED BY <1>2, <1>3

\* A recovery moves on: the invariant, from what becomes of the calls.
LEMMA RecoveryMoves ==
    ASSUME SessionConstants, SessionInv, NEW r \in Runtimes, recovery[r].pc # "none",
           recovery' = [recovery EXCEPT ![r] = recovery'[r]], recovery'[r] \in RecoveryState,
           recovery'[r].pc \in {"answering", "auditing"},
           UNCHANGED <<runtime, writer, turn, lane, issued, sessionFaults>>,
           overlapped' \subseteq Calls, call' \in [Calls -> CallRecord],
           \A c \in Calls : RecordSafe(c)' /\ call'[c].recorded = call[c].recorded,
           \A t \in Turns : \A c \in turn[t].todo : TodoSafe(t, c)',
           \A c \in recovery'[r].pending : PendingSafe(r, c)',
           runtime[r] = "opening" => OpeningSafe(r)'
    PROVE SessionInv'
  <1>1. ProcessesTyped /\ TurnsTyped /\ CallsTyped /\ LivesSafe /\ CallsKept
    BY SessionStates DEF SessionInv
  <1>2. RuntimeSafe(r)'
    BY <1>1 DEF LivesSafe, RuntimeSafe
  <1>3. sessionFaults' \in [openings : 0 .. MaxOpenings, mishaps : 0 .. MaxMishaps]
    BY <1>1 DEF ProcessesTyped
  <1>4. LivesSafe' /\ ProcessesTyped' /\ TurnsTyped'
    BY <1>2, <1>3, OneRecoveryMoves
  <1>5. CallsTyped'
    BY <1>1 DEF CallsTyped
  <1>6. ASSUME NEW t \in Turns
        PROVE /\ (turn[t].pc = "recording" => Unrecorded(t) # {})'
              /\ \A c \in turn'[t].todo : TodoSafe(t, c)'
    <2>1. turn[t].todo \subseteq Calls
      BY <1>1 DEF TurnsTyped, TurnState
    <2> QED BY <1>1, <2>1 DEF CallsKept, Unrecorded
  <1>7. ASSUME NEW q \in Runtimes, q # r
        PROVE recovery'[q].pending = {} /\ runtime'[q] # "opening"
    <2>1. recovery'[q] = recovery[q] /\ recovery[q].pending = {}
      BY <1>1, <1>7, RecoveryAlone DEF ProcessesTyped
    <2> QED BY <1>1, <1>7, <2>1 DEF LivesSafe, RuntimeSafe
  <1>8. CallsKept'
    BY <1>6, <1>7 DEF CallsKept
  <1> QED BY <1>4, <1>5, <1>8, SessionTypedNext DEF SessionInv

\* ReadTranscript keeps the invariant: it answers for what no turn has, or what overlapped has.
LEMMA ReadTranscriptKeeps ==
    ASSUME SessionConstants, SessionInv, NEW r \in Runtimes, ReadTranscript(r)
    PROVE SessionInv'
  <1>1. ProcessesTyped /\ TurnsTyped /\ CallsTyped /\ LivesSafe /\ CallsKept
    BY SessionStates DEF SessionInv
  <1>2. /\ recovery[r].pc = "reading"
        /\ recovery' = [recovery EXCEPT ![r] = [pc |-> "answering", pending |-> Pending]]
        /\ overlapped' = overlapped \cup
             {c \in Pending : \E t \in Turns : c \in turn[t].todo /\ turn[t].on = r}
        /\ UNCHANGED <<runtime, writer, turn, lane, call, issued, sessionFaults>>
    BY DEF ReadTranscript
  <1>3. /\ recovery' = [recovery EXCEPT ![r] = recovery'[r]] /\ recovery'[r] \in RecoveryState
        /\ recovery'[r].pc = "answering" /\ recovery'[r].pending = Pending
    <2>1. Pending \in SUBSET Calls
      BY DEF Pending
    <2> QED BY <1>1, <1>2, <2>1 DEF ProcessesTyped, RecoveryState
  <1>4. overlapped' \subseteq Calls /\ overlapped \subseteq overlapped'
    BY <1>1, <1>2 DEF CallsTyped, Pending
  <1>5. \A c \in Calls : RecordSafe(c)' /\ call'[c].recorded = call[c].recorded
    BY <1>1, <1>2, <1>4 DEF CallsKept, RecordSafe
  <1>6. ASSUME NEW t \in Turns, NEW c \in turn[t].todo PROVE TodoSafe(t, c)'
    BY <1>1, <1>2, <1>4, <1>6 DEF CallsKept, TodoSafe, Ahead
  <1>7. ASSUME NEW c \in Pending PROVE PendingSafe(r, c)'
    <2>1. c \in Calls /\ call[c].recorded /\ call[c].results = 0 /\ ~call[c].recovered
      <3>1. c \in Calls /\ RecordSafe(c)
        BY <1>1, <1>7 DEF CallsKept, Pending
      <3> QED BY <1>7, <3>1 DEF Pending, RecordSafe
    <2>2. \A t \in Turns : c \in turn[t].todo => c \in overlapped'
      BY <1>2, RecoveryAlone
    <2> QED BY <1>2, <1>3, <2>1, <2>2 DEF PendingSafe
  <1>8. OpeningSafe(r)'
    BY <1>2, <1>3 DEF OpeningSafe, Pending
  <1>9. call' \in [Calls -> CallRecord]
    BY <1>1, <1>2 DEF CallsTyped
  <1> QED BY <1>2, <1>3, <1>4, <1>5, <1>6, <1>7, <1>8, <1>9, RecoveryMoves

\* ReadAudits keeps the invariant.
LEMMA ReadAuditsKeeps ==
    ASSUME SessionConstants, SessionInv, NEW r \in Runtimes, ReadAudits(r)
    PROVE SessionInv'
  <1>1. ProcessesTyped /\ TurnsTyped /\ CallsTyped /\ LivesSafe /\ CallsKept
    BY SessionStates DEF SessionInv
  <1>2. /\ recovery[r].pc = "answering" /\ recovery[r].pending = {}
        /\ recovery' = [recovery EXCEPT ![r] = [pc |-> "auditing", pending |-> Unaudited]]
        /\ UNCHANGED <<runtime, writer, turn, lane, call, issued, sessionFaults, overlapped>>
    BY DEF ReadAudits
  <1>3. /\ recovery' = [recovery EXCEPT ![r] = recovery'[r]] /\ recovery'[r] \in RecoveryState
        /\ recovery'[r].pc = "auditing" /\ recovery'[r].pending = Unaudited
    <2>1. Unaudited \in SUBSET Calls
      BY DEF Unaudited
    <2> QED BY <1>1, <1>2, <2>1 DEF ProcessesTyped, RecoveryState
  <1>4. \A c \in Calls : RecordSafe(c)' /\ call'[c].recorded = call[c].recorded
    BY <1>1, <1>2 DEF CallsKept, RecordSafe
  <1>5. ASSUME NEW t \in Turns, NEW c \in turn[t].todo PROVE TodoSafe(t, c)'
    BY <1>1, <1>2, <1>5 DEF CallsKept, TodoSafe, Ahead
  <1>6. ASSUME NEW c \in Unaudited PROVE PendingSafe(r, c)'
    <2>1. c \in Calls /\ call[c].recorded /\ call[c].audits = 0 /\ call[c].recovered
      <3>1. c \in Calls /\ RecordSafe(c)
        BY <1>1, <1>6 DEF CallsKept, Unaudited
      <3> QED BY <1>6, <3>1 DEF Unaudited, RecordSafe
    <2>2. \A t \in Turns : c \in turn[t].todo => c \in overlapped
      BY <1>1, <2>1 DEF CallsKept, TodoSafe
    <2> QED BY <1>2, <1>3, <2>1, <2>2 DEF PendingSafe
  <1>7. runtime[r] = "opening" => OpeningSafe(r)'
    <2>1. runtime[r] = "opening" => Pending = {}
      BY <1>1, <1>2 DEF CallsKept, OpeningSafe
    <2> QED BY <1>2, <1>3, <2>1 DEF OpeningSafe, Pending, Unaudited
  <1>8. call' \in [Calls -> CallRecord] /\ overlapped' \subseteq Calls
    BY <1>1, <1>2 DEF CallsTyped
  <1> QED BY <1>2, <1>3, <1>4, <1>5, <1>6, <1>7, <1>8, RecoveryMoves

\* What is left to a recovery loses one call.
LEMMA OneLess ==
    ASSUME ProcessesTyped, NEW r \in Runtimes, NEW c \in Calls,
           recovery' = [recovery EXCEPT ![r].pending = @ \ {c}]
    PROVE /\ recovery' = [recovery EXCEPT ![r] = recovery'[r]] /\ recovery'[r] \in RecoveryState
          /\ recovery'[r].pc = recovery[r].pc
          /\ recovery'[r].pending = recovery[r].pending \ {c}
  <1>1. recovery[r] \in RecoveryState /\ recovery[r].pending \ {c} \in SUBSET Calls
    BY DEF ProcessesTyped, RecoveryState
  <1> QED BY <1>1 DEF ProcessesTyped, RecoveryState

\* RecoverCall keeps the invariant.
LEMMA RecoverCallKeeps ==
    ASSUME SessionConstants, SessionInv, NEW r \in Runtimes, RecoverCall(r)
    PROVE SessionInv'
  <1>1. ProcessesTyped /\ TurnsTyped /\ CallsTyped /\ LivesSafe /\ CallsKept
    BY SessionStates DEF SessionInv
  <1>2. recovery[r].pc = "answering" /\ recovery[r].pending # {}
    BY DEF RecoverCall
  <1>3. PICK c \in Calls : c = First(recovery[r].pending) /\ c \in recovery[r].pending
    <2>1. recovery[r].pending \in SUBSET Calls
      BY <1>1 DEF ProcessesTyped, RecoveryState
    <2> QED BY <1>2, <2>1, FirstIsOne
  <1>4. CASE Mishap /\ GiveUp(r)
    BY <1>2, <1>4, GiveUpKeeps
  <1>5. CASE /\ call' = [call EXCEPT ![c].results = @ + 1, ![c].recovered = TRUE]
             /\ recovery' = [recovery EXCEPT ![r].pending = @ \ {c}]
             /\ UNCHANGED <<runtime, writer, turn, lane, issued, sessionFaults, overlapped>>
    <2>1. /\ recovery' = [recovery EXCEPT ![r] = recovery'[r]] /\ recovery'[r] \in RecoveryState
          /\ recovery'[r].pc = "answering" /\ recovery'[r].pending = recovery[r].pending \ {c}
      BY <1>1, <1>2, <1>5, OneLess
    <2>2. /\ call[c] \in CallRecord /\ RecordSafe(c) /\ PendingSafe(r, c)
          /\ call[c].recorded /\ ~call[c].recovered /\ call[c].results <= 1
          /\ c \notin overlapped => call[c].results = 0
      BY <1>1, <1>2, <1>3 DEF CallsTyped, CallsKept, PendingSafe, RecordSafe, Once
    <2>3. /\ call' \in [Calls -> CallRecord] /\ \A d \in Calls : d # c => call'[d] = call[d]
          /\ call'[c].recorded /\ call'[c].recovered /\ call'[c].results = call[c].results + 1
          /\ call'[c].audits = call[c].audits /\ call'[c].ran = call[c].ran
          /\ call'[c].group = call[c].group
      <3> DEFINE results == call[c].results + 1
                 k == [call[c] EXCEPT !.results = results, !.recovered = TRUE]
      <3>1. results \in 0 .. 2
        BY <2>2 DEF CallRecord
      <3>2. call' = [call EXCEPT ![c] = k]
        BY <1>1, <1>5 DEF CallsTyped
      <3> HIDE DEF results
      <3>3. /\ k \in CallRecord /\ k.recorded = call[c].recorded /\ k.recovered
            /\ k.results = results /\ k.audits = call[c].audits /\ k.ran = call[c].ran
            /\ k.group = call[c].group
        BY <2>2, <3>1 DEF CallRecord
      <3> HIDE DEF k
      <3>4. call'[c] = k
        BY <1>1, <3>2 DEF CallsTyped
      <3> QED BY <1>1, <2>2, <3>2, <3>3, <3>4 DEF CallsTyped, results
    <2>4. \A d \in Calls : RecordSafe(d)' /\ call'[d].recorded = call[d].recorded
      <3>1. RecordSafe(c)' /\ call'[c].recorded = call[c].recorded
        <4>1. call[c].results \in 0 .. 2 /\ ~(c > issued)
          BY <2>2 DEF CallRecord, RecordSafe, Fresh
        <4>2. call[c].ran <= 1 /\ issued' = issued /\ overlapped' = overlapped
          BY <1>5, <2>2 DEF RecordSafe
        <4>3. /\ call'[c].results <= 2 /\ call'[c].results >= 1
              /\ c \notin overlapped => call'[c].results <= 1
          BY <2>2, <2>3, <4>1
        <4>4. c \notin overlapped => call'[c].audits <= 1
          BY <2>2, <2>3 DEF RecordSafe
        <4> QED BY <2>2, <2>3, <4>1, <4>2, <4>3, <4>4 DEF RecordSafe, Once
      <3>2. ASSUME NEW d \in Calls, d # c
            PROVE RecordSafe(d)' /\ call'[d].recorded = call[d].recorded
        BY <1>1, <1>5, <2>3, <3>2 DEF CallsKept, RecordSafe
      <3> QED BY <3>1, <3>2
    <2>5. ASSUME NEW t \in Turns, NEW d \in turn[t].todo PROVE TodoSafe(t, d)'
      <3>1. d \in Calls /\ TodoSafe(t, d) /\ call[d].group \subseteq Calls
        BY <1>1 DEF CallsKept, TurnsTyped, TurnState, CallsTyped, CallRecord
      <3>2. \A e \in Calls : call'[e].recorded = call[e].recorded
        BY <2>4
      <3>3. CASE d = c
        <4>1. c \in overlapped
          BY <2>2, <3>3 DEF PendingSafe
        <4> QED BY <1>5, <2>2, <2>3, <3>1, <3>2, <3>3, <4>1 DEF TodoSafe, Ahead, Once
      <3>4. CASE d # c
        BY <1>5, <2>3, <3>1, <3>2, <3>4 DEF TodoSafe, Ahead
      <3> QED BY <3>3, <3>4
    <2>6. ASSUME NEW d \in recovery'[r].pending PROVE PendingSafe(r, d)'
      <3>1. d \in Calls /\ d # c /\ PendingSafe(r, d)
        BY <1>1, <2>1, <2>6 DEF CallsKept, ProcessesTyped, RecoveryState
      <3> QED BY <1>5, <2>1, <2>3, <3>1 DEF PendingSafe, Ahead
    <2>7. runtime[r] = "opening" => OpeningSafe(r)'
      <3>1. runtime[r] = "opening" => Pending \subseteq recovery[r].pending
        BY <1>1, <1>2 DEF CallsKept, OpeningSafe
      <3>2. call'[c].results # 0
        BY <2>2, <2>3 DEF CallRecord
      <3>3. Pending' \subseteq Pending \ {c}
        BY <2>3, <3>2 DEF Pending
      <3> QED BY <2>1, <3>1, <3>3 DEF OpeningSafe
    <2>8. overlapped' \subseteq Calls
      BY <1>1, <1>5 DEF CallsTyped
    <2> QED BY <1>2, <1>5, <2>1, <2>3, <2>4, <2>5, <2>6, <2>7, <2>8, RecoveryMoves
  <1> QED BY <1>3, <1>4, <1>5 DEF RecoverCall

\* AuditRecovered keeps the invariant.
LEMMA AuditRecoveredKeeps ==
    ASSUME SessionConstants, SessionInv, NEW r \in Runtimes, AuditRecovered(r)
    PROVE SessionInv'
  <1>1. ProcessesTyped /\ TurnsTyped /\ CallsTyped /\ LivesSafe /\ CallsKept
    BY SessionStates DEF SessionInv
  <1>2. recovery[r].pc = "auditing" /\ recovery[r].pending # {}
    BY DEF AuditRecovered
  <1>3. PICK c \in Calls : c = First(recovery[r].pending) /\ c \in recovery[r].pending
    <2>1. recovery[r].pending \in SUBSET Calls
      BY <1>1 DEF ProcessesTyped, RecoveryState
    <2> QED BY <1>2, <2>1, FirstIsOne
  <1>4. CASE Mishap /\ GiveUp(r)
    BY <1>2, <1>4, GiveUpKeeps
  <1>5. CASE /\ call' = [call EXCEPT ![c].audits = @ + 1]
             /\ recovery' = [recovery EXCEPT ![r].pending = @ \ {c}]
             /\ UNCHANGED <<runtime, writer, turn, lane, issued, sessionFaults, overlapped>>
    <2>1. /\ recovery' = [recovery EXCEPT ![r] = recovery'[r]] /\ recovery'[r] \in RecoveryState
          /\ recovery'[r].pc = "auditing" /\ recovery'[r].pending = recovery[r].pending \ {c}
      BY <1>1, <1>2, <1>5, OneLess
    <2>2. /\ call[c] \in CallRecord /\ RecordSafe(c) /\ PendingSafe(r, c)
          /\ call[c].recorded /\ call[c].recovered /\ call[c].audits <= 1
          /\ c \notin overlapped => call[c].audits = 0
      BY <1>1, <1>2, <1>3 DEF CallsTyped, CallsKept, PendingSafe
    <2>3. /\ call' \in [Calls -> CallRecord] /\ \A d \in Calls : d # c => call'[d] = call[d]
          /\ call'[c].recorded /\ call'[c].recovered /\ call'[c].results = call[c].results
          /\ call'[c].audits = call[c].audits + 1 /\ call'[c].ran = call[c].ran
          /\ call'[c].group = call[c].group
      <3>1. call[c].audits + 1 \in 0 .. 2
        BY <2>2 DEF CallRecord
      <3> QED BY <1>1, <1>5, <2>2, <3>1 DEF CallsTyped, CallRecord
    <2>4. \A d \in Calls : RecordSafe(d)' /\ call'[d].recorded = call[d].recorded
      <3>1. RecordSafe(c)' /\ call'[c].recorded = call[c].recorded
        <4>1. call[c].audits \in 0 .. 2 /\ ~(c > issued)
          BY <2>2 DEF CallRecord, RecordSafe, Fresh
        <4>2. issued' = issued /\ overlapped' = overlapped
          BY <1>5
        <4>3. c \notin overlapped => call'[c].audits <= 1
          BY <2>2, <2>3, <4>1
        <4>4. /\ call[c].results >= 1 /\ call[c].results <= 1 + 1 /\ call[c].ran <= 1
              /\ c \notin overlapped => call[c].results <= 1
          BY <2>2 DEF RecordSafe, Once
        <4> QED BY <2>2, <2>3, <4>1, <4>2, <4>3, <4>4 DEF RecordSafe, Once
      <3>2. ASSUME NEW d \in Calls, d # c
            PROVE RecordSafe(d)' /\ call'[d].recorded = call[d].recorded
        BY <1>1, <1>5, <2>3, <3>2 DEF CallsKept, RecordSafe
      <3> QED BY <3>1, <3>2
    <2>5. ASSUME NEW t \in Turns, NEW d \in turn[t].todo PROVE TodoSafe(t, d)'
      <3>1. d \in Calls /\ TodoSafe(t, d) /\ call[d].group \subseteq Calls
        BY <1>1 DEF CallsKept, TurnsTyped, TurnState, CallsTyped, CallRecord
      <3>2. \A e \in Calls : call'[e].recorded = call[e].recorded
        BY <2>4
      <3>3. CASE d = c
        <4>1. c \in overlapped /\ (Ahead(t, c) => call[c].audits = 0)
          BY <1>2, <2>2, <3>3 DEF PendingSafe
        <4> QED BY <1>5, <2>2, <2>3, <3>1, <3>2, <3>3, <4>1 DEF TodoSafe, Ahead, Once
      <3>4. CASE d # c
        BY <1>5, <2>3, <3>1, <3>2, <3>4 DEF TodoSafe, Ahead
      <3> QED BY <3>3, <3>4
    <2>6. ASSUME NEW d \in recovery'[r].pending PROVE PendingSafe(r, d)'
      <3>1. d \in Calls /\ d # c /\ PendingSafe(r, d)
        BY <1>1, <2>1, <2>6 DEF CallsKept, ProcessesTyped, RecoveryState
      <3> QED BY <1>2, <1>5, <2>1, <2>3, <3>1 DEF PendingSafe, Ahead
    <2>7. runtime[r] = "opening" => OpeningSafe(r)'
      <3>1. runtime[r] = "opening" => Pending = {} /\ Unaudited \subseteq recovery[r].pending
        BY <1>1, <1>2 DEF CallsKept, OpeningSafe
      <3>2. call'[c].audits # 0
        BY <2>2, <2>3 DEF CallRecord
      <3>3. Unaudited' \subseteq Unaudited \ {c} /\ Pending' \subseteq Pending
        BY <2>2, <2>3, <3>2 DEF Pending, Unaudited
      <3> QED BY <2>1, <3>1, <3>3 DEF OpeningSafe
    <2>8. overlapped' \subseteq Calls
      BY <1>1, <1>5 DEF CallsTyped
    <2> QED BY <1>2, <1>5, <2>1, <2>3, <2>4, <2>5, <2>6, <2>7, <2>8, RecoveryMoves
  <1> QED BY <1>3, <1>4, <1>5 DEF AuditRecovered

\* A session that no process opened satisfies the invariant.
LEMMA SessionStarts ==
    ASSUME SessionConstants, SessionInit
    PROVE SessionInv
  <1>1. Idle \in RecoveryState /\ Idle.pc = "none" /\ Idle.pending = {}
    BY DEF Idle, RecoveryState
  <1>2. NewTurn \in TurnState /\ NewTurn.pc = "new" /\ NewTurn.todo = {}
    BY DEF NewTurn, TurnState
  <1>3. /\ Fresh \in CallRecord /\ ~Fresh.recorded /\ ~Fresh.recovered
        /\ Fresh.results = 0 /\ Fresh.audits = 0 /\ Fresh.ran = 0
    BY DEF Fresh, CallRecord
  <1>4. ProcessesTyped
    BY <1>1 DEF SessionInit, ProcessesTyped, SessionConstants
  <1>5. TurnsTyped
    BY <1>2 DEF SessionInit, TurnsTyped
  <1>6. CallsTyped
    BY <1>3 DEF SessionInit, CallsTyped, SessionConstants
  <1>7. \A r \in Runtimes : RuntimeSafe(r)
    BY <1>1 DEF SessionInit, RuntimeSafe, SessionConstants
  <1>8. \A t \in Turns : TurnSafe(t)
    BY <1>2 DEF SessionInit, TurnSafe, Alive, Laned, AtCalls, SessionConstants
  <1>9. \A c \in Calls : RecordSafe(c)
    BY <1>3 DEF SessionInit, RecordSafe, Once
  <1>10. CallsKept
    BY <1>1, <1>2, <1>9 DEF SessionInit, CallsKept
  <1> QED BY <1>4, <1>5, <1>6, <1>7, <1>8, <1>10, SessionStates DEF SessionInv, LivesSafe

\* Every step keeps the invariant.
LEMMA SessionSteps ==
    ASSUME SessionConstants, SessionInv, [SessionNext]_sessionVars
    PROVE SessionInv'
  <1>1. ASSUME NEW r \in Runtimes,
               Open(r) \/ Resume(r) \/ RecoveryStep(r) \/ Interrupt(r) \/ Close(r) \/ Closed(r)
                 \/ Crash(r)
        PROVE SessionInv'
    BY <1>1, OpeningsKeep, ReadTranscriptKeeps, RecoverCallKeeps, ReadAuditsKeeps,
       AuditRecoveredKeeps, OpenedKeeps, CancelsKeep, ClosedKeeps, CrashKeeps
       DEF RecoveryStep
  <1>2. ASSUME NEW t \in Turns, (\E r \in Runtimes : Prompt(t, r)) \/ TurnStep(t)
        PROVE SessionInv'
    BY <1>2, TurnsKeep, IssueCallsKeeps, RecordCallKeeps, RunCallKeeps, AuditCallKeeps,
       AnswerCallKeeps
       DEF TurnStep
  <1>3. CASE UNCHANGED sessionVars
    <2>1. ProcessesTyped /\ TurnsTyped /\ CallsTyped /\ LivesSafe
      BY SessionStates DEF SessionInv
    <2>2. ProcessesTyped' /\ TurnsTyped' /\ CallsTyped'
      BY <1>3, <2>1 DEF sessionVars, ProcessesTyped, TurnsTyped, CallsTyped
    <2>3. LivesSafe'
      BY <1>3, <2>1 DEF sessionVars, LivesSafe, RuntimeSafe, TurnSafe, Alive
    <2>4. CallsKept'
      BY <1>3, CallsUntouched DEF sessionVars
    <2> QED BY <2>2, <2>3, <2>4, SessionTypedNext DEF SessionInv
  <1> QED BY <1>1, <1>2, <1>3 DEF SessionNext

\* The invariant holds in every reachable state of the session.
THEOREM SessionInvHolds ==
    ASSUME SessionConstants
    PROVE SessionSafety => []SessionInv
  <1>1. SessionInit => SessionInv
    BY SessionStarts
  <1>2. SessionInv /\ [SessionNext]_sessionVars => SessionInv'
    BY SessionSteps
  <1> QED BY <1>1, <1>2, PTL DEF SessionSafety

\* The types of the session, its turns and the records of its calls.
THEOREM SessionTyped ==
    ASSUME SessionConstants
    PROVE SessionSafety => []SessionTypeOK
  <1>1. SessionInv => SessionTypeOK
    BY DEF SessionInv
  <1> QED BY <1>1, SessionInvHolds, PTL

\* A call gets one result and one audit line at most, but for one that its own process recovered
\* under the turn that ran it.
THEOREM CallsAreSettledOnce ==
    ASSUME SessionConstants
    PROVE SessionSafety => []CallsSettledOnce
  <1>1. SessionInv => CallsSettledOnce
    BY DEF SessionInv, CallsKept, RecordSafe, CallsSettledOnce
  <1> QED BY <1>1, SessionInvHolds, PTL

\* Only RunCall runs a call, and the first that is left to its turn.
LEMMA OnlyRunCallRuns ==
    ASSUME SessionConstants, SessionInv, [SessionNext]_sessionVars, NEW c \in Calls,
           call'[c].ran # call[c].ran
    PROVE \E t \in Turns : RunCall(t) /\ c = First(turn[t].todo)
  <1>1. CallsTyped /\ call[c] \in CallRecord
    BY SessionStates DEF SessionInv, CallsTyped
  <1>2. call' # call
    OBVIOUS
  <1>3. ASSUME NEW b PROVE call' # [call EXCEPT ![b].recorded = TRUE]
    BY <1>1 DEF CallsTyped, CallRecord
  <1>4. ASSUME NEW b, NEW n PROVE call' # [call EXCEPT ![b].audits = n]
    BY <1>1 DEF CallsTyped, CallRecord
  <1>5. ASSUME NEW b, NEW n PROVE call' # [call EXCEPT ![b].results = n]
    BY <1>1 DEF CallsTyped, CallRecord
  <1>6. ASSUME NEW b, NEW n PROVE call' # [call EXCEPT ![b].results = n, ![b].recovered = TRUE]
    <2>1. ASSUME NEW k \in CallRecord
          PROVE [k EXCEPT !.results = n, !.recovered = TRUE].ran = k.ran
      BY DEF CallRecord
    <2>2. CASE b = c
      <3>1. ASSUME call' = [call EXCEPT ![b].results = n, ![b].recovered = TRUE]
            PROVE call'[c] = [call[c] EXCEPT !.results = n, !.recovered = TRUE]
        BY <1>1, <2>2, <3>1 DEF CallsTyped
      <3> QED BY <1>1, <2>1, <3>1
    <2>3. CASE b # c
      BY <1>1, <2>3 DEF CallsTyped
    <2> QED BY <2>2, <2>3
  <1>7. ASSUME NEW r \in Runtimes PROVE ~RecoverCall(r) /\ ~AuditRecovered(r)
    BY <1>2, <1>4, <1>6 DEF RecoverCall, AuditRecovered, GiveUp
  <1>8. ASSUME NEW t \in Turns PROVE ~RecordCall(t) /\ ~AuditCall(t) /\ ~AnswerCall(t)
    BY <1>2, <1>3, <1>4, <1>5 DEF RecordCall, AuditCall, AnswerCall
  <1>9. ASSUME NEW t \in Turns, NEW n \in 1 .. 2 PROVE ~IssueCalls(t, n)
    <2> SUFFICES ASSUME IssueCalls(t, n) PROVE FALSE
      OBVIOUS
    <2> DEFINE group == issued + 1 .. issued + n
    <2>1. call'[c] = call[c] \/ call'[c] = [call[c] EXCEPT !.group = group]
      BY DEF IssueCalls
    <2> HIDE DEF group
    <2>2. call'[c].ran = call[c].ran
      BY <1>1, <2>1 DEF CallRecord
    <2> QED BY <2>2
  <1>10. PICK t \in Turns : RunCall(t)
    BY <1>2, <1>7, <1>8, <1>9
       DEF SessionNext, sessionVars, Open, Resume, RecoveryStep, ReadTranscript, ReadAudits,
           Opened, Interrupt, Close, Closed, Crash, Prompt, TurnStep, TakeLane, LeaveQueue,
           ReadHistory, EndTurn
  <1>11. c = First(turn[t].todo)
    <2>1. call' = [call EXCEPT ![First(turn[t].todo)].ran = @ + 1]
      BY <1>2, <1>10 DEF RunCall
    <2> QED BY <1>1, <2>1 DEF CallsTyped
  <1> QED BY <1>10, <1>11

\* A call runs once, after every call of its answer was recorded, and not once it has a result.
THEOREM CallsRunRecorded ==
    ASSUME SessionConstants
    PROVE SessionSafety => RunsAreRecorded
  <1> DEFINE Recorded(c) == /\ call[c].ran = 0 /\ \A d \in call[c].group : call[d].recorded
                            /\ call[c].results = 0 \/ c \in overlapped
  <1>1. ASSUME SessionInv, [SessionNext]_sessionVars, NEW c \in Calls,
               call'[c].ran # call[c].ran
        PROVE Recorded(c)
    <2>1. PICK t \in Turns : RunCall(t) /\ c = First(turn[t].todo)
      BY <1>1, OnlyRunCallRuns
    <2>2. turn[t].pc = "gating" /\ TurnSafe(t) /\ turn[t].todo \in SUBSET Calls
      BY <1>1, <2>1, TurnStands DEF RunCall, TurnState
    <2>3. c \in turn[t].todo
      BY <2>1, <2>2, FirstIsOne DEF TurnSafe, AtCalls
    <2>4. TodoSafe(t, c)
      BY <1>1, <2>3 DEF SessionInv, CallsKept
    <2> QED BY <2>2, <2>4 DEF TodoSafe, Once
  <1>2. SessionInv /\ [SessionNext]_sessionVars =>
          [\A c \in Calls : call'[c].ran # call[c].ran => Recorded(c)]_sessionVars
    BY <1>1
  <1> QED BY <1>2, SessionInvHolds, PTL DEF SessionSafety, RunsAreRecorded

\* A process that opens the session finds a result for each recorded call, and an audit line for
\* each that a recovery answered.
THEOREM OpenedHistoryIsWhole ==
    ASSUME SessionConstants
    PROVE SessionSafety => OpenedHistoryReads
  <1> DEFINE Whole == \A c \in Calls \ overlapped :
               call[c].recorded => call[c].results = 1 /\ (call[c].recovered => call[c].audits = 1)
  <1>1. ASSUME SessionInv, [SessionNext]_sessionVars, NEW r \in Runtimes,
               runtime[r] = "opening", runtime'[r] = "open"
        PROVE Whole
    <2>0. runtime \in [Runtimes -> {"absent", "opening", "open", "closing"}]
      BY <1>1, SessionStates DEF SessionInv, ProcessesTyped
    <2>1. Opened(r)
      <3>1. PICK q \in Runtimes : Open(q) \/ RecoveryStep(q) \/ Close(q) \/ Closed(q) \/ Crash(q)
        BY <1>1 DEF SessionNext, sessionVars, Resume, Interrupt, Prompt, TurnStep, TakeLane,
                    LeaveQueue, ReadHistory, EndTurn, IssueCalls, RecordCall, RunCall, AuditCall,
                    AnswerCall
      <3>2. ~Open(q) /\ ~Close(q) /\ ~Closed(q) /\ ~Crash(q)
        BY <1>1, <2>0 DEF Open, Close, Closed, Crash
      <3>3. ~ReadTranscript(q) /\ ~ReadAudits(q)
        BY <1>1 DEF ReadTranscript, ReadAudits
      <3>4. ~RecoverCall(q) /\ ~AuditRecovered(q)
        BY <1>1, <2>0 DEF RecoverCall, AuditRecovered, GiveUp
      <3>5. Opened(q)
        BY <3>1, <3>2, <3>3, <3>4 DEF RecoveryStep
      <3> QED BY <1>1, <2>0, <3>5 DEF Opened
    <2>2. OpeningSafe(r) /\ recovery[r].pc = "auditing" /\ recovery[r].pending = {}
      BY <1>1, <2>1 DEF SessionInv, CallsKept, Opened
    <2>3. Pending = {} /\ Unaudited = {}
      BY <2>2 DEF OpeningSafe
    <2>4. ASSUME NEW c \in Calls \ overlapped, call[c].recorded
          PROVE call[c].results = 1 /\ (call[c].recovered => call[c].audits = 1)
      <3>1. call[c] \in CallRecord /\ RecordSafe(c)
        BY <1>1, <2>4, SessionStates DEF SessionInv, CallsKept, CallsTyped
      <3>2. call[c].results # 0 /\ (call[c].recovered => call[c].audits # 0)
        BY <2>3, <2>4 DEF Pending, Unaudited
      <3>3. call[c].results <= 1 /\ call[c].audits <= 1
        BY <2>4, <3>1 DEF RecordSafe
      <3>4. call[c].results \in 0 .. 2 /\ call[c].audits \in 0 .. 2
        BY <3>1 DEF CallRecord
      <3> QED BY <3>2, <3>3, <3>4
    <2> QED BY <2>4
  <1>2. SessionInv /\ [SessionNext]_sessionVars =>
          [\A r \in Runtimes : (runtime[r] = "opening" /\ runtime'[r] = "open") => Whole]_sessionVars
    BY <1>1
  <1> QED BY <1>2, SessionInvHolds, PTL DEF SessionSafety, OpenedHistoryReads

---------------------------------------------------------------------------
(***************************************************************************)
(* What a turn may claim (WorkerEvidence).  Versions are new, so a source  *)
(* that moved under a tool never looks as before: a binary that is         *)
(* published is of the source that was audited (BuildSafe), and a staged   *)
(* file is in the worker only where the import put it (PatchSafe).         *)
(***************************************************************************)
ToolSteps ==
  {"none", "begin", "driving", "applying", "undoing", "gates", "compiling", "publishing",
   "recording", "reviewing", "shipping"}
ToolState ==
  [name : Tools \cup {"none"}, step : ToolSteps, seen : Tree, stage : Tree,
   changes : SUBSET Files, applied : SUBSET Files, landed : SUBSET Files,
   proof : 0 .. MaxToolCalls]
GateState ==
  [required : BOOLEAN, worker : BOOLEAN, audit : BOOLEAN, build : BOOLEAN, source : Tree,
   id : 0 .. MaxToolCalls]
ProofState == [passed : BOOLEAN, source : Tree, id : 0 .. MaxToolCalls]
BuildState == [audited : BOOLEAN, source : Tree, audit : 0 .. MaxToolCalls, sha : Tree]
SpentState == [edits : 0 .. MaxEdits, calls : 0 .. MaxToolCalls, mishaps : 0 .. MaxFailures]
Statuses ==
  {"selected", "patching", "patched", "patch_failed", "auditing", "reviewed", "audit_failed",
   "built", "transferred"}
FilesTyped ==
  /\ audit \in ProofState /\ review \in ProofState /\ build \in BuildState /\ binary \in Tree
  /\ transfer \in [done : BOOLEAN, source : Tree]
TurnTyped ==
  /\ status \in Statuses /\ gate \in GateState /\ replayed \in GateState
  /\ loop \in {"idle", "asking", "calling", "completed"}
SourceTyped == source \in Tree /\ tool \in ToolState /\ spent \in SpentState
\* No version is from the future.
VersionsSafe ==
  \A f \in Files :
    source[f] <= spent.edits /\ tool.seen[f] <= spent.edits /\ tool.stage[f] <= spent.edits
BuildSafe ==
  /\ build.audited => build.sha = build.source
  /\ tool.name = "build" /\ tool.step = "recording" => binary = tool.seen
CompiledSafe ==
  tool.name = "build" /\ tool.step = "publishing" =>
    \A f \in Files : tool.stage[f] = tool.seen[f] \/ source[f] # tool.seen[f]
PatchSafe ==
  /\ tool.step # "undoing" => tool.landed = {}
  /\ tool.name = "patch" /\ tool.step \in {"applying", "undoing"} =>
       \A f \in tool.changes :
         /\ tool.seen[f] # tool.stage[f]
         /\ f \notin tool.applied \cup tool.landed => source[f] # tool.stage[f]
EvidenceInv ==
  /\ FilesTyped /\ TurnTyped /\ SourceTyped
  /\ VersionsSafe /\ BuildSafe /\ CompiledSafe /\ PatchSafe

\* The tree of no source, and of no version.
LEMMA UnsetTyped ==
    ASSUME EvidenceConstants
    PROVE Unset \in Tree /\ NoTool \in ToolState /\ 0 \in 0 .. MaxToolCalls
  <1>1. -1 \in -1 .. MaxEdits /\ 0 \in 0 .. MaxToolCalls
    BY DEF EvidenceConstants
  <1>2. Unset \in Tree
    BY <1>1 DEF Unset, Tree
  <1> QED BY <1>1, <1>2 DEF NoTool, ToolState, ToolSteps, Tools

\* A gate stays a gate whatever a tool tells it.
LEMMA GatesTyped ==
    ASSUME EvidenceConstants, NEW g \in GateState
    PROVE /\ \A name : Attempted(g, name) \in GateState /\ Refused(g, name) \in GateState
          /\ \A changed \in BOOLEAN : Wrote(g, changed) \in GateState
          /\ \A doc \in ProofState : Audited(g, doc) \in GateState
          /\ \A doc \in BuildState : Built(g, doc) \in GateState
          /\ Reconciled(g) \in GateState
  <1>1. Unset \in Tree /\ 0 \in 0 .. MaxToolCalls
    BY UnsetTyped
  <1>2. ASSUME NEW wrote \in BOOLEAN PROVE Demanding(g, wrote) \in GateState
    BY <1>1 DEF Demanding, GateState
  <1>3. ASSUME NEW name PROVE Attempted(g, name) \in GateState
    BY <1>2 DEF Attempted
  <1>4. ASSUME NEW name PROVE Refused(g, name) \in GateState
    <2>1. [g EXCEPT !.audit = FALSE, !.build = FALSE, !.source = Unset, !.id = 0] \in GateState
      BY <1>1 DEF GateState
    <2>2. [g EXCEPT !.build = FALSE] \in GateState
      BY DEF GateState
    <2>3. Refused(g, name) \in
            {g, [g EXCEPT !.build = FALSE],
             [g EXCEPT !.audit = FALSE, !.build = FALSE, !.source = Unset, !.id = 0]}
      BY DEF Refused
    <2> QED BY <2>1, <2>2, <2>3
  <1>5. ASSUME NEW changed \in BOOLEAN PROVE Wrote(g, changed) \in GateState
    BY <1>2 DEF Wrote
  <1>6. ASSUME NEW doc \in ProofState PROVE Audited(g, doc) \in GateState
    <2> DEFINE tree == IF doc.passed THEN doc.source ELSE Unset
               id == IF doc.passed THEN doc.id ELSE 0
    <2>1. tree \in Tree /\ id \in 0 .. MaxToolCalls /\ doc.passed \in BOOLEAN
      BY <1>1 DEF ProofState
    <2> HIDE DEF tree, id
    <2>2. [g EXCEPT !.audit = doc.passed, !.build = FALSE, !.source = tree, !.id = id] \in GateState
      BY <2>1 DEF GateState
    <2> QED BY <2>2 DEF Audited, tree, id
  <1>7. ASSUME NEW doc \in BuildState PROVE Built(g, doc) \in GateState
    <2>1. ASSUME NEW b \in BOOLEAN PROVE [g EXCEPT !.build = b] \in GateState
      BY DEF GateState
    <2>2. (g.audit /\ doc.audited /\ doc.source = g.source /\ doc.audit = g.id) \in BOOLEAN
      BY Zenon
    <2> QED BY <2>1, <2>2, Zenon DEF Built
  <1>8. Reconciled(g) \in GateState
    <2>1. ASSUME NEW a \in BOOLEAN, NEW b \in BOOLEAN
          PROVE [g EXCEPT !.audit = a, !.build = b] \in GateState
      BY DEF GateState
    <2> DEFINE a == Current(audit) /\ audit.source = g.source /\ audit.id = g.id
               b == /\ build.audited /\ build.source = audit.source
                    /\ build.audit = audit.id /\ build.sha = binary
    <2>2. Reconciled(g) \in {g, [g EXCEPT !.audit = a, !.build = a /\ b]}
      BY Zenon DEF Reconciled
    <2>3. a \in BOOLEAN /\ (a /\ b) \in BOOLEAN
      BY Zenon
    <2> HIDE DEF a, b
    <2> QED BY <2>1, <2>2, <2>3, Zenon
  <1> QED BY <1>3, <1>4, <1>5, <1>6, <1>7, <1>8

\* A tool that returns, fails or dies: what the invariant asks of the rest.
LEMMA ToolEnds ==
    ASSUME EvidenceConstants, EvidenceInv, tool' = NoTool, source' \in Tree,
           spent' \in SpentState, \A f \in Files : source'[f] <= spent'.edits,
           build'.audited => build'.sha = build'.source
    PROVE SourceTyped' /\ VersionsSafe' /\ BuildSafe' /\ CompiledSafe' /\ PatchSafe'
  <1>1. NoTool \in ToolState
    BY UnsetTyped
  <1>2. SourceTyped'
    BY <1>1 DEF SourceTyped
  <1>3. VersionsSafe'
    <2>1. \A f \in Files : NoTool.seen[f] = -1 /\ NoTool.stage[f] = -1
      BY DEF NoTool, Unset
    <2>2. spent'.edits \in Nat
      BY DEF SpentState, EvidenceConstants
    <2> QED BY <2>1, <2>2 DEF VersionsSafe
  <1>4. BuildSafe' /\ CompiledSafe' /\ PatchSafe'
    BY DEF BuildSafe, CompiledSafe, PatchSafe, NoTool
  <1> QED BY <1>2, <1>3, <1>4

\* A tool that ends as it finds the source, the edits and the last build.
LEMMA ToolEndsIdly ==
    ASSUME EvidenceConstants, EvidenceInv, tool' = NoTool, UNCHANGED <<source, spent, build>>
    PROVE SourceTyped' /\ VersionsSafe' /\ BuildSafe' /\ CompiledSafe' /\ PatchSafe'
  BY ToolEnds DEF EvidenceInv, SourceTyped, VersionsSafe, BuildSafe

\* A step that starts a tool, or moves one that neither builds nor patches by now.
LEMMA ToolMoves ==
    ASSUME EvidenceConstants, EvidenceInv, tool' \in ToolState, source' = source,
           spent' \in SpentState, spent'.edits = spent.edits, UNCHANGED <<build, binary>>,
           \A f \in Files : tool'.seen[f] <= spent.edits /\ tool'.stage[f] <= spent.edits,
           ~(tool'.name = "build" /\ tool'.step \in {"recording", "publishing"}),
           ~(tool'.name = "patch" /\ tool'.step \in {"applying", "undoing"}),
           tool'.step # "undoing" => tool'.landed = {}
    PROVE SourceTyped' /\ VersionsSafe' /\ BuildSafe' /\ CompiledSafe' /\ PatchSafe'
  BY DEF EvidenceInv, SourceTyped, VersionsSafe, BuildSafe, CompiledSafe, PatchSafe

\* A new version of a file.
LEMMA NewVersion ==
    ASSUME EvidenceConstants, EvidenceInv, NEW f \in Files, spent.edits < MaxEdits,
           source' = [source EXCEPT ![f] = NextVersion],
           spent' = [spent EXCEPT !.edits = NextVersion]
    PROVE /\ source' \in Tree /\ spent' \in SpentState /\ spent'.edits = spent.edits + 1
          /\ source'[f] = spent.edits + 1 /\ \A d \in Files : d # f => source'[d] = source[d]
          /\ spent.edits \in Nat /\ \A d \in Files : source'[d] <= spent'.edits
  <1>1. /\ spent.edits \in Nat /\ MaxEdits \in Nat /\ NextVersion = spent.edits + 1
        /\ NextVersion \in 0 .. MaxEdits /\ NextVersion \in -1 .. MaxEdits
    BY DEF EvidenceInv, SourceTyped, SpentState, EvidenceConstants, NextVersion
  <1>2. source \in [Files -> -1 .. MaxEdits] /\ spent \in SpentState
    BY DEF EvidenceInv, SourceTyped, Tree
  <1>3. /\ source' \in [Files -> -1 .. MaxEdits] /\ source'[f] = spent.edits + 1
        /\ \A d \in Files : d # f => source'[d] = source[d]
    BY <1>1, <1>2
  <1>4. spent' \in SpentState /\ spent'.edits = spent.edits + 1
    BY <1>1, <1>2 DEF SpentState
  <1>5. ASSUME NEW d \in Files PROVE source'[d] <= spent'.edits
    BY <1>1, <1>2, <1>3, <1>4 DEF EvidenceInv, VersionsSafe
  <1> QED BY <1>1, <1>3, <1>4, <1>5 DEF Tree

\* What a step knows of itself before it moves.
LEMMA EvidenceStands ==
    ASSUME EvidenceConstants, EvidenceInv
    PROVE /\ FilesTyped /\ TurnTyped /\ SourceTyped /\ VersionsSafe /\ BuildSafe
          /\ audit \in ProofState /\ build \in BuildState /\ gate \in GateState
          /\ replayed \in GateState /\ status \in Statuses /\ tool \in ToolState
          /\ source \in Tree /\ tool.seen \in Tree /\ tool.stage \in Tree
          /\ spent.edits \in Nat /\ spent.calls \in 0 .. MaxToolCalls
  BY DEF EvidenceInv, FilesTyped, TurnTyped, SourceTyped, ToolState, SpentState, EvidenceConstants

\* A tool that returns an error keeps the types of the turn.
LEMMA FailTyped ==
    ASSUME EvidenceConstants, EvidenceInv, Fail
    PROVE TurnTyped' /\ tool' = NoTool
  <1>1. gate' \in GateState /\ replayed' \in GateState /\ tool' = NoTool /\ loop' = "asking"
    BY EvidenceStands, GatesTyped DEF Fail, Returns
  <1>2. status' \in {status, "patch_failed", "audit_failed"}
    BY DEF Fail
  <1> QED BY <1>1, <1>2, EvidenceStands DEF TurnTyped, Statuses

\* A failed step is counted.
LEMMA FailureTyped ==
    ASSUME EvidenceConstants, EvidenceInv, Failure
    PROVE spent' \in SpentState /\ spent'.edits = spent.edits
  <1>1. spent.mishaps + 1 \in 0 .. MaxFailures
    BY DEF EvidenceInv, SourceTyped, SpentState, EvidenceConstants, Failure
  <1> QED BY <1>1 DEF Failure, EvidenceInv, SourceTyped, SpentState

\* The steps of the model loop keep the invariant.
LEMMA TurnsKeepEvidence ==
    ASSUME EvidenceConstants, EvidenceInv,
           \/ \E intent \in BOOLEAN : StartTurn(intent)
           \/ AnswerTurn \/ Exhaust \/ UNCHANGED evidenceVars
    PROVE EvidenceInv'
  <1>1. /\ FilesTyped /\ TurnTyped /\ SourceTyped /\ gate \in GateState /\ replayed \in GateState
        /\ status \in Statuses
    BY EvidenceStands
  <1>2. UNCHANGED <<source, audit, review, build, binary, transfer, status, replayed, tool, spent>>
    BY DEF StartTurn, AnswerTurn, Exhaust, evidenceVars, documents
  <1>3. gate' \in GateState /\ loop' \in {"idle", "asking", "calling", "completed"}
    <2>1. ASSUME NEW intent \in BOOLEAN, StartTurn(intent)
          PROVE gate' \in GateState /\ loop' = "asking"
      <3> DEFINE g == Reconciled(replayed)
      <3>1. g \in GateState
        BY <1>1, GatesTyped
      <3>2. gate' = Attempted(g, "write") \/ gate' = g
        BY <2>1, Zenon DEF StartTurn
      <3> HIDE DEF g
      <3> QED BY <2>1, <3>1, <3>2, GatesTyped DEF StartTurn
    <2>2. CASE AnswerTurn
      BY <1>1, <2>2, GatesTyped, Zenon DEF AnswerTurn
    <2>3. CASE Exhaust \/ UNCHANGED evidenceVars
      BY <1>1, <2>3 DEF Exhaust, evidenceVars, TurnTyped
    <2> QED BY <2>1, <2>2, <2>3
  <1>4. FilesTyped' /\ TurnTyped' /\ SourceTyped'
    BY <1>1, <1>2, <1>3 DEF FilesTyped, TurnTyped, SourceTyped
  <1>5. VersionsSafe' /\ BuildSafe' /\ CompiledSafe' /\ PatchSafe'
    BY <1>2 DEF EvidenceInv, VersionsSafe, BuildSafe, CompiledSafe, PatchSafe
  <1> QED BY <1>4, <1>5 DEF EvidenceInv

\* CallTool and ProcessDies keep the invariant.
LEMMA CallsKeepEvidence ==
    ASSUME EvidenceConstants, EvidenceInv, ProcessDies \/ \E name \in Tools : CallTool(name)
    PROVE EvidenceInv'
  <1>1. /\ FilesTyped /\ TurnTyped /\ SourceTyped /\ gate \in GateState /\ replayed \in GateState
        /\ status \in Statuses
    BY EvidenceStands
  <1>2. UNCHANGED <<source, audit, review, build, binary, transfer>>
    BY DEF CallTool, ProcessDies, documents
  <1>3. FilesTyped'
    BY <1>1, <1>2 DEF FilesTyped
  <1>4. CASE ProcessDies
    <2>1. TurnTyped'
      <3>1. replayed' \in GateState
        BY <1>1, <1>4, GatesTyped, Zenon DEF ProcessDies
      <3> QED BY <1>1, <1>4, <3>1 DEF ProcessDies, TurnTyped
    <2>2. SourceTyped' /\ VersionsSafe' /\ BuildSafe' /\ CompiledSafe' /\ PatchSafe'
      <3>1. /\ spent' \in SpentState /\ spent'.edits = spent.edits /\ tool' = NoTool
        BY <1>4, FailureTyped DEF ProcessDies
      <3>2. /\ source' \in Tree /\ \A f \in Files : source'[f] <= spent'.edits
            /\ build'.audited => build'.sha = build'.source
        BY <1>2, <3>1, EvidenceStands DEF VersionsSafe, BuildSafe
      <3> QED BY <3>1, <3>2, ToolEnds
    <2> QED BY <1>3, <2>1, <2>2 DEF EvidenceInv
  <1>5. ASSUME NEW name \in Tools, CallTool(name) PROVE EvidenceInv'
    <2>1. TurnTyped'
      <3>1. gate' \in GateState /\ replayed' \in GateState /\ loop' = "calling"
        BY <1>1, <1>5, GatesTyped DEF CallTool
      <3>2. status' \in {status, "patching", "auditing"}
        BY <1>5 DEF CallTool
      <3> QED BY <1>1, <3>1, <3>2 DEF TurnTyped, Statuses
    <2>2. spent' \in SpentState /\ spent'.edits = spent.edits
      <3>0. /\ spent.calls \in 0 .. MaxToolCalls /\ spent.calls < MaxToolCalls
            /\ MaxToolCalls \in Nat /\ spent \in SpentState
        BY <1>1, <1>5 DEF SourceTyped, SpentState, EvidenceConstants, CallTool
      <3>1. spent.calls + 1 \in 0 .. MaxToolCalls
        BY <3>0
      <3> QED BY <1>1, <1>5, <3>1 DEF CallTool, SourceTyped, SpentState
    <2>3. /\ tool' \in ToolState /\ tool'.step = "begin"
          /\ tool'.seen = NoTool.seen /\ tool'.stage = NoTool.stage
          /\ tool'.landed = NoTool.landed
      <3>1. ASSUME NEW k \in ToolState
            PROVE LET k1 == [k EXCEPT !.name = name, !.step = "begin"]
                  IN /\ k1 \in ToolState /\ k1.step = "begin"
                     /\ k1.seen = k.seen /\ k1.stage = k.stage /\ k1.landed = k.landed
        <4> DEFINE k2 == [k EXCEPT !.name = name]
                   k1 == [k2 EXCEPT !.step = "begin"]
        <4>1. k2 \in ToolState /\ k2.seen = k.seen /\ k2.stage = k.stage
              /\ k2.landed = k.landed
          BY DEF ToolState
        <4> HIDE DEF k2
        <4>2. "begin" \in ToolSteps
          BY DEF ToolSteps
        <4>3. /\ k1 \in ToolState /\ k1.step = "begin"
              /\ k1.seen = k2.seen /\ k1.stage = k2.stage /\ k1.landed = k2.landed
          BY <4>1, <4>2 DEF ToolState
        <4> QED BY <4>1, <4>3 DEF k2
      <3> QED BY <1>5, <3>1, UnsetTyped DEF CallTool
    <2>4. \A f \in Files : tool'.seen[f] <= spent.edits /\ tool'.stage[f] <= spent.edits
      <3>1. \A f \in Files : NoTool.seen[f] = -1 /\ NoTool.stage[f] = -1
        BY DEF NoTool, Unset
      <3> QED BY <2>3, <3>1, EvidenceStands
    <2>5. SourceTyped' /\ VersionsSafe' /\ BuildSafe' /\ CompiledSafe' /\ PatchSafe'
      <3>1. NoTool.landed = {}
        BY DEF NoTool
      <3> QED BY <1>2, <2>2, <2>3, <2>4, <3>1, ToolMoves
    <2> QED BY <1>3, <2>1, <2>5 DEF EvidenceInv
  <1> QED BY <1>4, <1>5

\* Every tool that returns an error keeps the invariant.
LEMMA FailuresKeepEvidence ==
    ASSUME EvidenceConstants, EvidenceInv,
           WriteFails \/ PatchRefused \/ UndoneAll \/ InspectFails \/ BuildFails \/ TransferFails
    PROVE EvidenceInv'
  <1>1. FilesTyped /\ TurnTyped /\ SourceTyped /\ VersionsSafe /\ BuildSafe /\ source \in Tree
    BY EvidenceStands
  <1>2. Fail /\ UNCHANGED <<source, audit, review, build, binary>>
    BY DEF WriteFails, PatchRefused, UndoneAll, InspectFails, BuildFails, TransferFails, documents
  <1>3. transfer' = transfer \/ transfer' = [done |-> FALSE, source |-> Unset]
    BY DEF WriteFails, PatchRefused, UndoneAll, InspectFails, BuildFails, TransferFails, documents
  <1>4. FilesTyped'
    <2>1. Unset \in Tree
      BY UnsetTyped
    <2>2. [done |-> FALSE, source |-> Unset] \in [done : BOOLEAN, source : Tree]
      BY <2>1
    <2> QED BY <1>1, <1>2, <1>3, <2>2 DEF FilesTyped
  <1>5. spent' \in SpentState /\ spent'.edits = spent.edits
    BY <1>1, FailureTyped
       DEF WriteFails, PatchRefused, UndoneAll, InspectFails, BuildFails, TransferFails,
           SourceTyped
  <1>6. TurnTyped' /\ tool' = NoTool
    BY <1>2, FailTyped
  <1>7. \A f \in Files : source'[f] <= spent'.edits
    BY <1>1, <1>2, <1>5 DEF VersionsSafe
  <1>8. SourceTyped' /\ VersionsSafe' /\ BuildSafe' /\ CompiledSafe' /\ PatchSafe'
    BY <1>1, <1>2, <1>5, <1>6, <1>7, ToolEnds DEF BuildSafe
  <1> QED BY <1>4, <1>6, <1>8 DEF EvidenceInv

\* What the tools return when they succeed keeps the invariant.
LEMMA ReturnsKeepEvidence ==
    ASSUME EvidenceConstants, EvidenceInv,
           \/ \E f \in Files : WriteFile(f)
           \/ WriteNothing
           \/ VerifyImport /\ source = tool.stage
           \/ \E ok \in BOOLEAN : FinishAudit(ok) \/ FinishReview(ok)
           \/ RecordBuild \/ Ship
    PROVE EvidenceInv'
  <1>1. /\ FilesTyped /\ TurnTyped /\ SourceTyped /\ VersionsSafe /\ BuildSafe
        /\ audit \in ProofState /\ build \in BuildState /\ gate \in GateState
        /\ replayed \in GateState /\ status \in Statuses /\ tool \in ToolState
        /\ source \in Tree /\ tool.seen \in Tree /\ spent.calls \in 0 .. MaxToolCalls
    BY EvidenceStands
  <1>2. ASSUME NEW changed \in BOOLEAN, Returns(Wrote(gate, changed), Wrote(replayed, changed)),
               status' \in {status, "patched"},
               UNCHANGED <<audit, review, build, binary, transfer>>,
               source' \in Tree, spent' \in SpentState, \A f \in Files : source'[f] <= spent'.edits
        PROVE EvidenceInv'
    <2>1. TurnTyped' /\ tool' = NoTool
      BY <1>1, <1>2, GatesTyped DEF Returns, TurnTyped, Statuses
    <2>2. FilesTyped'
      BY <1>1, <1>2 DEF FilesTyped
    <2>3. SourceTyped' /\ VersionsSafe' /\ BuildSafe' /\ CompiledSafe' /\ PatchSafe'
      BY <1>1, <1>2, <2>1, ToolEnds DEF BuildSafe
    <2> QED BY <2>1, <2>2, <2>3 DEF EvidenceInv
  <1>3. \A f \in Files : source[f] <= spent.edits
    BY <1>1 DEF VersionsSafe
  <1>4. ASSUME NEW f \in Files, WriteFile(f) PROVE EvidenceInv'
    <2>1. /\ source' \in Tree /\ spent' \in SpentState
          /\ \A d \in Files : source'[d] <= spent'.edits
      BY <1>4, NewVersion DEF WriteFile
    <2> QED BY <1>2, <1>4, <2>1 DEF WriteFile, documents
  <1>5. CASE WriteNothing
    BY <1>1, <1>2, <1>3, <1>5 DEF WriteNothing, documents, SourceTyped
  <1>6. CASE VerifyImport /\ source = tool.stage
    <2>1. PICK changed \in BOOLEAN : Returns(Wrote(gate, changed), Wrote(replayed, changed))
      BY <1>6, Zenon DEF VerifyImport
    <2> QED BY <1>1, <1>2, <1>3, <1>6, <2>1 DEF VerifyImport, documents, SourceTyped
  <1>7. ASSUME NEW ok \in BOOLEAN, FinishAudit(ok) PROVE EvidenceInv'
    <2> DEFINE report == [passed |-> ok /\ source = tool.seen, source |-> tool.seen,
                          id |-> spent.calls]
    <2>1. report \in ProofState
      <3>1. (ok /\ source = tool.seen) \in BOOLEAN
        BY Zenon
      <3> QED BY <1>1, <3>1 DEF ProofState
    <2>2. /\ audit' = report /\ status' \in {"reviewed", "audit_failed"}
          /\ Returns(Audited(gate, report), Audited(replayed, report))
          /\ UNCHANGED <<source, review, build, binary, transfer, spent>>
      BY <1>7, Zenon DEF FinishAudit
    <2> HIDE DEF report
    <2>3. TurnTyped' /\ tool' = NoTool
      BY <1>1, <2>1, <2>2, GatesTyped DEF Returns, TurnTyped, Statuses
    <2>4. FilesTyped'
      BY <1>1, <2>1, <2>2 DEF FilesTyped
    <2> QED BY <2>2, <2>3, <2>4, ToolEndsIdly DEF EvidenceInv
  <1>8. ASSUME NEW ok \in BOOLEAN, FinishReview(ok) PROVE EvidenceInv'
    <2>1. TurnTyped' /\ tool' = NoTool
      BY <1>1, <1>8 DEF FinishReview, Returns, TurnTyped, Statuses
    <2>2. FilesTyped'
      BY <1>1, <1>8 DEF FinishReview, FilesTyped, ProofState
    <2>3. UNCHANGED <<source, spent, build>>
      BY <1>8 DEF FinishReview
    <2> QED BY <2>1, <2>2, <2>3, ToolEndsIdly DEF EvidenceInv
  <1>9. CASE RecordBuild
    <2> DEFINE artifact == [audited |-> TRUE, source |-> tool.seen, audit |-> audit.id,
                            sha |-> binary]
    <2>1. artifact \in BuildState
      BY <1>1 DEF BuildState, ProofState, FilesTyped
    <2>2. /\ build' = artifact /\ status' = "built" /\ binary = tool.seen
          /\ Returns(Built(gate, artifact), Built(replayed, artifact))
          /\ UNCHANGED <<source, audit, review, binary, transfer, spent>>
      BY <1>1, <1>9 DEF RecordBuild, AtStep, BuildSafe
    <2>3. build'.sha = build'.source
      BY <2>2
    <2> HIDE DEF artifact
    <2>4. TurnTyped' /\ tool' = NoTool
      BY <1>1, <2>1, <2>2, GatesTyped DEF Returns, TurnTyped, Statuses
    <2>5. FilesTyped'
      BY <1>1, <2>1, <2>2 DEF FilesTyped
    <2>6. SourceTyped' /\ VersionsSafe' /\ BuildSafe' /\ CompiledSafe' /\ PatchSafe'
      BY <1>1, <1>3, <2>2, <2>3, <2>4, ToolEnds DEF SourceTyped
    <2> QED BY <2>4, <2>5, <2>6 DEF EvidenceInv
  <1>10. CASE Ship
    <2>1. TurnTyped' /\ tool' = NoTool
      BY <1>1, <1>10 DEF Ship, Returns, TurnTyped, Statuses
    <2>2. FilesTyped'
      BY <1>1, <1>10 DEF Ship, FilesTyped
    <2>3. UNCHANGED <<source, spent, build>>
      BY <1>10 DEF Ship
    <2> QED BY <2>1, <2>2, <2>3, ToolEndsIdly DEF EvidenceInv
  <1> QED BY <1>4, <1>5, <1>6, <1>7, <1>8, <1>9, <1>10

\* A tool that moves to another step keeps its record.
LEMMA ToolFields ==
    ASSUME EvidenceConstants, NEW k \in ToolState
    PROVE /\ \A s \in ToolSteps :
               LET t == [k EXCEPT !.step = s]
               IN /\ t \in ToolState /\ t.step = s /\ t.name = k.name /\ t.seen = k.seen
                  /\ t.stage = k.stage /\ t.changes = k.changes /\ t.applied = k.applied
                  /\ t.landed = k.landed
          /\ \A v \in Tree :
               LET t == [k EXCEPT !.seen = v]
               IN /\ t \in ToolState /\ t.step = k.step /\ t.name = k.name /\ t.seen = v
                  /\ t.stage = k.stage /\ t.landed = k.landed
          /\ \A v \in Tree :
               LET t == [k EXCEPT !.stage = v]
               IN /\ t \in ToolState /\ t.step = k.step /\ t.name = k.name /\ t.seen = k.seen
                  /\ t.stage = v /\ t.changes = k.changes /\ t.applied = k.applied
                  /\ t.landed = k.landed
          /\ \A c \in SUBSET Files :
               LET t == [k EXCEPT !.changes = c]
               IN /\ t \in ToolState /\ t.step = k.step /\ t.name = k.name /\ t.seen = k.seen
                  /\ t.stage = k.stage /\ t.changes = c /\ t.landed = k.landed
          /\ \A c \in SUBSET Files :
               LET t == [k EXCEPT !.applied = c]
               IN /\ t \in ToolState /\ t.step = k.step /\ t.name = k.name /\ t.seen = k.seen
                  /\ t.stage = k.stage /\ t.changes = k.changes /\ t.applied = c
                  /\ t.landed = k.landed
          /\ \A c \in SUBSET Files :
               LET t == [k EXCEPT !.landed = c]
               IN /\ t \in ToolState /\ t.step = k.step /\ t.name = k.name /\ t.seen = k.seen
                  /\ t.stage = k.stage /\ t.changes = k.changes /\ t.applied = k.applied
                  /\ t.landed = c
          /\ \A p \in 0 .. MaxToolCalls :
               LET t == [k EXCEPT !.proof = p]
               IN /\ t \in ToolState /\ t.step = k.step /\ t.name = k.name /\ t.seen = k.seen
                  /\ t.stage = k.stage /\ t.landed = k.landed
  BY DEF ToolState

\* The steps that read the source before a tool acts keep the invariant.
LEMMA ReadsKeepEvidence ==
    ASSUME EvidenceConstants, EvidenceInv,
           \/ StagePatch \/ BeginBuild \/ CheckAudit \/ CheckReview
           \/ \E name \in {"audit", "review"} : Inspect(name)
    PROVE EvidenceInv'
  <1>1. /\ FilesTyped /\ TurnTyped /\ SourceTyped /\ VersionsSafe
        /\ audit \in ProofState /\ tool \in ToolState /\ source \in Tree
        /\ \A f \in Files : source[f] <= spent.edits
        /\ \A f \in Files : tool.seen[f] <= spent.edits /\ tool.stage[f] <= spent.edits
    BY EvidenceStands DEF VersionsSafe
  <1>2. /\ UNCHANGED <<source, documents, status, gate, replayed, loop, spent>>
        /\ tool.step \in {"begin", "reviewing"}
    BY DEF StagePatch, BeginBuild, CheckAudit, CheckReview, Inspect, Step, AtStep
  <1>3. UNCHANGED <<source, audit, review, build, binary, transfer, status, gate, replayed, loop,
                    spent>>
    BY <1>2 DEF documents
  <1>4. FilesTyped' /\ TurnTyped' /\ spent' \in SpentState /\ spent'.edits = spent.edits
    BY <1>1, <1>3 DEF FilesTyped, TurnTyped, SourceTyped
  <1>5. tool.landed = {}
    BY <1>2 DEF EvidenceInv, PatchSafe
  <1>6. {"driving", "compiling", "reviewing", "shipping", "gates"} \subseteq ToolSteps
    BY DEF ToolSteps
  <1>7. /\ tool' \in ToolState /\ tool'.landed = {} /\ tool'.name = tool.name
        /\ tool'.step \in {"driving", "compiling", "reviewing", "shipping", "gates"}
        /\ tool'.seen \in {source, tool.seen} /\ tool'.stage \in {source, tool.stage}
    <2>1. CASE StagePatch
      <3> DEFINE k1 == [tool EXCEPT !.step = "driving"]
                 k2 == [k1 EXCEPT !.seen = source]
                 k3 == [k2 EXCEPT !.stage = source]
      <3>1. tool' = k3
        BY <2>1, <1>1 DEF StagePatch, ToolState
      <3>2. k1 \in ToolState /\ k1.landed = {} /\ k1.name = tool.name /\ k1.step = "driving"
        BY <1>1, <1>5, <1>6, ToolFields
      <3> HIDE DEF k1
      <3>3. /\ k2 \in ToolState /\ k2.landed = {} /\ k2.name = tool.name /\ k2.step = "driving"
            /\ k2.seen = source
        BY <1>1, <3>2, ToolFields
      <3> HIDE DEF k2
      <3>4. /\ k3 \in ToolState /\ k3.landed = {} /\ k3.name = tool.name /\ k3.step = "driving"
            /\ k3.seen = source /\ k3.stage = source
        BY <1>1, <3>3, ToolFields
      <3> HIDE DEF k3
      <3> QED BY <3>1, <3>4
    <2>2. CASE BeginBuild
      <3> DEFINE k1 == [tool EXCEPT !.step = "compiling"]
                 k2 == [k1 EXCEPT !.seen = source]
                 k3 == [k2 EXCEPT !.proof = audit.id]
      <3>1. tool' = k3 /\ audit.id \in 0 .. MaxToolCalls
        BY <2>2, <1>1 DEF BeginBuild, ToolState, ProofState
      <3>2. /\ k1 \in ToolState /\ k1.landed = {} /\ k1.name = tool.name /\ k1.step = "compiling"
            /\ k1.stage = tool.stage
        BY <1>1, <1>5, <1>6, ToolFields
      <3> HIDE DEF k1
      <3>3. /\ k2 \in ToolState /\ k2.landed = {} /\ k2.name = tool.name /\ k2.step = "compiling"
            /\ k2.seen = source /\ k2.stage = tool.stage
        BY <1>1, <3>2, ToolFields
      <3> HIDE DEF k2
      <3>4. /\ k3 \in ToolState /\ k3.landed = {} /\ k3.name = tool.name /\ k3.step = "compiling"
            /\ k3.seen = source /\ k3.stage = tool.stage
        BY <3>1, <3>3, ToolFields
      <3> HIDE DEF k3
      <3> QED BY <3>1, <3>4
    <2>3. ASSUME NEW s \in {"reviewing", "gates"},
                 tool' = [tool EXCEPT !.step = s, !.seen = source]
          PROVE /\ tool' \in ToolState /\ tool'.landed = {} /\ tool'.name = tool.name
                /\ tool'.step = s /\ tool'.seen = source /\ tool'.stage = tool.stage
      <3> DEFINE k1 == [tool EXCEPT !.step = s]
                 k2 == [k1 EXCEPT !.seen = source]
      <3>1. tool' = k2
        BY <2>3, <1>1 DEF ToolState
      <3>2. /\ k1 \in ToolState /\ k1.landed = {} /\ k1.name = tool.name /\ k1.step = s
            /\ k1.stage = tool.stage
        BY <1>1, <1>5, <1>6, ToolFields
      <3> HIDE DEF k1
      <3>3. /\ k2 \in ToolState /\ k2.landed = {} /\ k2.name = tool.name /\ k2.step = s
            /\ k2.seen = source /\ k2.stage = tool.stage
        BY <1>1, <3>2, ToolFields
      <3> HIDE DEF k2
      <3> QED BY <3>1, <3>3
    <2>4. CASE CheckAudit
      <3>1. audit.source = source /\ tool' = [tool EXCEPT !.step = "reviewing", !.seen = audit.source]
        BY <2>4 DEF CheckAudit, Current
      <3> QED BY <2>3, <3>1
    <2>5. CASE CheckReview
      <3>1. tool' = [tool EXCEPT !.step = "shipping"]
        BY <2>5 DEF CheckReview, Step
      <3> QED BY <1>1, <1>5, <1>6, <3>1, ToolFields
    <2>6. CASE \E name \in {"audit", "review"} : Inspect(name)
      <3>1. tool' = [tool EXCEPT !.step = "gates", !.seen = source]
        BY <2>6 DEF Inspect
      <3> QED BY <2>3, <3>1
    <2> QED BY <2>1, <2>2, <2>4, <2>5, <2>6
  <1>8. SourceTyped' /\ VersionsSafe' /\ BuildSafe' /\ CompiledSafe' /\ PatchSafe'
    BY <1>1, <1>3, <1>4, <1>7, ToolMoves
  <1> QED BY <1>4, <1>8 DEF EvidenceInv

\* The sandbox compiles a source that nobody edits meanwhile, or nothing is published.
LEMMA BuildsKeepEvidence ==
    ASSUME EvidenceConstants, EvidenceInv, Compile \/ PublishBinary
    PROVE EvidenceInv'
  <1>1. /\ FilesTyped /\ TurnTyped /\ SourceTyped /\ VersionsSafe /\ BuildSafe /\ CompiledSafe
        /\ tool \in ToolState /\ source \in Tree /\ tool.seen \in Tree /\ tool.stage \in Tree
        /\ \A f \in Files : source[f] <= spent.edits
        /\ \A f \in Files : tool.seen[f] <= spent.edits /\ tool.stage[f] <= spent.edits
    BY EvidenceStands DEF EvidenceInv, VersionsSafe
  <1>2. /\ UNCHANGED <<source, audit, review, build, transfer, status, gate, replayed, loop, spent>>
        /\ tool.name = "build" /\ tool.step \in {"compiling", "publishing"}
    BY DEF Compile, PublishBinary, Step, AtStep, documents
  <1>3. TurnTyped'
    BY <1>1, <1>2 DEF TurnTyped
  <1>4. tool.landed = {} /\ {"publishing", "recording"} \subseteq ToolSteps
    BY <1>2 DEF EvidenceInv, PatchSafe, ToolSteps
  <1>5. CASE Compile
    <2> DEFINE k1 == [tool EXCEPT !.step = "publishing"]
               k2 == [k1 EXCEPT !.stage = source]
    <2>1. tool' = k2 /\ binary' = binary
      BY <1>1, <1>5 DEF Compile, ToolState, documents
    <2>2. /\ k1 \in ToolState /\ k1.landed = {} /\ k1.name = "build" /\ k1.step = "publishing"
          /\ k1.seen = tool.seen
      BY <1>1, <1>2, <1>4, ToolFields
    <2> HIDE DEF k1
    <2>3. /\ k2 \in ToolState /\ k2.landed = {} /\ k2.name = "build" /\ k2.step = "publishing"
          /\ k2.seen = tool.seen /\ k2.stage = source
      BY <1>1, <2>2, ToolFields
    <2> HIDE DEF k2
    <2>4. FilesTyped' /\ SourceTyped'
      BY <1>1, <1>2, <2>1, <2>3 DEF FilesTyped, SourceTyped
    <2>5. VersionsSafe' /\ BuildSafe' /\ CompiledSafe' /\ PatchSafe'
      BY <1>1, <1>2, <2>1, <2>3 DEF VersionsSafe, BuildSafe, CompiledSafe, PatchSafe
    <2> QED BY <1>3, <2>4, <2>5 DEF EvidenceInv
  <1>6. CASE PublishBinary
    <2>1. tool' = [tool EXCEPT !.step = "recording"] /\ binary' = tool.stage /\ source = tool.seen
          /\ tool.step = "publishing"
      BY <1>6 DEF PublishBinary, Step, AtStep
    <2>2. /\ tool' \in ToolState /\ tool'.landed = {} /\ tool'.name = "build"
          /\ tool'.step = "recording" /\ tool'.seen = tool.seen /\ tool'.stage = tool.stage
      BY <1>1, <1>2, <1>4, <2>1, ToolFields
    <2>3. \A f \in Files : tool.stage[f] = tool.seen[f]
      BY <1>1, <1>2, <2>1 DEF CompiledSafe
    <2>4. tool.stage = tool.seen
      BY <1>1, <2>3 DEF Tree
    <2>5. FilesTyped' /\ SourceTyped'
      BY <1>1, <1>2, <2>1, <2>2 DEF FilesTyped, SourceTyped
    <2>6. VersionsSafe' /\ BuildSafe' /\ CompiledSafe' /\ PatchSafe'
      BY <1>1, <1>2, <2>1, <2>2, <2>4 DEF VersionsSafe, BuildSafe, CompiledSafe, PatchSafe
    <2> QED BY <1>3, <2>5, <2>6 DEF EvidenceInv
  <1> QED BY <1>5, <1>6

\* A write outside the session, or by the driver, gives a version no tool has seen.
LEMMA EditsKeepEvidence ==
    ASSUME EvidenceConstants, EvidenceInv, NEW f \in Files, EditSource(f)
    PROVE EvidenceInv'
  <1>1. /\ FilesTyped /\ TurnTyped /\ SourceTyped /\ tool \in ToolState /\ source \in Tree
        /\ spent.edits \in Nat /\ tool.seen \in Tree /\ tool.stage \in Tree
        /\ \A d \in Files : tool.seen[d] <= spent.edits /\ tool.stage[d] <= spent.edits
    BY EvidenceStands DEF VersionsSafe
  <1>2. /\ UNCHANGED <<audit, review, build, binary, transfer, status, gate, replayed, tool, loop>>
    BY DEF EditSource, documents
  <1>3. /\ source' \in Tree /\ spent' \in SpentState /\ spent'.edits = spent.edits + 1
        /\ source'[f] = spent.edits + 1 /\ \A d \in Files : d # f => source'[d] = source[d]
        /\ \A d \in Files : source'[d] <= spent'.edits
    BY NewVersion DEF EditSource
  <1>4. \A d \in Files : tool.seen[d] \in Int /\ tool.stage[d] \in Int
    BY <1>1 DEF Tree
  <1>5. \A d \in Files : /\ source'[d] # source[d] => d = f
                         /\ source'[f] # tool.seen[f] /\ source'[f] # tool.stage[f]
    BY <1>1, <1>3, <1>4
  <1>6. FilesTyped' /\ TurnTyped' /\ SourceTyped'
    BY <1>1, <1>2, <1>3 DEF FilesTyped, TurnTyped, SourceTyped
  <1>7. VersionsSafe'
    BY <1>1, <1>2, <1>3, <1>4 DEF VersionsSafe
  <1>8. BuildSafe'
    BY <1>2 DEF EvidenceInv, BuildSafe
  <1>9. CompiledSafe'
    BY <1>2, <1>3, <1>5 DEF EvidenceInv, CompiledSafe
  <1>10. PatchSafe'
    <2>1. tool.changes \subseteq Files
      BY <1>1 DEF ToolState
    <2> QED BY <1>2, <1>3, <1>5, <2>1 DEF EvidenceInv, PatchSafe
  <1> QED BY <1>6, <1>7, <1>8, <1>9, <1>10 DEF EvidenceInv

\* The driver's own edits are of a version that the worker does not hold.
LEMMA DriverKeepsEvidence ==
    ASSUME EvidenceConstants, EvidenceInv, NEW changes \in SUBSET Files, DriverTurn(changes)
    PROVE EvidenceInv'
  <1> DEFINE stage == [f \in Files |-> IF f \in changes THEN NextVersion ELSE source[f]]
             k1 == [tool EXCEPT !.step = "applying"]
             k2 == [k1 EXCEPT !.changes = changes]
             k3 == [k2 EXCEPT !.stage = stage]
  <1>1. /\ FilesTyped /\ TurnTyped /\ SourceTyped /\ tool \in ToolState /\ source \in Tree
        /\ BuildSafe /\ spent.edits \in Nat
        /\ \A f \in Files : source[f] <= spent.edits
        /\ \A f \in Files : tool.seen[f] <= spent.edits /\ tool.stage[f] <= spent.edits
    BY EvidenceStands DEF VersionsSafe
  <1>2. /\ UNCHANGED <<source, audit, review, build, binary, transfer, status, gate, replayed, loop>>
        /\ tool.name = "patch" /\ tool.step = "driving" /\ source = tool.seen
        /\ changes # {} => spent.edits < MaxEdits
        /\ spent' = IF changes = {} THEN spent ELSE [spent EXCEPT !.edits = NextVersion]
    BY DEF DriverTurn, AtStep, documents
  <1>3. MaxEdits \in Nat /\ NextVersion = spent.edits + 1
    BY DEF EvidenceConstants, NextVersion
  <1>4. \A f \in Files : source[f] \in -1 .. MaxEdits
    BY <1>1 DEF Tree
  <1>5. spent' \in SpentState /\ spent'.edits \in {spent.edits, spent.edits + 1}
        /\ (changes # {} => spent'.edits = spent.edits + 1)
    <2>1. spent \in SpentState
      BY <1>1 DEF SourceTyped
    <2>2. CASE changes = {}
      BY <1>2, <2>1, <2>2
    <2>3. CASE changes # {}
      <3>1. NextVersion \in 0 .. MaxEdits
        BY <1>1, <1>2, <1>3, <2>3
      <3> QED BY <1>2, <1>3, <2>1, <2>3, <3>1 DEF SpentState
    <2> QED BY <2>2, <2>3
  <1>6. stage \in Tree
    <2>1. ASSUME NEW f \in changes PROVE NextVersion \in -1 .. MaxEdits
      BY <1>1, <1>2, <1>3
    <2> QED BY <1>4, <2>1 DEF Tree
  <1>7. /\ \A f \in changes : stage[f] = spent.edits + 1
        /\ \A f \in Files : f \notin changes => stage[f] = source[f]
        /\ \A f \in Files : stage[f] <= spent'.edits
    <2>1. \A f \in changes : stage[f] = spent.edits + 1
      BY <1>3
    <2>2. \A f \in Files : f \notin changes => stage[f] = source[f]
      OBVIOUS
    <2> HIDE DEF stage
    <2>3. ASSUME NEW f \in Files PROVE stage[f] <= spent'.edits
      <3>1. CASE f \in changes
        BY <1>1, <1>5, <2>1, <3>1
      <3>2. CASE f \notin changes
        BY <1>1, <1>4, <1>5, <2>2, <3>2
      <3> QED BY <3>1, <3>2
    <2> QED BY <2>1, <2>2, <2>3
  <1>8. tool' = k3 /\ tool.landed = {}
    BY <1>1, <1>2 DEF DriverTurn, ToolState, EvidenceInv, PatchSafe
  <1> HIDE DEF stage
  <1>9. "applying" \in ToolSteps
    BY DEF ToolSteps
  <1>10. /\ k1 \in ToolState /\ k1.landed = {} /\ k1.name = "patch" /\ k1.step = "applying"
         /\ k1.seen = tool.seen
    BY <1>1, <1>2, <1>8, <1>9, ToolFields
  <1> HIDE DEF k1
  <1>11. /\ k2 \in ToolState /\ k2.landed = {} /\ k2.name = "patch" /\ k2.step = "applying"
         /\ k2.seen = tool.seen /\ k2.changes = changes
    BY <1>10, ToolFields
  <1> HIDE DEF k2
  <1>12. /\ k3 \in ToolState /\ k3.landed = {} /\ k3.name = "patch" /\ k3.step = "applying"
         /\ k3.seen = tool.seen /\ k3.changes = changes /\ k3.stage = stage
    BY <1>6, <1>11, ToolFields
  <1> HIDE DEF k3
  <1>13. FilesTyped' /\ TurnTyped' /\ SourceTyped'
    BY <1>1, <1>2, <1>5, <1>8, <1>12 DEF FilesTyped, TurnTyped, SourceTyped
  <1>14. VersionsSafe'
    <2>1. \A f \in Files : source[f] <= spent'.edits
      BY <1>1, <1>4, <1>5
    <2> QED BY <1>2, <1>7, <1>8, <1>12, <2>1 DEF VersionsSafe
  <1>15. BuildSafe' /\ CompiledSafe'
    BY <1>1, <1>2, <1>8, <1>12 DEF BuildSafe, CompiledSafe
  <1>16. PatchSafe'
    <2>1. \A f \in changes : source[f] # stage[f]
      BY <1>1, <1>4, <1>7
    <2> QED BY <1>2, <1>8, <1>12, <2>1 DEF PatchSafe
  <1> QED BY <1>13, <1>14, <1>15, <1>16 DEF EvidenceInv

\* The steps of an import and of its rollback keep the invariant.
LEMMA ImportsKeepEvidence ==
    ASSUME EvidenceConstants, EvidenceInv,
           \/ \E f \in Files : ApplyChange(f) \/ ApplyFails(f) \/ UndoChange(f)
           \/ VerifyImport /\ source # tool.stage
    PROVE EvidenceInv'
  <1>1. /\ FilesTyped /\ TurnTyped /\ SourceTyped /\ BuildSafe
        /\ tool \in ToolState /\ source \in Tree /\ tool.seen \in Tree /\ tool.stage \in Tree
        /\ \A f \in Files : source[f] <= spent.edits
        /\ \A f \in Files : tool.seen[f] <= spent.edits /\ tool.stage[f] <= spent.edits
        /\ tool.applied \subseteq Files /\ tool.changes \subseteq Files
        /\ "undoing" \in ToolSteps
    BY EvidenceStands DEF VersionsSafe, ToolState, ToolSteps
  <1>2. /\ UNCHANGED <<audit, review, build, binary, transfer, status, gate, replayed, loop>>
        /\ tool.name = "patch" /\ tool.step \in {"applying", "undoing"}
    BY DEF ApplyChange, ApplyFails, UndoChange, VerifyImport, Step, AtStep, documents
  <1>3. /\ FilesTyped' /\ TurnTyped'
    BY <1>1, <1>2 DEF FilesTyped, TurnTyped
  <1>4. spent' \in SpentState /\ spent'.edits = spent.edits
    BY <1>1, FailureTyped
       DEF ApplyChange, ApplyFails, UndoChange, VerifyImport, Step, SourceTyped
  <1>5. ASSUME tool' \in ToolState, tool'.name = "patch", tool'.step \in {"applying", "undoing"},
               tool'.seen = tool.seen, tool'.stage = tool.stage, tool'.changes = tool.changes,
               source' \in Tree,
               \A f \in Files : source'[f] \in {source[f], tool.seen[f], tool.stage[f]},
               tool'.step # "undoing" => tool'.landed = {},
               \A f \in tool.changes :
                 f \notin tool'.applied \cup tool'.landed =>
                   \/ source'[f] = tool.seen[f]
                   \/ f \notin tool.applied \cup tool.landed /\ source'[f] = source[f]
        PROVE EvidenceInv'
    <2>1. SourceTyped' /\ VersionsSafe' /\ BuildSafe' /\ CompiledSafe'
      BY <1>1, <1>2, <1>4, <1>5 DEF SourceTyped, VersionsSafe, BuildSafe, CompiledSafe
    <2>2. \A f \in tool.changes :
            /\ tool.seen[f] # tool.stage[f]
            /\ f \notin tool.applied \cup tool.landed => source[f] # tool.stage[f]
      BY <1>2 DEF EvidenceInv, PatchSafe
    <2>3. PatchSafe'
      BY <1>5, <2>2 DEF PatchSafe
    <2> QED BY <1>3, <2>1, <2>3 DEF EvidenceInv
  <1>6. ASSUME NEW f \in Files, NEW v \in {tool.seen[f], tool.stage[f]},
               source' = [source EXCEPT ![f] = v]
        PROVE /\ source' \in Tree /\ source'[f] = v
              /\ \A d \in Files : d # f => source'[d] = source[d]
    BY <1>1, <1>6 DEF Tree
  <1>7. ASSUME NEW f \in Files, ApplyChange(f) PROVE EvidenceInv'
    <2>1. /\ source' = [source EXCEPT ![f] = tool.stage[f]]
          /\ tool' = [tool EXCEPT !.applied = @ \cup {f}] /\ tool.step = "applying"
      BY <1>7 DEF ApplyChange, AtStep
    <2>2. (tool.applied \cup {f}) \in SUBSET Files
      BY <1>1
    <2>3. /\ tool' \in ToolState /\ tool'.name = "patch" /\ tool'.step = "applying"
          /\ tool'.seen = tool.seen /\ tool'.stage = tool.stage /\ tool'.changes = tool.changes
          /\ tool'.applied = tool.applied \cup {f} /\ tool'.landed = tool.landed
      BY <1>1, <1>2, <2>1, <2>2, ToolFields
    <2>4. /\ source' \in Tree /\ source'[f] = tool.stage[f]
          /\ \A d \in Files : d # f => source'[d] = source[d]
      BY <1>6, <2>1
    <2>5. tool.landed = {}
      BY <2>1 DEF EvidenceInv, PatchSafe
    <2> QED BY <1>1, <1>5, <2>3, <2>4, <2>5
  <1>8. ASSUME NEW f \in Files, ApplyFails(f) PROVE EvidenceInv'
    <2>1. PICK landed \in BOOLEAN :
            /\ source' = IF landed THEN [source EXCEPT ![f] = tool.stage[f]] ELSE source
            /\ tool' = [tool EXCEPT !.step = "undoing", !.landed = IF landed THEN {f} ELSE {}]
      BY <1>8 DEF ApplyFails
    <2> DEFINE k1 == [tool EXCEPT !.step = "undoing"]
               l == IF landed THEN {f} ELSE {}
               k2 == [k1 EXCEPT !.landed = l]
    <2>2. tool' = k2 /\ l \in SUBSET Files /\ l \in {{}, {f}} /\ (landed => l = {f})
      BY <1>1, <2>1 DEF ToolState
    <2> HIDE DEF l
    <2>3. /\ k1 \in ToolState /\ k1.name = "patch" /\ k1.step = "undoing"
          /\ k1.seen = tool.seen /\ k1.stage = tool.stage /\ k1.changes = tool.changes
          /\ k1.applied = tool.applied
      BY <1>1, <1>2, ToolFields
    <2> HIDE DEF k1
    <2>4. /\ k2 \in ToolState /\ k2.name = "patch" /\ k2.step = "undoing"
          /\ k2.seen = tool.seen /\ k2.stage = tool.stage /\ k2.changes = tool.changes
          /\ k2.applied = tool.applied /\ k2.landed = l
      BY <2>2, <2>3, ToolFields
    <2> HIDE DEF k2
    <2>5. tool.landed = {}
      BY <1>8 DEF EvidenceInv, PatchSafe, ApplyFails, AtStep
    <2>6. CASE landed
      <3>1. /\ source' \in Tree /\ source'[f] = tool.stage[f]
            /\ \A d \in Files : d # f => source'[d] = source[d]
        BY <1>6, <2>1, <2>6
      <3> QED BY <1>1, <1>5, <2>2, <2>4, <2>5, <2>6, <3>1
    <2>7. CASE ~landed
      <3>1. source' = source
        BY <2>1, <2>7
      <3> QED BY <1>1, <1>5, <2>2, <2>4, <2>5, <3>1
    <2> QED BY <2>6, <2>7
  <1>9. ASSUME NEW f \in Files, UndoChange(f) PROVE EvidenceInv'
    <2>1. /\ source' = [source EXCEPT ![f] = tool.seen[f]]
          /\ tool' = [tool EXCEPT !.applied = @ \ {f}] /\ tool.step = "undoing"
      BY <1>9 DEF UndoChange, AtStep
    <2>2. (tool.applied \ {f}) \in SUBSET Files
      BY <1>1
    <2>3. /\ tool' \in ToolState /\ tool'.name = "patch" /\ tool'.step = "undoing"
          /\ tool'.seen = tool.seen /\ tool'.stage = tool.stage /\ tool'.changes = tool.changes
          /\ tool'.applied = tool.applied \ {f} /\ tool'.landed = tool.landed
      BY <1>1, <1>2, <2>1, <2>2, ToolFields
    <2>4. /\ source' \in Tree /\ source'[f] = tool.seen[f]
          /\ \A d \in Files : d # f => source'[d] = source[d]
      BY <1>6, <2>1
    <2> QED BY <1>1, <1>5, <2>3, <2>4
  <1>10. CASE VerifyImport /\ source # tool.stage
    <2>1. tool' = [tool EXCEPT !.step = "undoing"] /\ source' = source
      BY <1>10 DEF VerifyImport, Step
    <2>2. /\ tool' \in ToolState /\ tool'.name = "patch" /\ tool'.step = "undoing"
          /\ tool'.seen = tool.seen /\ tool'.stage = tool.stage /\ tool'.changes = tool.changes
          /\ tool'.applied = tool.applied /\ tool'.landed = tool.landed
      BY <1>1, <1>2, <2>1, ToolFields
    <2> QED BY <1>1, <1>5, <2>1, <2>2
  <1> QED BY <1>7, <1>8, <1>9, <1>10

\* A worker as it was scaffolded, with no proof of anything.
LEMMA EvidenceStarts ==
    ASSUME EvidenceConstants, EvidenceInit
    PROVE EvidenceInv
  <1>1. Unset \in Tree /\ NoTool \in ToolState /\ 0 \in 0 .. MaxToolCalls
    BY UnsetTyped
  <1>2. 0 \in 0 .. MaxEdits /\ 0 \in 0 .. MaxFailures /\ 0 \in -1 .. MaxEdits
    BY DEF EvidenceConstants
  <1>3. /\ source = [f \in Files |-> 0] /\ audit = NoProof /\ review = NoProof
        /\ build = [audited |-> FALSE, source |-> Unset, audit |-> 0, sha |-> Unset]
        /\ binary = Unset /\ transfer = [done |-> FALSE, source |-> Unset]
        /\ status = "selected" /\ tool = NoTool /\ loop = "idle"
        /\ gate = [required |-> FALSE, worker |-> FALSE, audit |-> FALSE, build |-> FALSE,
                   source |-> Unset, id |-> 0]
        /\ replayed = gate /\ spent = [edits |-> 0, calls |-> 0, mishaps |-> 0]
    BY DEF EvidenceInit
  <1>4. FilesTyped
    <2>1. audit \in ProofState /\ review \in ProofState
      BY <1>1, <1>3 DEF NoProof, ProofState
    <2>2. build \in BuildState
      BY <1>1, <1>3 DEF BuildState
    <2>3. [done |-> FALSE, source |-> Unset] \in [done : BOOLEAN, source : Tree]
      BY <1>1
    <2> QED BY <1>1, <1>3, <2>1, <2>2, <2>3 DEF FilesTyped
  <1>5. TurnTyped
    <2>1. gate \in GateState
      BY <1>1, <1>3 DEF GateState
    <2> QED BY <1>3, <2>1 DEF TurnTyped, Statuses
  <1>6. SourceTyped
    <2>1. source \in Tree
      BY <1>2, <1>3 DEF Tree
    <2>2. spent \in SpentState
      BY <1>1, <1>2, <1>3 DEF SpentState
    <2> QED BY <1>1, <1>3, <2>1, <2>2 DEF SourceTyped
  <1>7. VersionsSafe
    <2>1. \A f \in Files : NoTool.seen[f] = -1 /\ NoTool.stage[f] = -1 /\ source[f] = 0
      BY <1>3 DEF NoTool, Unset
    <2> QED BY <1>3, <2>1 DEF VersionsSafe
  <1>8. BuildSafe /\ CompiledSafe /\ PatchSafe
    BY <1>3 DEF BuildSafe, CompiledSafe, PatchSafe, NoTool
  <1> QED BY <1>4, <1>5, <1>6, <1>7, <1>8 DEF EvidenceInv

\* Every step keeps what the tools claim.
LEMMA EvidenceSteps ==
    ASSUME EvidenceConstants, EvidenceInv, [EvidenceNext]_evidenceVars
    PROVE EvidenceInv'
  <1>1. CASE \/ \E intent \in BOOLEAN : StartTurn(intent)
             \/ AnswerTurn \/ Exhaust \/ UNCHANGED evidenceVars
    BY <1>1, TurnsKeepEvidence
  <1>2. CASE ProcessDies \/ \E name \in Tools : CallTool(name)
    BY <1>2, CallsKeepEvidence
  <1>3. CASE \/ WriteFails \/ PatchRefused \/ UndoneAll \/ InspectFails \/ BuildFails
             \/ TransferFails
    BY <1>3, FailuresKeepEvidence
  <1>4. CASE \/ \E f \in Files : WriteFile(f)
             \/ WriteNothing
             \/ VerifyImport /\ source = tool.stage
             \/ \E ok \in BOOLEAN : FinishAudit(ok) \/ FinishReview(ok)
             \/ RecordBuild \/ Ship
    BY <1>4, ReturnsKeepEvidence
  <1>5. CASE \/ StagePatch \/ BeginBuild \/ CheckAudit \/ CheckReview
             \/ \E name \in {"audit", "review"} : Inspect(name)
    BY <1>5, ReadsKeepEvidence
  <1>6. CASE Compile \/ PublishBinary
    BY <1>6, BuildsKeepEvidence
  <1>7. CASE \E f \in Files : EditSource(f)
    BY <1>7, EditsKeepEvidence
  <1>8. CASE \E changes \in SUBSET Files : DriverTurn(changes)
    BY <1>8, DriverKeepsEvidence
  <1>9. CASE \/ \E f \in Files : ApplyChange(f) \/ ApplyFails(f) \/ UndoChange(f)
             \/ VerifyImport /\ source # tool.stage
    BY <1>9, ImportsKeepEvidence
  <1> QED BY <1>1, <1>2, <1>3, <1>4, <1>5, <1>6, <1>7, <1>8, <1>9 DEF EvidenceNext

\* The invariant holds in every reachable state.
THEOREM EvidenceInvHolds == ASSUME EvidenceConstants PROVE EvidenceSpec => []EvidenceInv
  <1> USE EvidenceConstants
  <1>1. EvidenceInit => EvidenceInv
    BY EvidenceStarts
  <1>2. EvidenceInv /\ [EvidenceNext]_evidenceVars => EvidenceInv'
    BY EvidenceSteps
  <1> QED BY <1>1, <1>2, PTL DEF EvidenceSpec

\* The variables keep their types.
THEOREM EvidenceTyped == ASSUME EvidenceConstants PROVE EvidenceSpec => []EvidenceTypeOK
  <1>1. EvidenceInv => EvidenceTypeOK
    <2> SUFFICES ASSUME EvidenceInv PROVE EvidenceTypeOK
      OBVIOUS
    <2>1. FilesTyped /\ TurnTyped /\ SourceTyped
      BY DEF EvidenceInv
    <2>2. tool.name \in Tools \cup {"none"} /\ tool.changes \subseteq Files
      BY <2>1 DEF SourceTyped, ToolState
    <2> QED BY <2>1, <2>2
         DEF FilesTyped, TurnTyped, SourceTyped, EvidenceTypeOK, ProofState, BuildState,
             GateState, SpentState, Statuses
  <1> QED BY <1>1, EvidenceInvHolds, PTL

\* A turn that wrote is accepted only on the evidence of what is on disk.
THEOREM CompletionProven == ASSUME EvidenceConstants PROVE EvidenceSpec => CompletionIsProven
  <1>1. ASSUME EvidenceInv, [EvidenceNext]_evidenceVars
        PROVE [loop' = "completed" /\ loop = "asking" /\ gate'.required =>
                 /\ gate'.worker
                 /\ audit.passed /\ audit.source = source
                 /\ build.audited /\ build.source = source
                 /\ binary = source]_evidenceVars
    <2> SUFFICES ASSUME loop' = "completed", loop = "asking", gate'.required
                 PROVE /\ gate'.worker
                       /\ audit.passed /\ audit.source = source
                       /\ build.audited /\ build.source = source
                       /\ binary = source
      OBVIOUS
    <2>1. AnswerTurn
      BY <1>1
         DEF EvidenceNext, evidenceVars, StartTurn, CallTool, Exhaust, ProcessDies, EditSource,
             WriteFile, WriteNothing, WriteFails, StagePatch, DriverTurn, PatchRefused,
             ApplyChange, ApplyFails, VerifyImport, UndoChange, UndoneAll, Inspect, FinishAudit,
             FinishReview, InspectFails, BeginBuild, Compile, PublishBinary, RecordBuild,
             BuildFails, CheckAudit, CheckReview, Ship, TransferFails, Fail, Returns, Step, AtStep
    <2> DEFINE sameAudit == Current(audit) /\ audit.source = gate.source /\ audit.id = gate.id
               sameBuild == /\ build.audited /\ build.source = audit.source
                            /\ build.audit = audit.id /\ build.sha = binary
               read == [gate EXCEPT !.audit = sameAudit, !.build = sameAudit /\ sameBuild]
    <2>2. gate \in GateState /\ Complete(gate') /\ gate' = Reconciled(gate)
      BY <1>1, <2>1, EvidenceStands DEF AnswerTurn
    <2>3. gate'.worker /\ gate'.audit /\ gate'.build
      BY <2>2 DEF Complete
    <2>4. gate.required /\ Complete(gate) /\ gate' = read
      <3>1. gate' = gate \/ gate' = read
        BY <2>2, Zenon DEF Reconciled
      <3>2. read.required = gate.required
        BY <2>2 DEF GateState
      <3> HIDE DEF read
      <3>3. gate.required
        BY <3>1, <3>2
      <3>4. gate' = gate => Complete(gate)
        BY <2>2
      <3>5. ~Complete(gate) => gate' = gate
        BY <2>2, Zenon DEF Reconciled
      <3>6. Complete(gate)
        BY <3>4, <3>5
      <3> QED BY <2>2, <3>3, <3>6, Zenon DEF Reconciled, read
    <2>5. read.audit = sameAudit /\ read.build = (sameAudit /\ sameBuild)
      <3>1. \A a, b : LET k == [gate EXCEPT !.audit = a, !.build = b]
                      IN k.audit = a /\ k.build = b
        BY <2>2 DEF GateState
      <3> QED BY <3>1, Zenon
    <2> HIDE DEF read
    <2>6. sameAudit /\ sameBuild
      BY <2>3, <2>4, <2>5, Zenon
    <2>7. build.audited => build.sha = build.source
      BY <1>1 DEF EvidenceInv, BuildSafe
    <2> QED BY <2>3, <2>6, <2>7 DEF Current
  <1> QED BY <1>1, EvidenceInvHolds, PTL DEF EvidenceSpec, CompletionIsProven

\* A patch leaves all of the driver's files, or none that the import put there.
THEOREM PatchesAreWhole == ASSUME EvidenceConstants PROVE EvidenceSpec => PatchIsWhole
  <1>1. ASSUME EvidenceInv, [EvidenceNext]_evidenceVars
        PROVE [tool.name = "patch" /\ tool.step \in {"applying", "undoing"} /\ tool' = NoTool
               /\ loop' = "asking" =>
                 IF status' = "patched"
                   THEN source = tool.stage
                   ELSE \A f \in tool.changes \ tool.landed : source[f] # tool.stage[f]]_evidenceVars
    <2> DEFINE Whole == IF status' = "patched"
                          THEN source = tool.stage
                          ELSE \A f \in tool.changes \ tool.landed : source[f] # tool.stage[f]
    <2> HIDE DEF Whole
    <2>0. SUFFICES ASSUME tool.name = "patch", tool.step \in {"applying", "undoing"},
                          tool' = NoTool, loop' = "asking"
                   PROVE Whole
      BY Zenon DEF Whole
    <2>1. tool' # tool
      BY <2>0 DEF NoTool
    <2>2. VerifyImport \/ UndoneAll \/ ProcessDies
      BY <1>1, <2>0, <2>1
         DEF EvidenceNext, evidenceVars, StartTurn, CallTool, AnswerTurn, Exhaust, EditSource,
             WriteFile, WriteNothing, WriteFails, StagePatch, DriverTurn, PatchRefused,
             ApplyChange, ApplyFails, UndoChange, Inspect, FinishAudit, FinishReview,
             InspectFails, BeginBuild, Compile, PublishBinary, RecordBuild, BuildFails,
             CheckAudit, CheckReview, Ship, TransferFails, AtStep
    <2>3. CASE VerifyImport
      <3>1. source = tool.stage /\ status' = "patched"
        <4>1. source # tool.stage => tool' = [tool EXCEPT !.step = "undoing"]
          BY <2>3 DEF VerifyImport, Step
        <4>2. [tool EXCEPT !.step = "undoing"].name = "patch"
          BY <1>1, <2>0, EvidenceStands DEF ToolState
        <4> QED BY <2>0, <2>3, <4>1, <4>2 DEF VerifyImport, NoTool
      <3> QED BY <3>1 DEF Whole
    <2>4. CASE UndoneAll
      <3>1. status' = "patch_failed" /\ tool.applied = {}
        BY <2>0, <2>4 DEF UndoneAll, Fail
      <3> QED BY <1>1, <2>0, <3>1 DEF EvidenceInv, PatchSafe, Whole
    <2>5. CASE ProcessDies
      BY <2>0, <2>5 DEF ProcessDies
    <2> QED BY <2>2, <2>3, <2>4, <2>5
  <1> QED BY <1>1, EvidenceInvHolds, PTL DEF EvidenceSpec, PatchIsWhole

---------------------------------------------------------------------------
(***************************************************************************)
(* The tunnel of a worker (TunnelManager).  A rejected token is watched by *)
(* its recovery timer from the step that marks it (RejectionIsWatched),    *)
(* and Close asks the life that runs to stop before it waits for it        *)
(* (CloseHalts); both are what IdleIsWatched and ClosedStaysDown rest on.  *)
(***************************************************************************)
TunnelSafety == TunnelInit /\ [][TunnelNext]_tunnelVars

RejectionIsWatched ==
  phase = "auth_failed" /\ Supervising /\ ~halting =>
    recoveryTimer = "armed" \/ resetter = "waiting" \/ \E r \in Trips : trip[r].step = "marking"
CloseHalts == closer \in {"asking", "waiting"} /\ Supervising => halting
StoppedIsDown == closer \in {"stopped", "done"} => ~Supervising
TunnelInv ==
  TunnelTypeOK /\ RejectionIsWatched /\ CloseHalts /\ StoppedIsDown /\ IdleIsWatched

\* The types: a token in memory is none or one that was set.
LEMMA TunnelTypesKeep ==
    ASSUME TunnelConstants, TunnelInv, TunnelNext PROVE TunnelTypeOK'
  <1>0. /\ None \in None .. MaxRotations /\ 0 .. MaxRotations \subseteq None .. MaxRotations
        /\ TunnelTypeOK
    BY DEF None, TunnelConstants, TunnelInv
  <1> USE <1>0 DEF TunnelTypeOK
  <1>1. CASE Attempt
    BY <1>1 DEF Attempt, Supervising, timers, tokens, callers
  <1>2. CASE Connected
    BY <1>2 DEF Connected, Supervising, timers, tokens, callers
  <1>3. CASE AttemptFails
    BY <1>3 DEF AttemptFails, Supervising, timers, tokens, callers
  <1>4. CASE BackoffElapses
    BY <1>4 DEF BackoffElapses, Supervising, timers, tokens, callers
  <1>5. CASE SeeStop
    BY <1>5 DEF SeeStop, Supervising, timers, tokens, callers
  <1>6. CASE Teardown
    BY <1>6 DEF Teardown, Released, Supervising, timers, tokens, callers
  <1>7. CASE DropRejectedToken
    BY <1>7 DEF DropRejectedToken, Supervising, timers, tokens, callers
  <1>8. CASE IdleClose
    BY <1>8 DEF IdleClose, RequestStop, Supervising, timers, tokens, callers
  <1>9. CASE AuthRecover
    BY <1>9 DEF AuthRecover, RequestStop, Supervising, timers, tokens, callers
  <1>10. CASE RotateToken
    <2>1. remote' = [env |-> remote.env + 1, worker |-> remote.worker]
      BY <1>10 DEF RotateToken
    <2>2. remote.env + 1 \in 0 .. MaxRotations
      BY <1>10 DEF RotateToken, TunnelConstants
    <2> QED BY <1>10, <2>1, <2>2 DEF RotateToken, timers, callers
  <1>11. CASE RestartWorker
    BY <1>11 DEF RestartWorker, Supervising, timers, tokens, callers
  <1>12. CASE BeginReset
    BY <1>12 DEF BeginReset, RequestStop, Supervising, timers, tokens, callers
  <1>13. CASE AwaitReset
    BY <1>13 DEF AwaitReset, CancelTimers, Awaited, Supervising, timers, tokens, callers
  <1>14. CASE FinishReset
    BY <1>14 DEF FinishReset, Supervising, timers, tokens, callers
  <1>15. CASE BeginClose
    BY <1>15 DEF BeginClose, RequestStop, Supervising, timers, tokens, callers
  <1>16. CASE AwaitClose
    BY <1>16 DEF AwaitClose, CancelTimers, Awaited, Supervising, timers, tokens, callers
  <1>17. CASE FinishClose
    BY <1>17 DEF FinishClose, Supervising, timers, tokens, callers
  <1>18. ASSUME NEW r \in Trips
        PROVE  \/ Begin(r) \/ EnsureStarts(r) \/ EnsureUp(r) \/ EnsureFails(r)
               \/ AdminToken(r) \/ Send(r) \/ Refetch(r) \/ RefetchFails(r)
               \/ Condemn(r) \/ MarkAuthFailed(r) \/ RequestFails(r) \/ Release(r)
               => TunnelTypeOK'
    <2>1. CASE Begin(r)
      BY <2>1 DEF Begin, StepsTo, Ends, StartSupervisor, Token, Supervising, timers, tokens,
                  callers
    <2>2. CASE EnsureStarts(r)
      BY <2>2 DEF EnsureStarts, StepsTo, Ends, StartSupervisor, Token, Supervising, timers,
         tokens,
                  callers
    <2>3. CASE EnsureUp(r)
      BY <2>3 DEF EnsureUp, StepsTo, Ends, StartSupervisor, Token, Supervising, timers, tokens,
                  callers
    <2>4. CASE EnsureFails(r)
      BY <2>4 DEF EnsureFails, StepsTo, Ends, StartSupervisor, Token, Supervising, timers, tokens,
                  callers
    <2>5. CASE AdminToken(r)
      BY <2>5 DEF AdminToken, StepsTo, Ends, StartSupervisor, Token, Supervising, timers, tokens,
                  callers
    <2>6. CASE Refetch(r)
      BY <2>6 DEF Refetch, StepsTo, Ends, StartSupervisor, Token, Supervising, timers, tokens,
                  callers
    <2>7. CASE RefetchFails(r)
      BY <2>7 DEF RefetchFails, StepsTo, Ends, StartSupervisor, Token, Supervising, timers,
         tokens,
                  callers
    <2>8. CASE Send(r)
      <3>1. /\ UNCHANGED <<phase, supervisor, halting, timers, tokens, resetter, closer>>
            /\ \/ Ends(r, "open") \/ StepsTo(r, "refetching") \/ Ends(r, "condemning")
        BY <2>8, Zenon DEF Send
      <3> QED BY <3>1 DEF Ends, StepsTo, timers, tokens
    <2>9. CASE Condemn(r)
      BY <2>9 DEF Condemn, StepsTo, Ends, StartSupervisor, Token, Supervising, timers, tokens,
                  callers
    <2>10. CASE MarkAuthFailed(r)
      BY <2>10 DEF MarkAuthFailed, StepsTo, Ends, StartSupervisor, Token, Supervising, timers,
         tokens,
                  callers
    <2>11. CASE RequestFails(r)
      BY <2>11 DEF RequestFails, StepsTo, Ends, StartSupervisor, Token, Supervising, timers,
         tokens,
                  callers
    <2>12. CASE Release(r)
      BY <2>12 DEF Release, StepsTo, Ends, StartSupervisor, Token, Supervising, timers, tokens,
                  callers
    <2> QED BY <2>1, <2>2, <2>3, <2>4, <2>5, <2>6, <2>7, <2>8, <2>9, <2>10, <2>11, <2>12
  <1> QED BY <1>1, <1>2, <1>3, <1>4, <1>5, <1>6, <1>7, <1>8, <1>9, <1>10, <1>11, <1>12, <1>13,
         <1>14, <1>15, <1>16, <1>17, <1>18 DEF TunnelNext

\* A token that is being marked, or was, is watched, until the tunnel stops or is reset: the
\* timer is armed in the step that swaps it for the idle timer.
LEMMA RejectionStaysWatched ==
    ASSUME TunnelConstants, TunnelInv, TunnelNext PROVE RejectionIsWatched'
  <1>1. CASE Attempt \/ Connected \/ AttemptFails \/ BackoffElapses \/ SeeStop \/ Teardown
    BY <1>1 DEF Attempt, Connected, AttemptFails, BackoffElapses, SeeStop, Teardown, TunnelInv,
         StepsTo, Ends, StartSupervisor, Released, RequestStop, CancelTimers, Awaited, Token,
         Accepted, Supervising, ManagerClosed, timers, tokens, callers, TunnelTypeOK,
         RejectionIsWatched, CloseHalts
  <1>2. CASE DropRejectedToken \/ IdleClose \/ AuthRecover \/ RotateToken \/ RestartWorker
    BY <1>2 DEF DropRejectedToken, IdleClose, AuthRecover, RotateToken, RestartWorker,
         TunnelInv, StepsTo, Ends, StartSupervisor, Released, RequestStop, CancelTimers,
         Awaited, Token, Accepted, Supervising, ManagerClosed, timers, tokens, callers,
         TunnelTypeOK, RejectionIsWatched, CloseHalts
  <1>3. CASE BeginReset \/ AwaitReset \/ FinishReset
    BY <1>3 DEF BeginReset, AwaitReset, FinishReset, TunnelInv, StepsTo, Ends, StartSupervisor,
         Released, RequestStop, CancelTimers, Awaited, Token, Accepted, Supervising,
         ManagerClosed, timers, tokens, callers, TunnelTypeOK, RejectionIsWatched, CloseHalts
  <1>4. CASE BeginClose \/ AwaitClose \/ FinishClose
    BY <1>4 DEF BeginClose, AwaitClose, FinishClose, TunnelInv, StepsTo, Ends, StartSupervisor,
         Released, RequestStop, CancelTimers, Awaited, Token, Accepted, Supervising,
         ManagerClosed, timers, tokens, callers, TunnelTypeOK, RejectionIsWatched, CloseHalts
  <1>5. ASSUME NEW r \in Trips, Begin(r) \/ EnsureStarts(r) \/ EnsureUp(r) \/ EnsureFails(r)
        PROVE RejectionIsWatched'
    BY <1>5 DEF Begin, EnsureStarts, EnsureUp, EnsureFails, TunnelInv, StepsTo, Ends,
         StartSupervisor, Released, RequestStop, CancelTimers, Awaited, Token, Accepted,
         Supervising, ManagerClosed, timers, tokens, callers, TunnelTypeOK, RejectionIsWatched,
         CloseHalts
  <1>6. ASSUME NEW r \in Trips, AdminToken(r) \/ Refetch(r) \/ RefetchFails(r)
        PROVE RejectionIsWatched'
    BY <1>6 DEF AdminToken, Refetch, RefetchFails, TunnelInv, StepsTo, Ends, StartSupervisor,
         Released, RequestStop, CancelTimers, Awaited, Token, Accepted, Supervising,
         ManagerClosed, timers, tokens, callers, TunnelTypeOK, RejectionIsWatched, CloseHalts
  <1>7. ASSUME NEW r \in Trips, Send(r) PROVE RejectionIsWatched'
    BY <1>7 DEF Send, TunnelInv, StepsTo, Ends, StartSupervisor, Released, RequestStop,
         CancelTimers, Awaited, Token, Accepted, Supervising, ManagerClosed, timers, tokens,
         callers, TunnelTypeOK, RejectionIsWatched, CloseHalts
  <1>8. ASSUME NEW r \in Trips, Condemn(r) \/ MarkAuthFailed(r) \/ RequestFails(r) \/ Release(r)
        PROVE RejectionIsWatched'
    BY <1>8 DEF Condemn, MarkAuthFailed, RequestFails, Release, TunnelInv, StepsTo, Ends,
         StartSupervisor, Released, RequestStop, CancelTimers, Awaited, Token, Accepted,
         Supervising, ManagerClosed, timers, tokens, callers, TunnelTypeOK, RejectionIsWatched,
         CloseHalts
  <1> QED BY <1>1, <1>2, <1>3, <1>4, <1>5, <1>6, <1>7, <1>8 DEF TunnelNext

\* A closing manager starts no supervisor, and the one it finds was told to stop.
LEMMA CloseStaysHalting ==
    ASSUME TunnelConstants, TunnelInv, TunnelNext PROVE (CloseHalts /\ StoppedIsDown)'
  <1>1. CASE Attempt \/ Connected \/ AttemptFails \/ BackoffElapses \/ SeeStop \/ Teardown
    BY <1>1 DEF Attempt, Connected, AttemptFails, BackoffElapses, SeeStop, Teardown, TunnelInv,
         StepsTo, Ends, StartSupervisor, Released, RequestStop, CancelTimers, Awaited, Token,
         Accepted, Supervising, ManagerClosed, timers, tokens, callers, TunnelTypeOK,
         CloseHalts, StoppedIsDown
  <1>2. CASE DropRejectedToken \/ IdleClose \/ AuthRecover \/ RotateToken \/ RestartWorker
    BY <1>2 DEF DropRejectedToken, IdleClose, AuthRecover, RotateToken, RestartWorker,
         TunnelInv, StepsTo, Ends, StartSupervisor, Released, RequestStop, CancelTimers,
         Awaited, Token, Accepted, Supervising, ManagerClosed, timers, tokens, callers,
         TunnelTypeOK, CloseHalts, StoppedIsDown
  <1>3. CASE BeginReset \/ AwaitReset \/ FinishReset
    BY <1>3 DEF BeginReset, AwaitReset, FinishReset, TunnelInv, StepsTo, Ends, StartSupervisor,
         Released, RequestStop, CancelTimers, Awaited, Token, Accepted, Supervising,
         ManagerClosed, timers, tokens, callers, TunnelTypeOK, CloseHalts, StoppedIsDown
  <1>4. CASE BeginClose \/ AwaitClose \/ FinishClose
    BY <1>4 DEF BeginClose, AwaitClose, FinishClose, TunnelInv, StepsTo, Ends, StartSupervisor,
         Released, RequestStop, CancelTimers, Awaited, Token, Accepted, Supervising,
         ManagerClosed, timers, tokens, callers, TunnelTypeOK, CloseHalts, StoppedIsDown
  <1>5. ASSUME NEW r \in Trips, Begin(r) \/ EnsureStarts(r) \/ EnsureUp(r) \/ EnsureFails(r)
        PROVE (CloseHalts /\ StoppedIsDown)'
    BY <1>5 DEF Begin, EnsureStarts, EnsureUp, EnsureFails, TunnelInv, StepsTo, Ends,
         StartSupervisor, Released, RequestStop, CancelTimers, Awaited, Token, Accepted,
         Supervising, ManagerClosed, timers, tokens, callers, TunnelTypeOK, CloseHalts,
         StoppedIsDown
  <1>6. ASSUME NEW r \in Trips, AdminToken(r) \/ Refetch(r) \/ RefetchFails(r)
        PROVE (CloseHalts /\ StoppedIsDown)'
    BY <1>6 DEF AdminToken, Refetch, RefetchFails, TunnelInv, StepsTo, Ends, StartSupervisor,
         Released, RequestStop, CancelTimers, Awaited, Token, Accepted, Supervising,
         ManagerClosed, timers, tokens, callers, TunnelTypeOK, CloseHalts, StoppedIsDown
  <1>7. ASSUME NEW r \in Trips, Send(r) PROVE (CloseHalts /\ StoppedIsDown)'
    BY <1>7 DEF Send, TunnelInv, StepsTo, Ends, StartSupervisor, Released, RequestStop,
         CancelTimers, Awaited, Token, Accepted, Supervising, ManagerClosed, timers, tokens,
         callers, TunnelTypeOK, CloseHalts, StoppedIsDown
  <1>8. ASSUME NEW r \in Trips, Condemn(r) \/ MarkAuthFailed(r) \/ RequestFails(r) \/ Release(r)
        PROVE (CloseHalts /\ StoppedIsDown)'
    BY <1>8 DEF Condemn, MarkAuthFailed, RequestFails, Release, TunnelInv, StepsTo, Ends,
         StartSupervisor, Released, RequestStop, CancelTimers, Awaited, Token, Accepted,
         Supervising, ManagerClosed, timers, tokens, callers, TunnelTypeOK, CloseHalts,
         StoppedIsDown
  <1> QED BY <1>1, <1>2, <1>3, <1>4, <1>5, <1>6, <1>7, <1>8 DEF TunnelNext

\* The last use of a tunnel leaves it to a timer, and a timer that fires asks it to stop.
LEMMA IdleStaysWatched ==
    ASSUME TunnelConstants, TunnelInv, TunnelNext PROVE IdleIsWatched'
  <1>1. CASE Attempt \/ Connected \/ AttemptFails \/ BackoffElapses \/ SeeStop \/ Teardown
    BY <1>1 DEF Attempt, Connected, AttemptFails, BackoffElapses, SeeStop, Teardown, TunnelInv,
         StepsTo, Ends, StartSupervisor, Released, RequestStop, CancelTimers, Awaited, Token,
         Accepted, Supervising, ManagerClosed, timers, tokens, callers, TunnelTypeOK,
         RejectionIsWatched, CloseHalts, IdleIsWatched, InFlight
  <1>2. CASE DropRejectedToken \/ IdleClose \/ AuthRecover \/ RotateToken \/ RestartWorker
    BY <1>2 DEF DropRejectedToken, IdleClose, AuthRecover, RotateToken, RestartWorker,
         TunnelInv, StepsTo, Ends, StartSupervisor, Released, RequestStop, CancelTimers,
         Awaited, Token, Accepted, Supervising, ManagerClosed, timers, tokens, callers,
         TunnelTypeOK, RejectionIsWatched, CloseHalts, IdleIsWatched, InFlight
  <1>3. CASE BeginReset \/ AwaitReset \/ FinishReset
    BY <1>3 DEF BeginReset, AwaitReset, FinishReset, TunnelInv, StepsTo, Ends, StartSupervisor,
         Released, RequestStop, CancelTimers, Awaited, Token, Accepted, Supervising,
         ManagerClosed, timers, tokens, callers, TunnelTypeOK, RejectionIsWatched, CloseHalts,
         IdleIsWatched, InFlight
  <1>4. CASE BeginClose \/ AwaitClose \/ FinishClose
    BY <1>4 DEF BeginClose, AwaitClose, FinishClose, TunnelInv, StepsTo, Ends, StartSupervisor,
         Released, RequestStop, CancelTimers, Awaited, Token, Accepted, Supervising,
         ManagerClosed, timers, tokens, callers, TunnelTypeOK, RejectionIsWatched, CloseHalts,
         IdleIsWatched, InFlight
  <1>5. ASSUME NEW r \in Trips, Begin(r) \/ EnsureStarts(r) \/ EnsureUp(r) \/ EnsureFails(r)
        PROVE IdleIsWatched'
    BY <1>5 DEF Begin, EnsureStarts, EnsureUp, EnsureFails, TunnelInv, StepsTo, Ends,
         StartSupervisor, Released, RequestStop, CancelTimers, Awaited, Token, Accepted,
         Supervising, ManagerClosed, timers, tokens, callers, TunnelTypeOK, RejectionIsWatched,
         CloseHalts, IdleIsWatched, InFlight
  <1>6. ASSUME NEW r \in Trips, AdminToken(r) \/ Refetch(r) \/ RefetchFails(r)
        PROVE IdleIsWatched'
    BY <1>6 DEF AdminToken, Refetch, RefetchFails, TunnelInv, StepsTo, Ends, StartSupervisor,
         Released, RequestStop, CancelTimers, Awaited, Token, Accepted, Supervising,
         ManagerClosed, timers, tokens, callers, TunnelTypeOK, RejectionIsWatched, CloseHalts,
         IdleIsWatched, InFlight
  <1>7. ASSUME NEW r \in Trips, Send(r) PROVE IdleIsWatched'
    <2>1. trip \in [Trips -> [step : {"new", "waiting", "token", "sending", "refetching",
                                    "resending", "condemning", "marking", "open", "failed"},
                           token : None .. MaxRotations]]
      BY DEF TunnelInv, TunnelTypeOK
    <2>2. Ends(r, "open") \/ StepsTo(r, "refetching") \/ Ends(r, "condemning")
      BY <1>7, Zenon DEF Send
    <2>3. trip'[r].step # "new"
      BY <2>1, <2>2 DEF Ends, StepsTo
    <2> QED BY <2>3 DEF IdleIsWatched, InFlight
  <1>8. ASSUME NEW r \in Trips, Condemn(r) \/ MarkAuthFailed(r) \/ RequestFails(r) \/ Release(r)
        PROVE IdleIsWatched'
    BY <1>8 DEF Condemn, MarkAuthFailed, RequestFails, Release, TunnelInv, StepsTo, Ends,
         StartSupervisor, Released, RequestStop, CancelTimers, Awaited, Token, Accepted,
         Supervising, ManagerClosed, timers, tokens, callers, TunnelTypeOK, RejectionIsWatched,
         CloseHalts, IdleIsWatched, InFlight
  <1> QED BY <1>1, <1>2, <1>3, <1>4, <1>5, <1>6, <1>7, <1>8 DEF TunnelNext

\* The invariant of the tunnel is inductive.
THEOREM TunnelInvHolds == ASSUME TunnelConstants PROVE TunnelSafety => []TunnelInv
  <1>1. TunnelInit => TunnelInv
    <2> SUFFICES ASSUME TunnelInit PROVE TunnelInv
      OBVIOUS
    <2>1. None \in None .. MaxRotations /\ 0 \in 0 .. MaxRotations
      BY DEF TunnelConstants, None
    <2>2. TunnelTypeOK
      BY <2>1 DEF TunnelInit, TunnelTypeOK
    <2> QED BY <2>2 DEF TunnelInit, TunnelInv, RejectionIsWatched, CloseHalts, StoppedIsDown,
                        IdleIsWatched, Supervising
  <1>2. TunnelInv /\ [TunnelNext]_tunnelVars => TunnelInv'
    <2> SUFFICES ASSUME TunnelInv, [TunnelNext]_tunnelVars PROVE TunnelInv'
      OBVIOUS
    <2>1. CASE UNCHANGED tunnelVars
      BY <2>1 DEF tunnelVars, TunnelInv, TunnelTypeOK, RejectionIsWatched, CloseHalts,
                  StoppedIsDown, IdleIsWatched, Supervising, InFlight
    <2>2. CASE TunnelNext
      BY <2>2, TunnelTypesKeep, RejectionStaysWatched, CloseStaysHalting, IdleStaysWatched
         DEF TunnelInv
    <2> QED BY <2>1, <2>2
  <1> QED BY <1>1, <1>2, PTL DEF TunnelSafety

\* The variables of a tunnel keep their types.
THEOREM TunnelTyped == ASSUME TunnelConstants PROVE TunnelSafety => []TunnelTypeOK
  <1>1. TunnelInv => TunnelTypeOK
    BY DEF TunnelInv
  <1> QED BY <1>1, TunnelInvHolds, PTL

\* However requests, resets, rotations of the token and Close interleave with the supervisor,
\* a tunnel nobody uses is watched by a timer, and none runs once Close has returned
\* (manager.go Close, markAuthFailed).
THEOREM TunnelsAreWatched ==
    ASSUME TunnelConstants PROVE TunnelSafety => [](IdleIsWatched /\ ClosedStaysDown)
  <1>1. TunnelInv => IdleIsWatched /\ ClosedStaysDown
    BY DEF TunnelInv, StoppedIsDown, ClosedStaysDown
  <1> QED BY <1>1, TunnelInvHolds, PTL

---------------------------------------------------------------------------
(***************************************************************************)
(* The console and the fleet commands (Console).  What a request says of   *)
(* its calls and of its stream is kept request by request (CallsSafe,      *)
(* StreamSafe); they share the manager of the console, which is closed     *)
(* when its process is gone if Close found it.                             *)
(***************************************************************************)
CallsSafe(q, calls) ==
  /\ q.pc \in {"idle", "reading", "manager", "deploying"} => \A w \in Workers : calls[w] = NoLeg
  /\ q.pc \in {"idle", "reading"} => q.targets = {} /\ ~q.open
  /\ q.pc = "manager" => q.kind \in {"fleet", "overview", "events", "reset", "proxy"}
  /\ q.pc = "deploying" => q.kind = "deploy"
  /\ q.kind = "command" /\ q.pc = "answered" => ~q.open
  /\ q.answer = "ok" => q.pc = "answered" /\ \A w \in q.targets : calls[w].told = "ok"
  /\ \A w \in Workers :
       /\ calls[w].pc \in {"calling", "following"} => q.pc = "working"
       /\ calls[w].pc # "none" => w \in q.targets
       /\ q.pc = "answered" /\ q.kind \in {"overview", "command"} /\ w \in q.targets =>
            calls[w].pc = "over"
       /\ calls[w].pc = "following" => q.kind = "events"
       /\ calls[w].pc # "over" => ~calls[w].broke /\ calls[w].told = "none"
       /\ calls[w].pc = "over" /\ calls[w].broke => calls[w].told = "failed"
       /\ q.kind \in {"overview", "command"} /\ q.client /\ calls[w].pc = "over" =>
            calls[w].told # "none"
StreamSafe(q, s) ==
  /\ q.pc # "answered" => \A i \in DOMAIN s.records : s.records[i] = "line"
  /\ s.ended # "no" => q.pc \in {"deploying", "answered"}
  /\ \A i \in DOMAIN s.records : s.records[i] # "line" => i = Len(s.records)
  /\ q.pc = "answered" /\ s.ended # "no" =>
       /\ s.partial = 0
       /\ s.records[Len(s.records)] = (IF s.ended = "ok" THEN "done" ELSE "error")
ClosedWithProcess == process.pc = "gone" /\ manager.built /\ process.seen => manager.closed
ConsoleInv ==
  /\ ConsoleTypeOK
  /\ \A r \in Requests : CallsSafe(request[r], leg[r]) /\ StreamSafe(request[r], stream[r])
  /\ ClosedWithProcess

RequestState ==
  [kind : Kinds \cup {"none"}, targets : SUBSET Workers, client : BOOLEAN,
   pc : {"idle", "reading", "manager", "working", "deploying", "answered"},
   answer : {"none", "refused", "bad", "listed", "reset", "gateway", "usage", "rows", "ok",
             "partial", "streamed"},
   knows : SUBSET Workers, open : BOOLEAN]
CallState ==
  [pc : {"none", "calling", "following", "over"}, broke : BOOLEAN,
   told : {"none", "ok", "failed"}]
StreamState ==
  [records : Seq({"line", "done", "error"}), partial : 0 .. 1, ended : {"no", "ok", "failed"}]
\* What all requests share: the inventory, the workers, the manager and the process.
SharedTyped ==
  /\ listed \subseteq Workers /\ worker \in [Workers -> {"up", "hung", "down"}]
  /\ manager \in [built : BOOLEAN, knows : SUBSET Workers, closed : BOOLEAN]
  /\ process \in [pc : {"serving", "closing", "tearing", "gone"}, seen : BOOLEAN]
  /\ faults \in 0 .. MaxOutages
RequestsTyped ==
  /\ request \in [Requests -> RequestState] /\ leg \in [Requests -> [Workers -> CallState]]
  /\ stream \in [Requests -> StreamState]

\* The types, as sets of records.
LEMMA ConsoleStates == ConsoleTypeOK <=> SharedTyped /\ RequestsTyped
  BY DEF ConsoleTypeOK, SharedTyped, RequestsTyped, RequestState, CallState, StreamState

\* The same of the next state.
LEMMA ConsoleTypedNext == ASSUME SharedTyped', RequestsTyped' PROVE ConsoleTypeOK'
  <1>1. (ConsoleTypeOK <=> SharedTyped /\ RequestsTyped)'
    BY ConsoleStates, PTL
  <1> QED BY <1>1

\* The invariant when one request moves.
LEMMA OneRequestMoves ==
    ASSUME ConsoleInv, NEW r \in Requests, SharedTyped', ClosedWithProcess',
           \/ request' = request
           \/ request' = [request EXCEPT ![r] = request'[r]] /\ request'[r] \in RequestState,
           \/ leg' = leg
           \/ leg' = [leg EXCEPT ![r] = leg'[r]] /\ leg'[r] \in [Workers -> CallState],
           \/ stream' = stream
           \/ stream' = [stream EXCEPT ![r] = stream'[r]] /\ stream'[r] \in StreamState,
           CallsSafe(request'[r], leg'[r]), StreamSafe(request'[r], stream'[r])
    PROVE ConsoleInv'
  <1>1. RequestsTyped
    BY ConsoleStates DEF ConsoleInv
  <1>2. request' \in [Requests -> RequestState] /\ \A s \in Requests : s # r => request'[s] = request[s]
    BY <1>1 DEF RequestsTyped
  <1>3. /\ leg' \in [Requests -> [Workers -> CallState]]
        /\ \A s \in Requests : s # r => leg'[s] = leg[s]
    BY <1>1 DEF RequestsTyped
  <1>4. stream' \in [Requests -> StreamState] /\ \A s \in Requests : s # r => stream'[s] = stream[s]
    BY <1>1 DEF RequestsTyped
  <1>5. ConsoleTypeOK'
    BY <1>2, <1>3, <1>4, ConsoleTypedNext DEF RequestsTyped
  <1>6. \A s \in Requests : CallsSafe(request'[s], leg'[s]) /\ StreamSafe(request'[s], stream'[s])
    BY <1>2, <1>3, <1>4 DEF ConsoleInv
  <1> QED BY <1>5, <1>6 DEF ConsoleInv

\* An action of a request that touches neither its calls nor its stream.
LEMMA RequestMoves ==
    ASSUME ConsoleInv, NEW r \in Requests, request' = [request EXCEPT ![r] = request'[r]],
           request'[r] \in RequestState, leg' = leg, stream' = stream, SharedTyped',
           ClosedWithProcess', CallsSafe(request'[r], leg[r]), StreamSafe(request'[r], stream[r])
    PROVE ConsoleInv'
  BY OneRequestMoves

\* A call of a fan-out moves: neither its request nor anything shared does.
LEMMA CallMoves ==
    ASSUME ConsoleConstants, ConsoleInv, NEW r \in Requests, NEW w \in Workers,
           LegStep(r, w) \/ TailEnds(r, w)
    PROVE ConsoleInv'
  <1> DEFINE q == request[r]
             calls == leg[r]
             call1 == leg'[r][w]
  <1>1. /\ SharedTyped /\ RequestsTyped /\ q \in RequestState /\ calls \in [Workers -> CallState]
        /\ CallsSafe(q, calls) /\ StreamSafe(q, stream[r]) /\ ClosedWithProcess
    BY ConsoleStates DEF ConsoleInv, RequestsTyped
  <1>2. UNCHANGED <<listed, worker, manager, process, request, stream, faults>>
    BY DEF LegStep, CallFails, CallAnswered, CallTimesOut, CallCancelled, FollowEvents,
       TailBreaks, TailEnds, LegOnly
  <1>3. /\ leg' = [leg EXCEPT ![r][w] = call1]
        /\ calls[w].pc \in {"calling", "following"}
        /\ \/ call1 = [pc |-> "over", broke |-> TRUE, told |-> "failed"]
           \/ call1 = [pc |-> "over", broke |-> FALSE, told |-> "ok"]
           \/ call1 = [calls[w] EXCEPT !.pc = "over"] /\ (~q.client \/ calls[w].pc = "following")
           \/ call1 = [calls[w] EXCEPT !.pc = "following"] /\ q.kind = "events"
    <2>1. leg \in [Requests -> [Workers -> CallState]]
      BY <1>1 DEF RequestsTyped
    <2>2. /\ calls[w].pc \in {"calling", "following"}
          /\ \/ Fails(r, w)
             \/ Succeeds(r, w)
             \/ /\ leg' = [leg EXCEPT ![r][w].pc = "over"]
                /\ ~q.client \/ calls[w].pc = "following"
             \/ leg' = [leg EXCEPT ![r][w].pc = "following"] /\ q.kind = "events"
      BY DEF LegStep, CallFails, CallAnswered, CallTimesOut, CallCancelled, FollowEvents,
             TailBreaks, TailFailure, TailEnds, Calling, Is
    <2>3. ASSUME NEW v \in CallState, leg' = [leg EXCEPT ![r][w] = v]
          PROVE  call1 = v
      BY <2>1, <2>3
    <2>4. CASE Fails(r, w)
      BY <2>2, <2>3, <2>4 DEF Fails, CallState
    <2>5. CASE Succeeds(r, w)
      BY <2>2, <2>3, <2>5 DEF Succeeds, CallState
    <2>6. ASSUME NEW pc \in {"over", "following"}, leg' = [leg EXCEPT ![r][w].pc = pc]
          PROVE  leg' = [leg EXCEPT ![r][w] = call1] /\ call1 = [calls[w] EXCEPT !.pc = pc]
      <3>1. leg' = [leg EXCEPT ![r][w] = [calls[w] EXCEPT !.pc = pc]]
        BY <2>6
      <3>2. calls[w] \in CallState
        BY <2>1
      <3>3. [calls[w] EXCEPT !.pc = pc] \in CallState
        BY <3>2 DEF CallState
      <3> QED BY <3>1, <3>3, <2>3
    <2> HIDE DEF q, calls, call1
    <2> QED BY <2>2, <2>4, <2>5, <2>6
  <1>4. leg' = [leg EXCEPT ![r] = leg'[r]] /\ leg'[r] = [calls EXCEPT ![w] = call1]
    BY <1>1, <1>3 DEF RequestsTyped
  <1>5. call1 \in CallState /\ leg'[r] \in [Workers -> CallState]
    <2>1. calls[w] \in CallState
      BY <1>1
    <2>2. ASSUME NEW c \in CallState
          PROVE [c EXCEPT !.pc = "over"] \in CallState /\ [c EXCEPT !.pc = "following"] \in CallState
      BY DEF CallState
    <2>3. /\ [pc |-> "over", broke |-> TRUE, told |-> "failed"] \in CallState
          /\ [pc |-> "over", broke |-> FALSE, told |-> "ok"] \in CallState
      BY DEF CallState
    <2>4. call1 \in CallState
      BY <1>3, <2>1, <2>2, <2>3
    <2> QED BY <1>1, <1>4, <2>4
  <1>6. CallsSafe(q, leg'[r])
    <2>1. q.pc = "working" /\ w \in q.targets /\ ~calls[w].broke /\ calls[w].told = "none"
      BY <1>1, <1>3 DEF CallsSafe
    <2>2. /\ call1.pc \in {"following", "over"}
          /\ call1.pc = "following" => q.kind = "events" /\ ~call1.broke /\ call1.told = "none"
          /\ call1.pc = "over" /\ call1.broke => call1.told = "failed"
          /\ q.kind \in {"overview", "command"} /\ q.client /\ call1.pc = "over" =>
               call1.told # "none"
      BY <1>1, <1>3, <2>1 DEF CallState, CallsSafe
    <2>3. q.answer # "ok"
      BY <1>1, <2>1 DEF CallsSafe
    <2>4. \A v \in Workers : v # w => leg'[r][v] = calls[v]
      BY <1>1, <1>4
    <2> QED BY <1>1, <2>1, <2>2, <2>3, <2>4 DEF CallsSafe
  <1>7. SharedTyped' /\ ClosedWithProcess'
    BY <1>1, <1>2 DEF SharedTyped, ClosedWithProcess
  <1> QED BY <1>1, <1>2, <1>4, <1>5, <1>6, <1>7, OneRequestMoves

\* What a request needs to know of itself before it moves.
LEMMA RequestStands ==
    ASSUME ConsoleInv, NEW r \in Requests
    PROVE /\ SharedTyped /\ RequestsTyped /\ ClosedWithProcess
          /\ request[r] \in RequestState /\ leg[r] \in [Workers -> CallState]
          /\ stream[r] \in StreamState
          /\ CallsSafe(request[r], leg[r]) /\ StreamSafe(request[r], stream[r])
  BY ConsoleStates DEF ConsoleInv, RequestsTyped

\* Arrive keeps the invariant.
LEMMA ArriveKeeps ==
    ASSUME ConsoleConstants, ConsoleInv, NEW r \in Requests, NEW kind \in Asks[r], Arrive(r, kind)
    PROVE ConsoleInv'
  <1> DEFINE q == request[r]
             q1 == request'[r]
  <1>1. PICK pc \in {"reading", "answered"}, answer \in {"none", "refused"} :
          /\ request' = [request EXCEPT ![r].kind = kind, ![r].pc = pc, ![r].answer = answer]
          /\ kind = "command" => pc = "reading"
    BY Zenon DEF Arrive
  <1>2. kind \in Kinds /\ q.pc = "idle"
    BY DEF ConsoleConstants, Arrive, Stands
  <1>3. /\ SharedTyped /\ q \in RequestState /\ CallsSafe(q, leg[r]) /\ StreamSafe(q, stream[r])
        /\ ClosedWithProcess /\ RequestsTyped
    BY RequestStands
  <1>4. /\ request' = [request EXCEPT ![r] = q1]
        /\ q1 = [q EXCEPT !.kind = kind, !.pc = pc, !.answer = answer]
    BY <1>1, <1>3 DEF RequestsTyped
  <1>5. /\ q1 \in RequestState /\ q1.kind = kind /\ q1.pc = pc /\ q1.answer = answer
        /\ q1.targets = q.targets /\ q1.open = q.open /\ q1.client = q.client
    BY <1>2, <1>3, <1>4 DEF RequestState
  <1>6. CallsSafe(q1, leg[r])
    BY <1>1, <1>2, <1>3, <1>5 DEF CallsSafe, NoLeg
  <1>7. StreamSafe(q1, stream[r])
    BY <1>2, <1>3, <1>5 DEF StreamSafe
  <1>8. SharedTyped' /\ ClosedWithProcess' /\ leg' = leg /\ stream' = stream
    BY <1>3 DEF SharedTyped, ClosedWithProcess, Arrive
  <1> QED BY <1>4, <1>5, <1>6, <1>7, <1>8, RequestMoves

\* What a request reads first keeps the invariant.
LEMMA ReadsKeep ==
    ASSUME ConsoleConstants, ConsoleInv, NEW r \in Requests,
           ReadInventory(r) \/ ReadName(r) \/ ReadEnvironment(r)
    PROVE ConsoleInv'
  <1> DEFINE q == request[r]
             q1 == request'[r]
  <1>1. /\ SharedTyped /\ q \in RequestState /\ CallsSafe(q, leg[r]) /\ StreamSafe(q, stream[r])
        /\ ClosedWithProcess /\ RequestsTyped
    BY RequestStands
  <1>2. q.pc = "reading" /\ UNCHANGED <<listed, worker, manager, process, leg, stream, faults>>
    BY DEF ReadInventory, ReadName, ReadEnvironment, Stands
  <1>3. PICK pc \in {"manager", "deploying", "answered"}, targets \in SUBSET Workers,
             answer \in {q.answer, "bad"} :
          /\ request' = [request EXCEPT ![r] = [q EXCEPT !.pc = pc, !.targets = targets,
                                                         !.answer = answer]]
          /\ pc = "manager" => q.kind \in {"fleet", "overview", "events", "reset", "proxy"}
          /\ pc # "manager" => q.kind = "deploy"
    <2>1. CASE ReadInventory(r)
      <3>1. request' = [request EXCEPT ![r] = [q EXCEPT !.pc = "manager", !.targets = listed,
                                                        !.answer = q.answer]]
        BY <1>1, <2>1 DEF ReadInventory, RequestsTyped, RequestState
      <3>2. listed \in SUBSET Workers /\ q.kind \in {"fleet", "overview", "events"}
        BY <1>1, <2>1 DEF ReadInventory, Is, SharedTyped
      <3> QED BY <3>1, <3>2
    <2>2. CASE ReadName(r)
      <3>1. PICK w \in Workers :
              request' = [request EXCEPT ![r].pc = "manager", ![r].targets = {w}]
        BY <2>2 DEF ReadName
      <3>2. request' = [request EXCEPT ![r] = [q EXCEPT !.pc = "manager", !.targets = {w},
                                                        !.answer = q.answer]]
        BY <1>1, <3>1 DEF RequestsTyped, RequestState
      <3>3. {w} \in SUBSET Workers /\ q.kind \in {"reset", "proxy"}
        BY <2>2 DEF ReadName, Is
      <3> QED BY <3>2, <3>3
    <2>3. CASE ReadEnvironment(r)
      <3>1. \/ request' = [request EXCEPT ![r] = [q EXCEPT !.pc = "deploying",
                               !.targets = q.targets, !.answer = q.answer]]
            \/ request' = [request EXCEPT ![r] = [q EXCEPT !.pc = "answered",
                               !.targets = q.targets, !.answer = "bad"]]
        BY <1>1, <2>3 DEF ReadEnvironment, Answered, RequestsTyped, RequestState
      <3>2. q.targets \in SUBSET Workers /\ q.kind = "deploy"
        BY <1>1, <2>3 DEF ReadEnvironment, Is, RequestState
      <3> QED BY <3>1, <3>2
    <2> QED BY <2>1, <2>2, <2>3
  <1>4. request' = [request EXCEPT ![r] = q1]
    BY <1>1, <1>3 DEF RequestsTyped
  <1>5. /\ q1 \in RequestState /\ q1.kind = q.kind /\ q1.pc = pc /\ q1.answer = answer
        /\ q1.open = q.open /\ q1.client = q.client
    BY <1>1, <1>3 DEF RequestState, RequestsTyped
  <1>6. q.answer # "ok"
    BY <1>1, <1>2 DEF CallsSafe
  <1>7. CallsSafe(q1, leg[r])
    BY <1>1, <1>2, <1>3, <1>5, <1>6 DEF CallsSafe, NoLeg
  <1>8. StreamSafe(q1, stream[r])
    BY <1>1, <1>2, <1>5 DEF StreamSafe
  <1>9. SharedTyped' /\ ClosedWithProcess'
    BY <1>1, <1>2 DEF SharedTyped, ClosedWithProcess
  <1> QED BY <1>2, <1>4, <1>5, <1>7, <1>8, <1>9, RequestMoves

\* A fan-out begins: a call to each target, none to the others.
LEMMA CallsBegin ==
    ASSUME RequestsTyped, NEW r \in Requests, NEW targets \in SUBSET Workers, Begun(r, targets)
    PROVE /\ leg' = [leg EXCEPT ![r] = leg'[r]] /\ leg'[r] \in [Workers -> CallState]
          /\ \A w \in Workers :
               /\ leg'[r][w].pc = (IF w \in targets THEN "calling" ELSE "none")
               /\ ~leg'[r][w].broke /\ leg'[r][w].told = "none"
  <1> DEFINE none == NoLeg
             started == [NoLeg EXCEPT !.pc = "calling"]
  <1>1. none \in CallState /\ none.pc = "none" /\ ~none.broke /\ none.told = "none"
    BY DEF NoLeg, CallState
  <1>2. ASSUME NEW c \in CallState
        PROVE /\ [c EXCEPT !.pc = "calling"] \in CallState
              /\ [c EXCEPT !.pc = "calling"].pc = "calling"
              /\ [c EXCEPT !.pc = "calling"].broke = c.broke
              /\ [c EXCEPT !.pc = "calling"].told = c.told
    BY DEF CallState
  <1>3. started \in CallState /\ started.pc = "calling" /\ ~started.broke /\ started.told = "none"
    BY <1>1, <1>2
  <1>4. leg' = [leg EXCEPT ![r] = [w \in Workers |-> IF w \in targets THEN started ELSE none]]
    BY DEF Begun
  <1> HIDE DEF none, started
  <1>5. /\ leg' = [leg EXCEPT ![r] = leg'[r]]
        /\ leg'[r] = [w \in Workers |-> IF w \in targets THEN started ELSE none]
    BY <1>4 DEF RequestsTyped
  <1>6. leg'[r] \in [Workers -> CallState]
    BY <1>1, <1>3, <1>5
  <1> QED BY <1>1, <1>3, <1>5, <1>6

\* UseManager keeps the invariant: a console whose process is gone builds no manager.
LEMMA UseManagerKeeps ==
    ASSUME ConsoleConstants, ConsoleInv, NEW r \in Requests, UseManager(r)
    PROVE ConsoleInv'
  <1> DEFINE q == request[r]
             q1 == request'[r]
  <1>1. /\ SharedTyped /\ q \in RequestState /\ CallsSafe(q, leg[r]) /\ StreamSafe(q, stream[r])
        /\ ClosedWithProcess /\ RequestsTyped
    BY RequestStands
  <1>2. q.pc = "manager" /\ UNCHANGED <<listed, worker, process, stream, faults>>
    BY DEF UseManager, Stands
  <1>3. q.kind # "command" /\ q.answer # "ok" /\ process.pc # "gone"
    BY <1>1, <1>2 DEF CallsSafe, UseManager, Runs, Is
  <1>4. SharedTyped' /\ ClosedWithProcess'
    <2>1. manager' = [manager EXCEPT !.built = TRUE, !.knows = Known] /\ Known \in SUBSET Workers
      BY <1>1 DEF UseManager, Known, SharedTyped
    <2> QED BY <1>1, <1>2, <1>3, <2>1 DEF SharedTyped, ClosedWithProcess
  <1>5. CASE q.kind \in {"fleet", "reset"}
    <2>1. leg' = leg
      BY <1>5 DEF UseManager, Is
    <2>2. PICK answer \in {"listed", "reset", "gateway"} :
            request' = [request EXCEPT ![r].pc = "answered", ![r].answer = answer]
      BY <1>5 DEF UseManager, Is, Answered
    <2>3. /\ request' = [request EXCEPT ![r] = q1]
          /\ q1 = [q EXCEPT !.pc = "answered", !.answer = answer]
      BY <1>1, <2>2 DEF RequestsTyped
    <2>4. /\ q1 \in RequestState /\ q1.kind = q.kind /\ q1.pc = "answered" /\ q1.answer = answer
          /\ q1.targets = q.targets /\ q1.open = q.open /\ q1.client = q.client
      BY <1>1, <2>3 DEF RequestState
    <2>5. CallsSafe(q1, leg[r])
      BY <1>1, <1>2, <1>5, <2>4 DEF CallsSafe, NoLeg
    <2>6. StreamSafe(q1, stream[r])
      BY <1>1, <1>2, <2>4 DEF StreamSafe
    <2> QED BY <1>2, <1>4, <2>1, <2>3, <2>4, <2>5, <2>6, RequestMoves
  <1>6. CASE q.kind \notin {"fleet", "reset"}
    <2>1. request' = [request EXCEPT ![r].pc = "working"] /\ Begun(r, q.targets)
      BY <1>6 DEF UseManager, Is
    <2>2. /\ request' = [request EXCEPT ![r] = q1]
          /\ q1 = [q EXCEPT !.pc = "working"]
      BY <1>1, <2>1 DEF RequestsTyped
    <2>3. /\ q1 \in RequestState /\ q1.kind = q.kind /\ q1.pc = "working" /\ q1.answer = q.answer
          /\ q1.targets = q.targets /\ q1.open = q.open /\ q1.client = q.client
          /\ q.targets \in SUBSET Workers
      BY <1>1, <2>2 DEF RequestState
    <2>4. /\ leg' = [leg EXCEPT ![r] = leg'[r]] /\ leg'[r] \in [Workers -> CallState]
          /\ \A w \in Workers :
               /\ leg'[r][w].pc = (IF w \in q.targets THEN "calling" ELSE "none")
               /\ ~leg'[r][w].broke /\ leg'[r][w].told = "none"
      BY <1>1, <2>1, <2>3, CallsBegin
    <2>5. CallsSafe(q1, leg'[r])
      BY <1>3, <2>3, <2>4 DEF CallsSafe
    <2>6. StreamSafe(q1, stream[r])
      BY <1>1, <1>2, <2>3 DEF StreamSafe
    <2> QED BY <1>2, <1>4, <2>2, <2>3, <2>4, <2>5, <2>6, OneRequestMoves
  <1> QED BY <1>5, <1>6

\* ResolveTargets keeps the invariant.
LEMMA ResolveTargetsKeeps ==
    ASSUME ConsoleConstants, ConsoleInv, NEW r \in Requests, ResolveTargets(r)
    PROVE ConsoleInv'
  <1> DEFINE q == request[r]
             q1 == request'[r]
  <1>1. /\ SharedTyped /\ q \in RequestState /\ CallsSafe(q, leg[r]) /\ StreamSafe(q, stream[r])
        /\ ClosedWithProcess /\ RequestsTyped
    BY RequestStands
  <1>2. /\ q.pc = "reading" /\ q.kind = "command"
        /\ UNCHANGED <<listed, worker, manager, process, stream, faults>>
    BY DEF ResolveTargets, Stands, Is
  <1>3. SharedTyped' /\ ClosedWithProcess'
    BY <1>1, <1>2 DEF SharedTyped, ClosedWithProcess
  <1>4. q.answer # "ok" /\ ~q.open
    BY <1>1, <1>2 DEF CallsSafe
  <1>5. CASE Answered(r, "usage") /\ leg' = leg
    <2>1. /\ request' = [request EXCEPT ![r] = q1]
          /\ q1 = [q EXCEPT !.pc = "answered", !.answer = "usage"]
      BY <1>1, <1>5 DEF RequestsTyped, Answered
    <2>2. /\ q1 \in RequestState /\ q1.kind = q.kind /\ q1.pc = "answered" /\ q1.answer = "usage"
          /\ q1.targets = q.targets /\ q1.open = q.open /\ q1.client = q.client
      BY <1>1, <2>1 DEF RequestState
    <2>3. CallsSafe(q1, leg[r])
      BY <1>1, <1>2, <1>4, <2>2 DEF CallsSafe, NoLeg
    <2>4. StreamSafe(q1, stream[r])
      BY <1>1, <1>2, <2>2 DEF StreamSafe
    <2> QED BY <1>2, <1>3, <1>5, <2>1, <2>2, <2>3, <2>4, RequestMoves
  <1>6. ASSUME NEW targets \in {listed} \cup {{w} : w \in listed}, Begun(r, targets),
               request' = [request EXCEPT ![r].pc = "working", ![r].targets = targets,
                                          ![r].knows = targets, ![r].open = TRUE]
        PROVE ConsoleInv'
    <2>0. targets \in SUBSET Workers
      BY <1>1 DEF SharedTyped
    <2>1. /\ request' = [request EXCEPT ![r] = q1]
          /\ q1 = [q EXCEPT !.pc = "working", !.targets = targets, !.knows = targets,
                            !.open = TRUE]
      BY <1>1, <1>6 DEF RequestsTyped
    <2>2. /\ q1 \in RequestState /\ q1.kind = q.kind /\ q1.pc = "working" /\ q1.answer = q.answer
          /\ q1.targets = targets /\ q1.client = q.client
      BY <1>1, <2>0, <2>1 DEF RequestState
    <2>3. /\ leg' = [leg EXCEPT ![r] = leg'[r]] /\ leg'[r] \in [Workers -> CallState]
          /\ \A w \in Workers :
               /\ leg'[r][w].pc = (IF w \in targets THEN "calling" ELSE "none")
               /\ ~leg'[r][w].broke /\ leg'[r][w].told = "none"
      BY <1>1, <1>6, <2>0, CallsBegin
    <2>4. CallsSafe(q1, leg'[r])
      BY <1>4, <2>2, <2>3 DEF CallsSafe
    <2>5. StreamSafe(q1, stream[r])
      BY <1>1, <1>2, <2>2 DEF StreamSafe
    <2> QED BY <1>2, <1>3, <2>1, <2>2, <2>3, <2>4, <2>5, OneRequestMoves
  <1> QED BY <1>5, <1>6 DEF ResolveTargets

\* Answer keeps the invariant: every call of the fan-out is over.
LEMMA AnswerKeeps ==
    ASSUME ConsoleConstants, ConsoleInv, NEW r \in Requests, Answer(r)
    PROVE ConsoleInv'
  <1> DEFINE q == request[r]
             q1 == request'[r]
  <1>1. /\ SharedTyped /\ q \in RequestState /\ CallsSafe(q, leg[r]) /\ StreamSafe(q, stream[r])
        /\ ClosedWithProcess /\ RequestsTyped
    BY RequestStands
  <1>2. /\ q.pc = "working" /\ \A w \in q.targets : leg[r][w].pc = "over"
        /\ UNCHANGED <<listed, worker, manager, process, leg, stream, faults>>
    BY DEF Answer, Stands, LegsOver
  <1>3. PICK answer \in {"rows", "ok", "partial"} :
          /\ request' = [request EXCEPT ![r].pc = "answered", ![r].open = FALSE,
                                        ![r].answer = answer]
          /\ answer = "ok" => \A w \in q.targets : leg[r][w].told = "ok"
    BY Zenon DEF Answer, CommandOutcome
  <1>4. /\ request' = [request EXCEPT ![r] = q1]
        /\ q1 = [q EXCEPT !.pc = "answered", !.open = FALSE, !.answer = answer]
    BY <1>1, <1>3 DEF RequestsTyped
  <1>5. /\ q1 \in RequestState /\ q1.kind = q.kind /\ q1.pc = "answered" /\ q1.answer = answer
        /\ q1.targets = q.targets /\ ~q1.open /\ q1.client = q.client
        /\ q.targets \in SUBSET Workers
    BY <1>1, <1>4 DEF RequestState
  <1>6. CallsSafe(q1, leg[r])
    BY <1>1, <1>2, <1>3, <1>5 DEF CallsSafe
  <1>7. stream[r].ended = "no" /\ StreamSafe(q1, stream[r])
    <2>1. stream[r] \in StreamState
      BY RequestStands
    <2> QED BY <1>1, <1>2, <1>5, <2>1 DEF StreamSafe, StreamState
  <1>8. SharedTyped' /\ ClosedWithProcess'
    BY <1>1, <1>2 DEF SharedTyped, ClosedWithProcess
  <1> QED BY <1>2, <1>4, <1>5, <1>6, <1>7, <1>8, RequestMoves

\* ClientLeaves keeps the invariant.
LEMMA ClientLeavesKeeps ==
    ASSUME ConsoleConstants, ConsoleInv, NEW r \in Requests, ClientLeaves(r)
    PROVE ConsoleInv'
  <1> DEFINE q == request[r]
             q1 == request'[r]
  <1>1. /\ SharedTyped /\ q \in RequestState /\ CallsSafe(q, leg[r]) /\ StreamSafe(q, stream[r])
        /\ ClosedWithProcess /\ RequestsTyped
    BY RequestStands
  <1>2. /\ request' = [request EXCEPT ![r] = q1] /\ q1 = [q EXCEPT !.client = FALSE]
        /\ UNCHANGED <<listed, worker, manager, process, leg, stream, faults>>
    BY <1>1 DEF ClientLeaves, RequestsTyped
  <1>3. /\ q1 \in RequestState /\ q1.kind = q.kind /\ q1.pc = q.pc /\ q1.answer = q.answer
        /\ q1.targets = q.targets /\ q1.open = q.open /\ ~q1.client
    BY <1>1, <1>2 DEF RequestState
  <1>4. CallsSafe(q1, leg[r])
    BY <1>1, <1>3 DEF CallsSafe
  <1>5. StreamSafe(q1, stream[r])
    BY <1>1, <1>3 DEF StreamSafe
  <1>6. SharedTyped' /\ ClosedWithProcess'
    BY <1>1, <1>2 DEF SharedTyped, ClosedWithProcess
  <1> QED BY <1>2, <1>3, <1>4, <1>5, <1>6, RequestMoves

\* The stream of a deploy with other records and no line open.
LEMMA StreamWith ==
    ASSUME NEW s \in StreamState, NEW lines \in Seq({"line", "done", "error"})
    PROVE LET s1 == [s EXCEPT !.records = lines, !.partial = 0]
          IN s1 \in StreamState /\ s1.records = lines /\ s1.partial = 0 /\ s1.ended = s.ended
  <1> DEFINE all == Seq({"line", "done", "error"})
             states == [records : all, partial : 0 .. 1, ended : {"no", "ok", "failed"}]
             t == [s EXCEPT !.records = lines]
             s1 == [s EXCEPT !.records = lines, !.partial = 0]
  <1> HIDE DEF all
  <1>1. lines \in all /\ s \in states
    BY DEF StreamState, all
  <1>2. t \in states /\ t.records = lines /\ t.ended = s.ended
    BY <1>1
  <1>3. s1 = [t EXCEPT !.partial = 0]
    OBVIOUS
  <1>4. ASSUME NEW u \in states
        PROVE [u EXCEPT !.partial = 0] \in states
    OBVIOUS
  <1>5. ASSUME NEW u \in states
        PROVE LET u1 == [u EXCEPT !.partial = 0]
              IN u1.partial = 0 /\ u1.records = u.records /\ u1.ended = u.ended
    OBVIOUS
  <1> HIDE DEF t, s1, states
  <1>6. s1 \in states
    BY <1>2, <1>3, <1>4
  <1>7. s1.records = lines /\ s1.partial = 0 /\ s1.ended = s.ended
    BY <1>2, <1>3, <1>5
  <1> QED BY <1>6, <1>7 DEF StreamState, all, states, s1

\* WriteLine and EngineEnds keep the invariant: the stream is still the engine's.
LEMMA EngineKeeps ==
    ASSUME ConsoleConstants, ConsoleInv, NEW r \in Requests, WriteLine(r) \/ EngineEnds(r)
    PROVE ConsoleInv'
  <1> DEFINE q == request[r]
             s == stream[r]
             s1 == stream'[r]
  <1>1. /\ SharedTyped /\ q \in RequestState /\ CallsSafe(q, leg[r]) /\ StreamSafe(q, s)
        /\ ClosedWithProcess /\ RequestsTyped /\ s \in StreamState
    BY RequestStands
  <1>2. /\ q.pc = "deploying" /\ s.ended = "no"
        /\ UNCHANGED <<listed, worker, manager, process, request, leg>>
    BY DEF WriteLine, EngineEnds, EngineRuns, Stands, StreamOnly
  <1>3. /\ stream' = [stream EXCEPT ![r] = s1] /\ s1 \in StreamState
        /\ s1.records \in {s.records, Append(s.records, "line")}
    <2>1. \/ s1 = [s EXCEPT !.records = Append(s.records, "line"), !.partial = 0]
          \/ s1 = [s EXCEPT !.partial = 1]
          \/ s1 = [s EXCEPT !.ended = "ok"]
          \/ s1 = [s EXCEPT !.ended = "failed"]
      BY <1>1 DEF WriteLine, EngineEnds, RequestsTyped
    <2>2. stream' = [stream EXCEPT ![r] = s1]
      BY <1>1 DEF WriteLine, EngineEnds, RequestsTyped
    <2>3. Append(s.records, "line") \in Seq({"line", "done", "error"})
      BY <1>1 DEF StreamState
    <2>4. /\ [s EXCEPT !.records = Append(s.records, "line"), !.partial = 0] \in StreamState
          /\ [s EXCEPT !.records = Append(s.records, "line"), !.partial = 0].records
               = Append(s.records, "line")
      BY <1>1, <2>3, StreamWith
    <2>5. /\ [s EXCEPT !.partial = 1] \in StreamState
          /\ [s EXCEPT !.ended = "ok"] \in StreamState
          /\ [s EXCEPT !.ended = "failed"] \in StreamState
          /\ [s EXCEPT !.partial = 1].records = s.records
          /\ [s EXCEPT !.ended = "ok"].records = s.records
          /\ [s EXCEPT !.ended = "failed"].records = s.records
      BY <1>1 DEF StreamState
    <2> QED BY <2>1, <2>2, <2>3, <2>4, <2>5
  <1>4. \A i \in DOMAIN s1.records : s1.records[i] = "line"
    <2>1. \A i \in DOMAIN s.records : s.records[i] = "line"
      BY <1>1, <1>2 DEF StreamSafe
    <2>2. s.records \in Seq({"line", "done", "error"})
      BY <1>1 DEF StreamState
    <2>3. ASSUME s1.records = Append(s.records, "line"), NEW i \in DOMAIN s1.records
          PROVE s1.records[i] = "line"
      <3>1. i \in 1 .. Len(s.records) + 1
        BY <2>2, <2>3, AppendProperties
      <3>2. CASE i = Len(s.records) + 1
        BY <2>2, <2>3, <3>2, AppendProperties
      <3>3. CASE i \in 1 .. Len(s.records)
        BY <2>1, <2>2, <2>3, <3>3, AppendProperties
      <3> QED BY <2>2, <3>1, <3>2, <3>3
    <2> QED BY <1>3, <2>1, <2>3
  <1>5. StreamSafe(q, s1)
    BY <1>2, <1>4 DEF StreamSafe
  <1>6. SharedTyped' /\ ClosedWithProcess'
    <2>1. faults' \in 0 .. MaxOutages
      BY <1>1 DEF WriteLine, EngineEnds, SharedTyped, ConsoleConstants
    <2> QED BY <1>1, <1>2, <2>1 DEF SharedTyped, ClosedWithProcess
  <1> QED BY <1>1, <1>2, <1>3, <1>5, <1>6, OneRequestMoves

\* CloseStream keeps the invariant: it writes what is left of a line, and one record after it.
LEMMA CloseStreamKeeps ==
    ASSUME ConsoleConstants, ConsoleInv, NEW r \in Requests, CloseStream(r)
    PROVE ConsoleInv'
  <1> DEFINE q == request[r]
             q1 == request'[r]
             s == stream[r]
             s1 == stream'[r]
             lines == IF s.partial = 0 THEN s.records ELSE Append(s.records, "line")
             last == IF s.ended = "ok" THEN "done" ELSE "error"
  <1>1. /\ SharedTyped /\ q \in RequestState /\ CallsSafe(q, leg[r]) /\ StreamSafe(q, s)
        /\ ClosedWithProcess /\ RequestsTyped /\ s \in StreamState
    BY RequestStands
  <1>2. /\ q.pc = "deploying" /\ s.ended # "no"
        /\ UNCHANGED <<listed, worker, manager, process, leg, faults>>
    BY DEF CloseStream, EngineRuns, Stands, StreamOnly
  <1>3. /\ request' = [request EXCEPT ![r] = q1]
        /\ q1 = [q EXCEPT !.pc = "answered", !.answer = "streamed"]
    BY <1>1 DEF CloseStream, Answered, RequestsTyped
  <1>4. /\ q1 \in RequestState /\ q1.kind = q.kind /\ q1.pc = "answered"
        /\ q1.answer = "streamed" /\ q1.targets = q.targets /\ q1.open = q.open
        /\ q1.client = q.client
    BY <1>1, <1>3 DEF RequestState
  <1>5. q.kind = "deploy"
    BY <1>1, <1>2 DEF CallsSafe
  <1>6. CallsSafe(q1, leg[r])
    BY <1>1, <1>2, <1>4, <1>5 DEF CallsSafe, NoLeg
  <1>7. /\ lines \in Seq({"line", "done", "error"})
        /\ \A i \in DOMAIN lines : lines[i] = "line"
    <2>1. s.records \in Seq({"line", "done", "error"})
      BY <1>1 DEF StreamState
    <2>2. \A i \in DOMAIN s.records : s.records[i] = "line"
      BY <1>1, <1>2 DEF StreamSafe
    <2>3. Append(s.records, "line") \in Seq({"line", "done", "error"})
      BY <2>1
    <2>4. ASSUME NEW i \in DOMAIN Append(s.records, "line")
          PROVE Append(s.records, "line")[i] = "line"
      <3>1. i \in 1 .. Len(s.records) + 1
        BY <2>1, <2>4, AppendProperties
      <3>2. CASE i = Len(s.records) + 1
        BY <2>1, <3>2, AppendProperties
      <3>3. CASE i \in 1 .. Len(s.records)
        BY <2>1, <2>2, <3>3, AppendProperties
      <3> QED BY <2>1, <3>1, <3>2, <3>3
    <2> QED BY <2>1, <2>2, <2>3, <2>4
  <1>8. /\ stream' = [stream EXCEPT ![r] = s1]
        /\ s1 = [s EXCEPT !.records = Append(lines, last), !.partial = 0]
    <2>1. s \in [records : Seq({"line", "done", "error"}), partial : 0 .. 1,
                 ended : {"no", "ok", "failed"}]
      BY <1>1 DEF StreamState
    <2>2. Flushed(r) = [s EXCEPT !.records = lines, !.partial = 0]
      BY DEF Flushed
    <2>3. stream' = [stream EXCEPT ![r] = [Flushed(r) EXCEPT !.records = Append(@, last)]]
      BY DEF CloseStream
    <2> HIDE DEF lines, last
    <2>4. [Flushed(r) EXCEPT !.records = Append(Flushed(r).records, last)]
            = [s EXCEPT !.records = Append(lines, last), !.partial = 0]
      BY <2>1, <2>2
    <2> QED BY <1>1, <2>3, <2>4 DEF RequestsTyped
  <1> HIDE DEF lines
  <1>9. /\ Append(lines, last) \in Seq({"line", "done", "error"})
        /\ last \in {"done", "error"}
    BY <1>7
  <1>10. /\ s1 \in StreamState /\ s1.records = Append(lines, last) /\ s1.partial = 0
         /\ s1.ended = s.ended
    <2>1. s1 = [s EXCEPT !.records = Append(lines, last), !.partial = 0]
      BY <1>8
    <2> HIDE DEF last, s1
    <2> QED BY <1>1, <1>9, <2>1, StreamWith
  <1>11. /\ Len(s1.records) = Len(lines) + 1 /\ s1.records[Len(s1.records)] = last
         /\ \A i \in DOMAIN s1.records : s1.records[i] # "line" => i = Len(s1.records)
    <2>1. /\ Len(s1.records) = Len(lines) + 1 /\ s1.records[Len(lines) + 1] = last
          /\ DOMAIN s1.records = 1 .. Len(lines) + 1
          /\ \A i \in 1 .. Len(lines) : s1.records[i] = lines[i]
      BY <1>7, <1>9, <1>10, AppendProperties
    <2>2. Len(lines) \in Nat /\ DOMAIN lines = 1 .. Len(lines)
      BY <1>7
    <2>3. ASSUME NEW i \in DOMAIN s1.records, s1.records[i] # "line"
          PROVE i = Len(s1.records)
      <3>1. CASE i \in 1 .. Len(lines)
        BY <1>7, <2>1, <2>2, <2>3, <3>1
      <3> QED BY <2>1, <2>2, <3>1
    <2> QED BY <2>1, <2>2, <2>3
  <1>12. StreamSafe(q1, s1)
    BY <1>4, <1>10, <1>11 DEF StreamSafe
  <1>13. SharedTyped' /\ ClosedWithProcess'
    BY <1>1, <1>2 DEF SharedTyped, ClosedWithProcess
  <1> QED BY <1>2, <1>3, <1>4, <1>6, <1>8, <1>10, <1>12, <1>13, OneRequestMoves

\* The steps no request takes keep the invariant: Close closes the manager it found.
LEMMA OthersKeep ==
    ASSUME ConsoleConstants, ConsoleInv,
           \/ StopConsole \/ ReadManager \/ CloseConsole
           \/ \E w \in Workers : AddWorker(w) \/ WorkerStops(w) \/ WorkerReturns(w)
           \/ UNCHANGED consoleVars
    PROVE ConsoleInv'
  <1>1. SharedTyped /\ RequestsTyped /\ ClosedWithProcess
    BY ConsoleStates DEF ConsoleInv
  <1>2. UNCHANGED <<request, leg, stream>>
    BY DEF StopConsole, ReadManager, CloseConsole, AddWorker, WorkerStops, WorkerReturns,
           consoleVars
  <1>3. SharedTyped' /\ ClosedWithProcess'
    <2>1. CASE StopConsole
      BY <1>1, <2>1 DEF StopConsole, SharedTyped, ClosedWithProcess
    <2>2. CASE ReadManager
      BY <1>1, <2>2 DEF ReadManager, SharedTyped, ClosedWithProcess
    <2>3. CASE CloseConsole
      BY <1>1, <2>3 DEF CloseConsole, SharedTyped, ClosedWithProcess
    <2>4. ASSUME NEW w \in Workers, AddWorker(w) \/ WorkerStops(w) \/ WorkerReturns(w)
          PROVE SharedTyped' /\ ClosedWithProcess'
      <3>1. UNCHANGED <<manager, process>> /\ listed' \subseteq Workers
        BY <1>1, <2>4 DEF AddWorker, WorkerStops, WorkerReturns, SharedTyped
      <3>2. worker' \in [Workers -> {"up", "hung", "down"}]
        BY <1>1, <2>4 DEF AddWorker, WorkerStops, WorkerReturns, SharedTyped
      <3>3. faults' \in 0 .. MaxOutages
        BY <1>1, <2>4 DEF AddWorker, WorkerStops, WorkerReturns, SharedTyped, ConsoleConstants
      <3> QED BY <1>1, <3>1, <3>2, <3>3 DEF SharedTyped, ClosedWithProcess
    <2>5. CASE UNCHANGED consoleVars
      BY <1>1, <2>5 DEF consoleVars, SharedTyped, ClosedWithProcess
    <2> QED BY <2>1, <2>2, <2>3, <2>4, <2>5
  <1>4. ConsoleTypeOK'
    BY <1>1, <1>2, <1>3, ConsoleTypedNext DEF RequestsTyped
  <1> QED BY <1>2, <1>3, <1>4 DEF ConsoleInv

\* A console that starts satisfies the invariant.
LEMMA ConsoleStarts ==
    ASSUME ConsoleConstants, ConsoleInit
    PROVE ConsoleInv
  <1>1. SharedTyped /\ ClosedWithProcess
    BY DEF ConsoleInit, ConsoleConstants, SharedTyped, ClosedWithProcess
  <1>2. NotSent \in RequestState /\ NoLeg \in CallState
    BY DEF NotSent, NoLeg, RequestState, CallState
  <1>3. [records |-> <<>>, partial |-> 0, ended |-> "no"] \in StreamState
    BY DEF StreamState
  <1>4. RequestsTyped
    BY <1>2, <1>3 DEF ConsoleInit, RequestsTyped
  <1>5. ConsoleTypeOK
    BY <1>1, <1>4, ConsoleStates
  <1>6. ASSUME NEW r \in Requests
        PROVE CallsSafe(request[r], leg[r]) /\ StreamSafe(request[r], stream[r])
    <2>1. request[r] = NotSent /\ leg[r] = [w \in Workers |-> NoLeg]
      BY DEF ConsoleInit
    <2>2. stream[r] = [records |-> <<>>, partial |-> 0, ended |-> "no"]
      BY DEF ConsoleInit
    <2>3. CallsSafe(request[r], leg[r])
      BY <2>1 DEF CallsSafe, NotSent, NoLeg
    <2>4. StreamSafe(request[r], stream[r])
      BY <2>1, <2>2 DEF StreamSafe, NotSent
    <2> QED BY <2>3, <2>4
  <1> QED BY <1>1, <1>5, <1>6 DEF ConsoleInv

\* The invariant holds in every reachable state of the console.
THEOREM ConsoleInvHolds ==
    ASSUME ConsoleConstants
    PROVE ConsoleSpec => []ConsoleInv
  <1>1. ConsoleInit => ConsoleInv
    BY ConsoleStarts
  <1>2. ConsoleInv /\ [ConsoleNext]_consoleVars => ConsoleInv'
    <2> SUFFICES ASSUME ConsoleInv, [ConsoleNext]_consoleVars
                 PROVE ConsoleInv'
      OBVIOUS
    <2>1. ASSUME NEW r \in Requests, RequestStep(r) \/ WriteLine(r) \/ ClientLeaves(r)
          PROVE ConsoleInv'
      BY <2>1, ReadsKeep, UseManagerKeeps, ResolveTargetsKeeps, AnswerKeeps, EngineKeeps,
         CloseStreamKeeps, ClientLeavesKeeps, CallMoves
         DEF RequestStep
    <2>2. ASSUME NEW r \in Requests, NEW w \in Workers, TailEnds(r, w)
          PROVE ConsoleInv'
      BY <2>2, CallMoves
    <2>3. ASSUME NEW r \in Requests, NEW kind \in Asks[r], Arrive(r, kind)
          PROVE ConsoleInv'
      BY <2>3, ArriveKeeps
    <2> QED BY <2>1, <2>2, <2>3, OthersKeep DEF ConsoleNext
  <1> QED BY <1>1, <1>2, PTL DEF ConsoleSpec

\* The types of the console, its manager and its streams.
THEOREM ConsoleTyped ==
    ASSUME ConsoleConstants
    PROVE ConsoleSpec => []ConsoleTypeOK
  <1>1. ConsoleInv => ConsoleTypeOK
    BY DEF ConsoleInv
  <1> QED BY <1>1, ConsoleInvHolds, PTL

\* An answer has a row for each worker it asked and a command ends well only if all did, a tail
\* that failed says so, a deploy's stream ends in the one record that says how it ended, and no
\* tunnel outlives the process that Close found it in.
THEOREM ViewsAreWhole ==
    ASSUME ConsoleConstants
    PROVE ConsoleSpec => [](/\ PartialResultsAreWhole /\ GapsAreTold /\ DeployStreamIsWhole
                            /\ TunnelsEndWithProcess)
  <1>1. ASSUME ConsoleInv
        PROVE /\ PartialResultsAreWhole /\ GapsAreTold /\ DeployStreamIsWhole
              /\ TunnelsEndWithProcess
    <2>1. ASSUME NEW r \in Requests
          PROVE /\ RequestsTyped /\ request[r] \in RequestState
                /\ leg[r] \in [Workers -> CallState] /\ CallsSafe(request[r], leg[r])
                /\ StreamSafe(request[r], stream[r])
      BY <1>1, RequestStands
    <2>2. PartialResultsAreWhole
      <3> SUFFICES ASSUME NEW r \in Requests, Stands(r, "answered"),
                          Is(r, {"overview", "command"}), request[r].client
                   PROVE /\ \A w \in request[r].targets : leg[r][w].told # "none"
                         /\ request[r].answer = "ok" =>
                              \A w \in request[r].targets : leg[r][w].told = "ok"
        BY DEF PartialResultsAreWhole
      <3>1. request[r].targets \in SUBSET Workers
        BY <2>1 DEF RequestState
      <3> QED BY <2>1, <3>1 DEF CallsSafe, Stands, Is
    <2>3. GapsAreTold
      BY <2>1 DEF GapsAreTold, CallsSafe
    <2>4. DeployStreamIsWhole
      BY <2>1 DEF DeployStreamIsWhole, StreamSafe, Stands
    <2>5. TunnelsEndWithProcess
      BY <1>1, <2>1 DEF TunnelsEndWithProcess, ConsoleInv, ClosedWithProcess, CallsSafe, Stands,
         Is
    <2> QED BY <2>2, <2>3, <2>4, <2>5
  <1> QED BY <1>1, ConsoleInvHolds, PTL

(***************************************************************************)
(* A behaviour of the operator's side is one of each of its parts: its     *)
(* steps are steps of the chosen part and leave the others alone, so what  *)
(* is proved of a part holds of them all.                                  *)
(***************************************************************************)
LEMMA OperatorRunsFleet ==
    Spec => DeploySafety /\ TunnelSafety /\ ConsoleSpec
  <1>1. Init => DeployInit /\ TunnelInit /\ ConsoleInit
    BY DEF Init
  <1>2. [Next]_vars => [DeployNext]_(deployVars)
    BY DEF Next, vars, deployVars
  <1>3. [Next]_vars => [TunnelNext]_(tunnelVars)
    BY DEF Next, vars, tunnelVars
  <1>4. [Next]_vars => [ConsoleNext]_(consoleVars)
    BY DEF Next, vars, consoleVars
  <1> QED BY <1>1, <1>2, <1>3, <1>4, PTL DEF Spec, DeploySafety, TunnelSafety,
                                             ConsoleSpec

\* The same of the sessions and of the tools of their turns.
LEMMA OperatorRunsSessions == Spec => SessionSafety /\ EvidenceSpec
  <1>1. Init => SessionInit /\ EvidenceInit
    BY DEF Init
  <1>2. [Next]_vars => [SessionNext]_(sessionVars)
    BY DEF Next, vars, sessionVars
  <1>3. [Next]_vars => [EvidenceNext]_(evidenceVars)
    BY DEF Next, vars, evidenceVars
  <1> QED BY <1>1, <1>2, <1>3, PTL DEF Spec, SessionSafety, EvidenceSpec

\* The variables of all five parts keep their types.
THEOREM OperatorTyped == Spec => []TypeOK
  <1>1. /\ DeploySafety => []DeployTypeOK
        /\ SessionSafety => []SessionTypeOK
        /\ EvidenceSpec => []EvidenceTypeOK
        /\ TunnelSafety => []TunnelTypeOK
        /\ ConsoleSpec => []ConsoleTypeOK
    BY OperatorConstants, DeployTyped, SessionTyped, EvidenceTyped,
       TunnelTyped, ConsoleTyped, PTL
  <1>2. DeployTypeOK /\ SessionTypeOK /\ EvidenceTypeOK
          /\ TunnelTypeOK /\ ConsoleTypeOK => TypeOK
    BY Zenon DEF TypeOK
  <1> QED BY <1>1, <1>2, OperatorRunsFleet, OperatorRunsSessions, PTL

\* However deploys, rollbacks, faults, requests and timers interleave, a host runs and keeps
\* what a command shipped, no lock is orphaned, and no tunnel is left unwatched or outlives
\* the process that opened it.
THEOREM MachinesStayConsistent == Spec => []MachinesConsistent
  <1>1. DeploySafety =>
          [](DeployedTogether /\ LiveReleaseKept /\ LockHasOwner)
    BY OperatorConstants, DeploysAreConsistent, PTL
  <1>2. TunnelSafety => [](IdleIsWatched /\ ClosedStaysDown)
    BY OperatorConstants, TunnelsAreWatched, PTL
  <1>3. ConsoleSpec => []TunnelsEndWithProcess
    BY OperatorConstants, ViewsAreWhole, PTL
  <1>4. DeployedTogether /\ LiveReleaseKept /\ LockHasOwner
          /\ IdleIsWatched /\ ClosedStaysDown /\ TunnelsEndWithProcess
          => MachinesConsistent
    BY Zenon DEF MachinesConsistent
  <1> QED BY <1>1, <1>2, <1>3, <1>4, OperatorRunsFleet, PTL

\* However the runtimes, their crashes and the recoveries of their sessions interleave, a call
\* of a tool gets one result and one audit line.
THEOREM CallsStaySettled == Spec => []CallsSettledOnce
  BY OperatorConstants, CallsAreSettledOnce, OperatorRunsSessions, PTL

\* A call runs once and recorded, an opened history can be replayed, a turn that claims
\* completion has proof of the source it leaves, a patch lands whole or not at all, and what a
\* console shows of its fleet has every row, gap and line.
THEOREM RecordsStayTrue == Spec => RecordsAreTrue
  <1>1. SessionSafety => RunsAreRecorded /\ OpenedHistoryReads
    BY OperatorConstants, CallsRunRecorded, OpenedHistoryIsWhole, PTL
  <1>2. EvidenceSpec => CompletionIsProven /\ PatchIsWhole
    BY OperatorConstants, CompletionProven, PatchesAreWhole, PTL
  <1>3. ConsoleSpec =>
          [](PartialResultsAreWhole /\ GapsAreTold /\ DeployStreamIsWhole)
    BY OperatorConstants, ViewsAreWhole, PTL
  <1> QED BY <1>1, <1>2, <1>3, OperatorRunsFleet, OperatorRunsSessions, PTL DEF RecordsAreTrue
=============================================================================
