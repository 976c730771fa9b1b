-------------------------- MODULE CronLeaderProofs --------------------------
(***************************************************************************)
(* What the leased cron loop promises for every set of replicas, schedule, *)
(* pool size and relation between their clocks.                            *)
(*                                                                         *)
(* TickRunsOnce does not rest on the lease: the argument is that a run in  *)
(* flight, and a replica about to start one, is the exec of the pending    *)
(* reservation of its tick (RunsReserved, StartsReserved), and nobody else *)
(* touches a pending reservation.  NoResurrection and the refinement do:   *)
(* they need Terms, that a replica knows no fence the row did not have and *)
(* that no two replicas know the same one.                                 *)
(***************************************************************************)
EXTENDS CronLeader, TLAPS

PendingOf(r) == [outcome |-> "pending", exec |-> r]

\* A run in flight owns the pending reservation of its tick.
RunsReserved == \A r \in Replicas : \A t \in inflight[r] : key[t] = PendingOf(r)

\* So does a replica that waits for a worker, whose run has not started.
StartsReserved ==
    \A r \in Replicas : rep[r].pc = "reserved" =>
        key[rep[r].next] = PendingOf(r) /\ rep[r].next \notin inflight[r]

\* A timer is armed for a tick of the schedule, or never fires.
TimersInRange ==
    \A r \in Replicas :
        /\ rep[r].pc = "armed" => rep[r].next >= 1
        /\ rep[r].pc \in {"renewed", "reserved"} => rep[r].next \in Ticks

IInv ==
    /\ TypeOK
    /\ TimersInRange
    /\ RunsReserved
    /\ StartsReserved
    /\ FiresUnderLeadership

USE DEF Ticks, PCs, Leading, Outcomes

\* The invariant holds of an unheld lease and unreserved ticks.
LEMMA InitIInv == Init => IInv
  BY TickAssumption, NobodyAssumption
  DEF Init, IInv, TypeOK, Lease, Replica, TimersInRange, RunsReserved, StartsReserved,
      FiresUnderLeadership, Polling

\* What the updates of a replica make of it.
LEMMA ReplicaValues ==
    ASSUME NEW h \in Replica
    PROVE  /\ Polling \in Replica /\ Down \in Replica
           /\ Polling.pc = "follower" /\ Down.pc = "down"
           /\ \A pc \in PCs : Goes(h, pc) \in Replica
           /\ \A pc \in PCs : Goes(h, pc).pc = pc /\ Goes(h, pc).next = h.next
           /\ \A t \in 0 .. MaxTick + 1 : ArmedFor(h, t) \in Replica
           /\ \A t \in 0 .. MaxTick + 1 : ArmedFor(h, t).pc = "armed" /\ ArmedFor(h, t).next = t
           /\ Silent(h) \in Replica /\ Silent(h).pc = h.pc /\ Silent(h).next = h.next
           /\ \A b \in BOOLEAN : Signalled(h, b) \in Replica
           /\ \A b \in BOOLEAN : Signalled(h, b).pc = h.pc /\ Signalled(h, b).next = h.next
  <1>1. Polling \in Replica /\ Polling.pc = "follower"
    BY TickAssumption DEF Polling, Replica
  <1>2. ASSUME NEW g \in Replica
        PROVE  /\ \A pc \in PCs : Goes(g, pc) \in Replica
               /\ \A pc \in PCs : Goes(g, pc).pc = pc /\ Goes(g, pc).next = g.next
               /\ Silent(g) \in Replica /\ Silent(g).pc = g.pc /\ Silent(g).next = g.next
    BY DEF Goes, Silent, Replica
  <1>3. Down \in Replica /\ Down.pc = "down"
    BY <1>1, <1>2 DEF Down
  <1>4. ASSUME NEW t \in 0 .. MaxTick + 1
        PROVE  ArmedFor(h, t) \in Replica /\ ArmedFor(h, t).pc = "armed" /\ ArmedFor(h, t).next = t
    <2>1. Goes(h, "armed") \in Replica /\ Goes(h, "armed").pc = "armed"
      BY <1>2
    <2> QED BY <2>1 DEF ArmedFor, Replica
  <1>5. ASSUME NEW b \in BOOLEAN
        PROVE  Signalled(h, b) \in Replica /\ Signalled(h, b).pc = h.pc
               /\ Signalled(h, b).next = h.next
    <2>1. Silent(h) \in Replica /\ Silent(h).pc = h.pc /\ Silent(h).next = h.next
      BY <1>2
    <2> QED BY <2>1 DEF Signalled, Replica
  <1> QED BY <1>1, <1>2, <1>3, <1>4, <1>5

\* A step of one replica that touches neither reservations nor runs keeps the
\* invariant when it brings the replica no closer to a fire than it may be.
LEMMA ReplicaStep ==
    ASSUME IInv, NEW r \in Replicas, NEW h \in Replica,
           rep' = [rep EXCEPT ![r] = h], lease' \in Lease,
           UNCHANGED <<key, inflight, clock, stopping>>,
           h.pc = "armed" => h.next >= 1,
           h.pc = "renewed" => h.next \in Ticks,
           h.pc = "reserved" => rep[r].pc = "reserved" /\ h.next = rep[r].next,
           h.pc \in {"follower", "down"} => inflight[r] = {}
    PROVE  IInv'
  <1>1. rep'[r] = h /\ \A s \in Replicas : s # r => rep'[s] = rep[s]
    BY DEF IInv, TypeOK
  <1>2. TypeOK'
    BY DEF IInv, TypeOK
  <1>3. TimersInRange' /\ StartsReserved' /\ RunsReserved' /\ FiresUnderLeadership'
    BY <1>1 DEF IInv, TimersInRange, StartsReserved, RunsReserved, FiresUnderLeadership, Replica
  <1> QED BY <1>2, <1>3 DEF IInv

\* The steps of the election, of the timer and of the teardown.
LEMMA LoopStep ==
    ASSUME IInv, NEW r \in Replicas,
           \/ AcquireLease(r) \/ LeaveLoop(r) \/ BackgroundRenewFails(r) \/ LeaveTimerLoop(r)
           \/ RenewBeforeFire(r) \/ RenewBeforeFireFails(r) \/ NoWorker(r) \/ StopRenewer(r)
           \/ ReleaseLease(r)
    PROVE  IInv'
  <1> DEFINE h == rep[r]
  <1>1. h \in Replica /\ lease \in Lease /\ Extended \in Lease /\ clock[r] \in 0 .. MaxTick
        /\ stopping[r] \in BOOLEAN
    BY DEF IInv, TypeOK, Extended, Lease
  <1>2. [lease EXCEPT !.live = FALSE] \in Lease
    BY <1>1 DEF Lease
  <1>3. CASE AcquireLease(r)
    <2>1. Armed(r, lease.fence + 1) \in Replica /\ Armed(r, lease.fence + 1).pc = "armed"
          /\ Armed(r, lease.fence + 1).next >= 1 /\ lease' \in Lease
      BY <1>1, <1>3, TickAssumption DEF AcquireLease, Armed, Replica, Lease
    <2> QED BY <1>3, <2>1, ReplicaStep DEF AcquireLease
  <1>4. CASE LeaveLoop(r)
    <2>1. inflight[r] = {}
      BY <1>4 DEF LeaveLoop, IInv, FiresUnderLeadership
    <2> QED BY <1>1, <1>4, <2>1, ReplicaValues, ReplicaStep DEF LeaveLoop
  <1>5. CASE BackgroundRenewFails(r)
    <2>1. /\ Signalled(h, ~stopping[r]) \in Replica
          /\ Signalled(h, ~stopping[r]).pc = h.pc /\ Signalled(h, ~stopping[r]).next = h.next
      BY <1>1, ReplicaValues
    <2>2. /\ h.pc = "armed" => h.next >= 1
          /\ h.pc = "renewed" => h.next \in Ticks
          /\ h.pc \in {"follower", "down"} => inflight[r] = {}
      BY DEF IInv, TimersInRange, FiresUnderLeadership
    <2>3. lease' \in Lease
      BY <1>1, <1>5 DEF BackgroundRenewFails, MayBeExtended
    <2> QED BY <1>5, <2>1, <2>2, <2>3, ReplicaStep DEF BackgroundRenewFails
  <1>6. CASE LeaveTimerLoop(r) \/ NoWorker(r) \/ RenewBeforeFireFails(r)
    <2>1. Goes(h, "drain") \in Replica /\ Goes(h, "drain").pc = "drain"
      BY <1>1, ReplicaValues
    <2>2. rep' = [rep EXCEPT ![r] = Goes(h, "drain")] /\ lease' \in Lease
          /\ UNCHANGED <<key, inflight, clock, stopping>>
      BY <1>1, <1>6 DEF LeaveTimerLoop, NoWorker, RenewBeforeFireFails, MayBeExtended
    <2> QED BY <2>1, <2>2, ReplicaStep
  <1>7. CASE RenewBeforeFire(r)
    <2>1. h.pc = "armed" /\ clock[r] >= h.next
      BY <1>7 DEF RenewBeforeFire, TimerFired
    <2>2. h.next \in Ticks
      BY <1>1, <2>1, TickAssumption DEF IInv, TimersInRange, Replica
    <2>3. Goes(h, "renewed") \in Replica /\ Goes(h, "renewed").pc = "renewed"
          /\ Goes(h, "renewed").next = h.next
      BY <1>1, ReplicaValues
    <2> QED BY <1>1, <1>7, <2>2, <2>3, ReplicaStep DEF RenewBeforeFire
  <1>8. CASE StopRenewer(r)
    <2>1. Silent(h) \in Replica /\ Silent(h).pc = "drain"
      BY <1>1, <1>8, ReplicaValues DEF StopRenewer
    <2> QED BY <1>1, <1>8, <2>1, ReplicaStep DEF StopRenewer
  <1>9. CASE ReleaseLease(r)
    <2>1. lease' \in Lease
      BY <1>1, <1>2, <1>9 DEF ReleaseLease
    <2> QED BY <1>1, <1>9, <2>1, ReplicaValues, ReplicaStep DEF ReleaseLease
  <1> QED BY <1>3, <1>4, <1>5, <1>6, <1>7, <1>8, <1>9

\* A pending reservation names its run.
LEMMA PendingDistinct == ASSUME NEW r, NEW s, PendingOf(r) = PendingOf(s) PROVE r = s
  BY DEF PendingOf

\* A reservation of the tick a replica was armed for; it was nobody's before.
LEMMA ReservedFacts ==
    ASSUME IInv, NEW r \in Replicas, rep[r].pc = "renewed", Free(rep[r].next),
           key' = Reserved(rep[r].next, r)
    PROVE  /\ key' \in [Ticks -> [outcome : Outcomes, exec : Replicas \cup {Nobody}]]
           /\ key'[rep[r].next] = PendingOf(r)
           /\ \A t \in Ticks : t # rep[r].next => key'[t] = key[t]
           /\ \A s \in Replicas : rep[r].next \notin inflight[s]
           /\ \A s \in Replicas : rep[s].pc = "reserved" => rep[s].next # rep[r].next
  <1>1. rep[r].next \in Ticks
    BY DEF IInv, TimersInRange
  <1>2. \A s \in Replicas : key[rep[r].next] # PendingOf(s)
    BY DEF Free, PendingOf
  <1>3. PendingOf(r) \in [outcome : Outcomes, exec : Replicas \cup {Nobody}]
    BY DEF PendingOf
  <1>4. key' = [key EXCEPT ![rep[r].next] = PendingOf(r)]
    BY DEF Reserved, PendingOf
  <1>5. /\ key' \in [Ticks -> [outcome : Outcomes, exec : Replicas \cup {Nobody}]]
        /\ key'[rep[r].next] = PendingOf(r)
        /\ \A t \in Ticks : t # rep[r].next => key'[t] = key[t]
    BY <1>1, <1>3, <1>4 DEF IInv, TypeOK
  <1>6. /\ \A s \in Replicas : rep[r].next \notin inflight[s]
        /\ \A s \in Replicas : rep[s].pc = "reserved" => rep[s].next # rep[r].next
    BY <1>2 DEF IInv, RunsReserved, StartsReserved
  <1> QED BY <1>5, <1>6

\* Reserve, and a reservation whose answer was an error.
LEMMA ReserveStep ==
    ASSUME IInv, NEW r \in Replicas, rep[r].pc = "renewed", Free(rep[r].next),
           key' = Reserved(rep[r].next, r), UNCHANGED <<lease, inflight, clock, stopping>>,
           NEW h \in Replica, rep' = [rep EXCEPT ![r] = h],
           h.pc = "armed" => h.next >= 1,
           h.pc = "reserved" => h.next = rep[r].next,
           h.pc \in {"armed", "reserved", "drain"}
    PROVE  IInv'
  <1>1. rep'[r] = h /\ \A s \in Replicas : s # r => rep'[s] = rep[s]
    BY DEF IInv, TypeOK
  <1>2. rep[r].next \in Ticks
    BY DEF IInv, TimersInRange
  <1>3. TypeOK'
    BY ReservedFacts DEF IInv, TypeOK
  <1>4. TimersInRange' /\ FiresUnderLeadership'
    BY <1>1, <1>2 DEF IInv, TimersInRange, FiresUnderLeadership
  <1>5. RunsReserved'
    BY ReservedFacts DEF IInv, RunsReserved, TypeOK
  <1>6. StartsReserved'
    BY <1>1, ReservedFacts DEF IInv, StartsReserved, TimersInRange
  <1> QED BY <1>3, <1>4, <1>5, <1>6 DEF IInv

\* Every step of a replica or the environment keeps the invariant.
LEMMA NextIInv == IInv /\ [Next]_vars => IInv'
  <1> SUFFICES ASSUME IInv, [Next]_vars PROVE IInv'
    OBVIOUS
  <1>1. ASSUME NEW r \in Replicas,
               \/ AcquireLease(r) \/ LeaveLoop(r) \/ BackgroundRenewFails(r)
               \/ LeaveTimerLoop(r) \/ RenewBeforeFire(r) \/ RenewBeforeFireFails(r)
               \/ NoWorker(r) \/ StopRenewer(r) \/ ReleaseLease(r)
        PROVE  IInv'
    BY <1>1, LoopStep
  <1>2. ASSUME NEW r \in Replicas, Reserve(r) PROVE IInv'
    <2>1. rep[r] \in Replica
      BY DEF IInv, TypeOK
    <2> QED BY <1>2, <2>1, ReplicaValues, ReserveStep DEF Reserve
  <1>3. ASSUME NEW r \in Replicas, SkipTick(r) PROVE IInv'
    <2>1. rep[r] \in Replica /\ clock[r] \in 0 .. MaxTick /\ clock[r] + 1 \in 0 .. MaxTick + 1
          /\ lease \in Lease
      BY TickAssumption DEF IInv, TypeOK
    <2>2. PICK h \in {ArmedFor(rep[r], clock[r] + 1), Goes(rep[r], "drain")} :
             rep' = [rep EXCEPT ![r] = h]
      BY <1>3 DEF SkipTick, Rearmed
    <2>3. h \in Replica /\ h.pc \in {"armed", "drain"} /\ (h.pc = "armed" => h.next >= 1)
      BY <2>1, <2>2, ReplicaValues
    <2>4. CASE UNCHANGED key
      BY <1>3, <2>1, <2>2, <2>3, <2>4, ReplicaStep DEF SkipTick
    <2>5. CASE Free(rep[r].next) /\ key' = Reserved(rep[r].next, r)
      BY <1>3, <2>2, <2>3, <2>5, ReserveStep DEF SkipTick
    <2> QED BY <1>3, <2>4, <2>5 DEF SkipTick
  <1>4. ASSUME NEW r \in Replicas, StartFire(r) PROVE IInv'
    <2> DEFINE h == ArmedFor(rep[r], clock[r] + 1)
    <2>1. h \in Replica /\ h.pc = "armed" /\ h.next >= 1
      <3>1. rep[r] \in Replica /\ clock[r] + 1 \in 1 .. MaxTick + 1
        BY TickAssumption DEF IInv, TypeOK
      <3>2. PICK t \in 0 .. MaxTick + 1 : t = clock[r] + 1 /\ t >= 1
        BY <3>1, TickAssumption
      <3>3. /\ ArmedFor(rep[r], t) \in Replica
            /\ ArmedFor(rep[r], t).pc = "armed"
            /\ ArmedFor(rep[r], t).next = t
        BY <3>1, ReplicaValues
      <3> QED BY <3>2, <3>3
    <2>2. /\ rep' = [rep EXCEPT ![r] = h]
          /\ inflight' = [inflight EXCEPT ![r] = @ \cup {rep[r].next}]
          /\ rep[r].pc = "reserved" /\ UNCHANGED <<lease, key, clock, stopping>>
      BY <1>4 DEF StartFire, Rearmed
    <2>3. rep'[r] = h /\ \A s \in Replicas : s # r => rep'[s] = rep[s] /\ inflight'[s] = inflight[s]
      BY <2>2 DEF IInv, TypeOK
    <2>4. rep[r].next \in Ticks /\ key[rep[r].next] = PendingOf(r)
      BY <2>2 DEF IInv, TimersInRange, StartsReserved
    <2>5. TypeOK'
      BY <2>1, <2>2, <2>4 DEF IInv, TypeOK
    <2>6. TimersInRange' /\ FiresUnderLeadership'
      BY <2>1, <2>2, <2>3 DEF IInv, TimersInRange, FiresUnderLeadership
    <2>7. RunsReserved' /\ StartsReserved'
      BY <2>1, <2>2, <2>3, <2>4 DEF IInv, TypeOK, RunsReserved, StartsReserved
    <2> QED BY <2>5, <2>6, <2>7 DEF IInv
  <1>5. ASSUME NEW r \in Replicas, NEW t \in Ticks, FinishFire(r, t) PROVE IInv'
    <2>1. key[t] = PendingOf(r) /\ t \in inflight[r]
      BY <1>5 DEF FinishFire, IInv, RunsReserved
    <2>2. PICK outcome \in {"failed", "succeeded"} : key' = [key EXCEPT ![t].outcome = outcome]
      BY <1>5, <2>1 DEF FinishFire, Resolved, PendingOf
    <2>3. /\ inflight' = [inflight EXCEPT ![r] = @ \ {t}]
          /\ UNCHANGED <<lease, rep, clock, stopping>>
      BY <1>5 DEF FinishFire
    <2>4. TypeOK'
      BY <2>2, <2>3 DEF IInv, TypeOK
    <2>5. \A u \in Ticks : u # t => key'[u] = key[u]
      BY <2>2 DEF IInv, TypeOK
    <2>6. \A s \in Replicas : s # r => t \notin inflight[s]
      BY <2>1, PendingDistinct DEF IInv, RunsReserved
    <2>7. \A s \in Replicas : rep[s].pc = "reserved" => rep[s].next # t
      BY <2>1, PendingDistinct DEF IInv, StartsReserved
    <2>8. RunsReserved'
      BY <2>3, <2>5, <2>6 DEF IInv, TypeOK, RunsReserved
    <2>9. StartsReserved' /\ TimersInRange' /\ FiresUnderLeadership'
      BY <2>3, <2>5, <2>7 DEF IInv, TypeOK, StartsReserved, TimersInRange, FiresUnderLeadership
    <2> QED BY <2>4, <2>8, <2>9 DEF IInv
  <1>6. ASSUME NEW r \in Replicas, Crash(r) PROVE IInv'
    <2>1. Down \in Replica /\ Down.pc = "down"
      BY ReplicaValues DEF IInv, TypeOK
    <2>2. rep' = [rep EXCEPT ![r] = Down] /\ inflight' = [inflight EXCEPT ![r] = {}]
          /\ UNCHANGED <<lease, key, clock, stopping>>
      BY <1>6 DEF Crash
    <2>3. TypeOK'
      BY <2>1, <2>2 DEF IInv, TypeOK
    <2>4. TimersInRange' /\ RunsReserved' /\ StartsReserved' /\ FiresUnderLeadership'
      BY <2>1, <2>2
      DEF IInv, TypeOK, TimersInRange, RunsReserved, StartsReserved, FiresUnderLeadership
    <2> QED BY <2>3, <2>4 DEF IInv
  <1>7. ASSUME NEW r \in Replicas, Restart(r) PROVE IInv'
    <2>1. Polling \in Replica /\ Polling.pc = "follower"
      BY ReplicaValues DEF IInv, TypeOK
    <2>2. rep' = [rep EXCEPT ![r] = Polling] /\ UNCHANGED <<lease, key, inflight>>
          /\ rep[r].pc = "down"
      BY <1>7 DEF Restart
    <2>3. clock' \in [Replicas -> 0 .. MaxTick] /\ stopping' \in [Replicas -> BOOLEAN]
      BY <1>7 DEF Restart, IInv, TypeOK
    <2>4. TypeOK'
      BY <2>1, <2>2, <2>3 DEF IInv, TypeOK
    <2>5. TimersInRange' /\ RunsReserved' /\ StartsReserved' /\ FiresUnderLeadership'
      BY <2>1, <2>2
      DEF IInv, TypeOK, TimersInRange, RunsReserved, StartsReserved, FiresUnderLeadership
    <2> QED BY <2>4, <2>5 DEF IInv
  <1>8. ASSUME NEW r \in Replicas, BackgroundRenew(r) PROVE IInv'
    BY <1>8 DEF BackgroundRenew, Extended, Lease, IInv, TypeOK, TimersInRange, RunsReserved,
                StartsReserved, FiresUnderLeadership
  <1>9. ASSUME NEW r \in Replicas, ClockTick(r) \/ Shutdown(r) PROVE IInv'
    <2>1. UNCHANGED <<lease, key, rep, inflight>>
      BY <1>9 DEF ClockTick, Shutdown
    <2>2. clock' \in [Replicas -> 0 .. MaxTick] /\ stopping' \in [Replicas -> BOOLEAN]
      <3>1. CASE ClockTick(r)
        BY <3>1, TickAssumption DEF ClockTick, IInv, TypeOK
      <3>2. CASE Shutdown(r)
        BY <3>2 DEF Shutdown, IInv, TypeOK
      <3> QED BY <1>9, <3>1, <3>2
    <2> QED BY <2>1, <2>2 DEF IInv, TypeOK, TimersInRange, RunsReserved, StartsReserved,
                              FiresUnderLeadership
  <1>10. CASE Expire
    BY <1>10 DEF Expire, Lease, IInv, TypeOK, TimersInRange, RunsReserved, StartsReserved,
                 FiresUnderLeadership
  <1>11. CASE UNCHANGED vars
    BY <1>11 DEF vars, IInv, TypeOK, TimersInRange, RunsReserved, StartsReserved,
                 FiresUnderLeadership
  <1> QED
    BY <1>1, <1>2, <1>3, <1>4, <1>5, <1>6, <1>7, <1>8, <1>9, <1>10, <1>11 DEF Next

LEMMA Invariance == Spec => []IInv
  BY InitIInv, NextIInv, PTL DEF Spec

----------------------------------------------------------------------------
(* The results. *)

\* Every variable of the cron loop keeps its type.
THEOREM TypeCorrect == Spec => []TypeOK
  BY Invariance, PTL DEF IInv

\* However clocks, crashes, terms and replica identities fall, a tick is never
\* run by two replicas at once, nor again after a run of it succeeded.
THEOREM TicksRunOnce == Spec => []TickRunsOnce
  <1>1. ASSUME IInv PROVE TickRunsOnce
    <2> SUFFICES ASSUME NEW t \in Ticks, NEW r \in Replicas, t \in inflight[r]
                 PROVE  /\ key[t].outcome = "pending"
                        /\ \A s \in Replicas \ {r} : t \notin inflight[s]
      BY DEF TickRunsOnce
    <2>1. \A s \in Replicas : t \in inflight[s] => key[t] = PendingOf(s)
      BY <1>1 DEF IInv, RunsReserved
    <2>2. \A s \in Replicas : PendingOf(s).exec = s /\ PendingOf(s).outcome = "pending"
      BY DEF PendingOf
    <2> QED BY <2>1, <2>2
  <1> QED BY <1>1, Invariance, PTL

\* No replica has a run under way outside its leadership and its teardown.
THEOREM FiresHaveALeader == Spec => []FiresUnderLeadership
  BY Invariance, PTL DEF IInv

\* A reservation leaves its run only by the hand of that run, and never once it
\* succeeded: no late writer, no skipped tick, no second leader reopens it.
THEOREM KeysKeepTheirRuns == Spec => KeyKeepsItsRun
  <1>1. IInv /\ [Next]_vars =>
          [\A t \in Ticks : key'[t] # key[t] /\ key[t].outcome \in {"pending", "succeeded"} =>
              key'[t].exec = key[t].exec /\ t \in inflight[key[t].exec]]_vars
    <2> SUFFICES ASSUME IInv, Next, NEW t \in Ticks, key'[t] # key[t],
                        key[t].outcome \in {"pending", "succeeded"}
                 PROVE  key'[t].exec = key[t].exec /\ t \in inflight[key[t].exec]
      OBVIOUS
    <2>0. key \in [Ticks -> [outcome : Outcomes, exec : Replicas \cup {Nobody}]]
      BY DEF IInv, TypeOK
    <2>1. ASSUME NEW r \in Replicas, Free(rep[r].next), key' = Reserved(rep[r].next, r)
          PROVE  FALSE
      BY <2>0, <2>1 DEF Free, Reserved
    <2>2. PICK r \in Replicas : Reserve(r) \/ SkipTick(r) \/ \E u \in Ticks : FinishFire(r, u)
      BY DEF Next, AcquireLease, LeaveLoop, BackgroundRenew, BackgroundRenewFails,
             LeaveTimerLoop, RenewBeforeFire, RenewBeforeFireFails, StartFire, NoWorker,
             StopRenewer, ReleaseLease, ClockTick, Shutdown, Crash, Restart, Expire
    <2>3. PICK u \in Ticks : FinishFire(r, u)
      BY <2>1, <2>2 DEF Reserve, SkipTick
    <2>4. key[u] = PendingOf(r) /\ u \in inflight[r]
      BY <2>3 DEF FinishFire, IInv, RunsReserved
    <2>5. PICK outcome \in {"failed", "succeeded"} : key' = [key EXCEPT ![u].outcome = outcome]
      BY <2>3, <2>4 DEF FinishFire, Resolved, PendingOf
    <2>6. t = u /\ key'[u].exec = key[u].exec
      BY <2>0, <2>5
    <2> QED BY <2>4, <2>6 DEF PendingOf
  <1> QED BY <1>1, Invariance, PTL DEF Spec, KeyKeepsItsRun

----------------------------------------------------------------------------
(* The terms.  What a step may do to the lease depends on the fences the    *)
(* replicas hold, which the schedule of the ticks says nothing about.       *)

Holding == Leading \cup {"drain"}

\* A term has a fence that the row granted; outside a term there is neither a
\* fence nor a renewal goroutine.
Terms ==
    \A r \in Replicas :
        /\ rep[r].fence <= lease.fence
        /\ rep[r].pc \in Holding => rep[r].fence # 0
        /\ rep[r].pc \notin Holding => rep[r].fence = 0 /\ ~rep[r].renewer

OnlyReplica(r) == \A s \in Replicas : s # r => rep'[s] = rep[s]

\* What a step can be to the lease: a replica opens a term above every other, ...
Wins(r) ==
    /\ OnlyReplica(r)
    /\ ~lease.live
    /\ lease' = [fence |-> lease.fence + 1, live |-> TRUE]
    /\ rep'[r].fence = lease.fence + 1 /\ rep'[r].pc = "armed"

\* ... goes on with its own, extending the row at most under the current fence, ...
Holds(r) ==
    /\ OnlyReplica(r)
    /\ rep[r].pc \in Holding /\ rep'[r].pc \in Holding
    /\ rep'[r].fence = rep[r].fence
    /\ MayBeExtended(r)

\* ... ends it with a release, ...
Releases(r) ==
    /\ OnlyReplica(r)
    /\ rep[r].pc = "drain" /\ rep'[r] = Polling
    /\ lease' = IF Current(r) THEN [lease EXCEPT !.live = FALSE] ELSE lease

\* ... is gone, or begins anew, without a word to the store, ...
Vanishes(r) ==
    /\ OnlyReplica(r)
    /\ rep'[r] \in {Polling, Down}
    /\ lease' = lease

\* ... or the TTL runs out.
TermStep ==
    \/ \E r \in Replicas : Wins(r) \/ Holds(r) \/ Releases(r) \/ Vanishes(r)
    \/ Expire
    \/ UNCHANGED <<lease, rep>>

\* The fence and the renewal goroutine through the updates of a replica.
LEMMA ReplicaTerms ==
    ASSUME NEW h \in Replica
    PROVE  /\ \A pc \in PCs : Goes(h, pc).fence = h.fence
           /\ \A t \in 0 .. MaxTick + 1 : ArmedFor(h, t).fence = h.fence
           /\ Silent(h).fence = h.fence
           /\ \A b \in BOOLEAN : Signalled(h, b).fence = h.fence
           /\ Polling.fence = 0 /\ Down.fence = 0 /\ ~Polling.renewer /\ ~Down.renewer
  BY DEF Replica, Goes, ArmedFor, Silent, Signalled, Polling, Down

\* Every step is one of these.
LEMMA NextTermStep == ASSUME IInv, Terms, [Next]_vars PROVE TermStep
  <1>0. /\ rep \in [Replicas -> Replica] /\ lease \in Lease
        /\ clock \in [Replicas -> 0 .. MaxTick] /\ stopping \in [Replicas -> BOOLEAN]
    BY DEF IInv, TypeOK
  <1>1. ASSUME NEW r \in Replicas, NEW h, rep' = [rep EXCEPT ![r] = h]
        PROVE  rep'[r] = h /\ OnlyReplica(r)
    BY <1>0, <1>1 DEF OnlyReplica
  <1>2. ASSUME NEW r \in Replicas, rep[r].pc \in Holding, MayBeExtended(r), NEW h,
               rep' = [rep EXCEPT ![r] = h], h.pc \in Holding, h.fence = rep[r].fence
        PROVE  TermStep
    BY <1>1, <1>2 DEF Holds, TermStep
  <1>3. ASSUME NEW r \in Replicas
        PROVE  /\ \A pc \in PCs : Goes(rep[r], pc).pc = pc
               /\ \A pc \in PCs : Goes(rep[r], pc).fence = rep[r].fence
               /\ Silent(rep[r]).pc = rep[r].pc /\ Silent(rep[r]).fence = rep[r].fence
               /\ \A b \in BOOLEAN : Signalled(rep[r], b).pc = rep[r].pc
               /\ \A b \in BOOLEAN : Signalled(rep[r], b).fence = rep[r].fence
               /\ ArmedFor(rep[r], clock[r] + 1).pc = "armed"
               /\ ArmedFor(rep[r], clock[r] + 1).fence = rep[r].fence
    <2>1. rep[r] \in Replica /\ clock[r] + 1 \in 0 .. MaxTick + 1
      BY <1>0, TickAssumption
    <2>2. /\ \A pc \in PCs : Goes(rep[r], pc).pc = pc
          /\ \A t \in 0 .. MaxTick + 1 : ArmedFor(rep[r], t).pc = "armed"
          /\ Silent(rep[r]).pc = rep[r].pc
          /\ \A b \in BOOLEAN : Signalled(rep[r], b).pc = rep[r].pc
      BY <2>1, ReplicaValues
    <2>3. /\ \A pc \in PCs : Goes(rep[r], pc).fence = rep[r].fence
          /\ \A t \in 0 .. MaxTick + 1 : ArmedFor(rep[r], t).fence = rep[r].fence
          /\ Silent(rep[r]).fence = rep[r].fence
          /\ \A b \in BOOLEAN : Signalled(rep[r], b).fence = rep[r].fence
      BY <2>1, ReplicaTerms
    <2> QED BY <2>1, <2>2, <2>3
  <1>4. ASSUME NEW r \in Replicas, AcquireLease(r) PROVE TermStep
    <2>1. Armed(r, lease.fence + 1).fence = lease.fence + 1
          /\ Armed(r, lease.fence + 1).pc = "armed"
      BY DEF Armed
    <2> QED BY <1>1, <1>4, <2>1 DEF AcquireLease, Wins, TermStep
  <1>5. ASSUME NEW r \in Replicas, LeaveLoop(r) \/ Crash(r) \/ Restart(r) PROVE TermStep
    BY <1>1, <1>5 DEF LeaveLoop, Crash, Restart, Vanishes, TermStep
  <1>6. ASSUME NEW r \in Replicas, BackgroundRenew(r) PROVE TermStep
    <2>1. rep' = [rep EXCEPT ![r] = rep[r]] /\ rep[r].pc \in Holding
      BY <1>0, <1>6 DEF BackgroundRenew, Terms
    <2> QED BY <1>2, <1>6, <2>1 DEF BackgroundRenew, MayBeExtended
  <1>7. ASSUME NEW r \in Replicas, BackgroundRenewFails(r) PROVE TermStep
    <2>1. rep[r].pc \in Holding
      BY <1>0, <1>7 DEF BackgroundRenewFails, Terms
    <2>2. PICK b \in BOOLEAN : rep' = [rep EXCEPT ![r] = Signalled(rep[r], b)]
      BY <1>7 DEF BackgroundRenewFails
    <2>3. MayBeExtended(r)
      BY <1>7 DEF BackgroundRenewFails
    <2> QED BY <1>2, <1>3, <2>1, <2>2, <2>3
  <1>8. ASSUME NEW r \in Replicas,
               LeaveTimerLoop(r) \/ RenewBeforeFire(r) \/ RenewBeforeFireFails(r)
        PROVE  TermStep
    <2>1. rep[r].pc = "armed" /\ MayBeExtended(r)
      BY <1>8 DEF LeaveTimerLoop, RenewBeforeFire, RenewBeforeFireFails, TimerFired, MayBeExtended
    <2>2. PICK pc \in {"drain", "renewed"} : rep' = [rep EXCEPT ![r] = Goes(rep[r], pc)]
      BY <1>8 DEF LeaveTimerLoop, RenewBeforeFire, RenewBeforeFireFails
    <2>3. Goes(rep[r], pc).pc = pc /\ Goes(rep[r], pc).fence = rep[r].fence
      BY <1>3
    <2>4. rep[r].pc \in Holding /\ pc \in Holding
      BY <2>1 DEF Holding
    <2> QED BY <1>2, <2>1, <2>2, <2>3, <2>4
  <1>9. ASSUME NEW r \in Replicas,
               Reserve(r) \/ SkipTick(r) \/ StartFire(r) \/ NoWorker(r) \/ StopRenewer(r)
        PROVE  TermStep
    <2>1. rep[r].pc \in Holding /\ MayBeExtended(r)
      BY <1>9 DEF Reserve, SkipTick, StartFire, NoWorker, StopRenewer, MayBeExtended, Holding
    <2>2. \/ \E pc \in {"drain", "reserved"} : rep' = [rep EXCEPT ![r] = Goes(rep[r], pc)]
          \/ rep' = [rep EXCEPT ![r] = ArmedFor(rep[r], clock[r] + 1)]
          \/ rep' = [rep EXCEPT ![r] = Silent(rep[r])]
      BY <1>9 DEF Reserve, SkipTick, StartFire, NoWorker, StopRenewer, Rearmed
    <2>3. CASE \E pc \in {"drain", "reserved"} : rep' = [rep EXCEPT ![r] = Goes(rep[r], pc)]
      <3>1. PICK pc \in {"drain", "reserved"} : rep' = [rep EXCEPT ![r] = Goes(rep[r], pc)]
        BY <2>3
      <3>2. Goes(rep[r], pc).pc = pc /\ Goes(rep[r], pc).fence = rep[r].fence
        BY <1>3
      <3> QED BY <1>2, <2>1, <3>1, <3>2 DEF Holding
    <2>4. CASE rep' = [rep EXCEPT ![r] = ArmedFor(rep[r], clock[r] + 1)]
      BY <1>2, <1>3, <2>1, <2>4 DEF Holding
    <2>5. CASE rep' = [rep EXCEPT ![r] = Silent(rep[r])]
      BY <1>2, <1>3, <2>1, <2>5
    <2> QED BY <2>2, <2>3, <2>4, <2>5
  <1>10. ASSUME NEW r \in Replicas, ReleaseLease(r) PROVE TermStep
    BY <1>1, <1>10 DEF ReleaseLease, Releases, TermStep
  <1>11. ASSUME NEW r \in Replicas,
                ClockTick(r) \/ Shutdown(r) \/ \E t \in Ticks : FinishFire(r, t)
         PROVE  TermStep
    BY <1>11 DEF ClockTick, Shutdown, FinishFire, TermStep
  <1>12. CASE Expire
    BY <1>12 DEF TermStep
  <1>13. CASE UNCHANGED vars
    BY <1>13 DEF vars, TermStep
  <1> QED BY <1>4, <1>5, <1>6, <1>7, <1>8, <1>9, <1>10, <1>11, <1>12, <1>13 DEF Next

\* And keeps the terms.
LEMMA NextTerms == IInv /\ IInv' /\ Terms /\ [Next]_vars => Terms'
  <1> SUFFICES ASSUME IInv, IInv', Terms, [Next]_vars PROVE Terms'
    OBVIOUS
  <1>0. /\ rep \in [Replicas -> Replica] /\ lease \in Lease /\ lease.fence \in Nat
        /\ \A r \in Replicas : rep[r].fence \in Nat
        /\ Polling.pc = "follower" /\ Down.pc = "down"
        /\ Polling.fence = 0 /\ Down.fence = 0 /\ ~Polling.renewer /\ ~Down.renewer
    BY DEF IInv, TypeOK, Lease, Replica, Polling, Down, Goes
  <1>1. ASSUME NEW r \in Replicas, Wins(r) PROVE Terms'
    <2>1. lease'.fence = lease.fence + 1
      BY <1>1 DEF Wins
    <2> QED BY <1>0, <1>1, <2>1 DEF Wins, OnlyReplica, Terms, Holding
  <1>2. ASSUME NEW r \in Replicas, Holds(r) PROVE Terms'
    <2>1. lease'.fence = lease.fence
      BY <1>0, <1>2 DEF Holds, MayBeExtended, Extended, Lease
    <2> QED BY <1>0, <1>2, <2>1 DEF Holds, OnlyReplica, Terms, Holding
  <1>3. ASSUME NEW r \in Replicas, Releases(r) \/ Vanishes(r) PROVE Terms'
    <2>1. lease'.fence = lease.fence
      BY <1>0, <1>3 DEF Releases, Vanishes, Lease
    <2>2. OnlyReplica(r) /\ rep'[r] \in {Polling, Down}
      BY <1>3 DEF Releases, Vanishes
    <2> QED BY <1>0, <2>1, <2>2 DEF OnlyReplica, Terms, Holding
  <1>4. CASE Expire
    BY <1>0, <1>4 DEF Expire, Lease, Terms
  <1>5. CASE UNCHANGED <<lease, rep>>
    BY <1>5 DEF Terms
  <1> QED BY <1>1, <1>2, <1>3, <1>4, <1>5, NextTermStep DEF TermStep

LEMMA TermsAlways == Spec => [](IInv /\ Terms)
  <1>1. Init => Terms
    BY DEF Init, Terms, Polling, Holding
  <1> QED BY <1>1, NextTerms, InitIInv, NextIInv, PTL DEF Spec

\* A lease that expired or was released comes back under its fence only by a
\* replica that is still in that term.
THEOREM NothingResurrects == Spec => NoResurrection
  <1>1. IInv /\ Terms /\ [Next]_vars =>
          [~lease.live /\ lease'.live /\ lease'.fence = lease.fence =>
             \E r \in Replicas : rep[r].pc \in Leading \cup {"drain"} /\ Current(r)]_vars
    <2> SUFFICES ASSUME IInv, Terms, Next,
                        ~lease.live, lease'.live, lease'.fence = lease.fence
                 PROVE  \E r \in Replicas : rep[r].pc \in Holding /\ Current(r)
      BY DEF Holding
    <2>0. lease \in Lease /\ lease.fence \in Nat
      BY DEF IInv, TypeOK, Lease
    <2>1. TermStep
      BY NextTermStep
    <2>2. PICK r \in Replicas : Holds(r)
      BY <2>0, <2>1 DEF TermStep, Wins, Releases, Vanishes, Expire, Lease
    <2> QED BY <2>0, <2>2 DEF Holds, MayBeExtended
  <1> QED BY <1>1, TermsAlways, PTL DEF Spec, NoResurrection

\* The row and the terms of the replicas implement the abstract lease.
THEOREM CronImplementsLease == Spec => ImplementsFencedLease
  <1> DEFINE token == [r \in Replicas |-> rep[r].fence]
             Hidden == lease' = lease /\ token' = token
  <1>1. Init => Abstract!LeaseInit
    BY DEF Init, Polling, Abstract!LeaseInit, Abstract!Unheld
  <1>2. IInv /\ Terms /\ [Next]_vars => [Abstract!LeaseNext]_(Abstract!leaseVars)
    <2> SUFFICES ASSUME IInv, Terms, [Next]_vars PROVE Abstract!LeaseNext \/ Hidden
      BY DEF Abstract!leaseVars
    <2>0. /\ Extended = [fence |-> lease.fence, live |-> TRUE]
          /\ [lease EXCEPT !.live = FALSE] = [fence |-> lease.fence, live |-> FALSE]
      <3> DEFINE e == [lease EXCEPT !.live = TRUE]
                 t == [lease EXCEPT !.live = FALSE]
      <3>1. /\ e \in Lease /\ e.fence = lease.fence /\ e.live = TRUE
            /\ t \in Lease /\ t.fence = lease.fence /\ t.live = FALSE
            /\ Extended = e
        BY DEF IInv, TypeOK, Lease, Extended
      <3> HIDE DEF e, t
      <3>2. e = [fence |-> e.fence, live |-> e.live] /\ t = [fence |-> t.fence, live |-> t.live]
        BY <3>1 DEF Lease
      <3>3. Extended = [fence |-> lease.fence, live |-> TRUE]
            /\ t = [fence |-> lease.fence, live |-> FALSE]
        BY <3>1, <3>2
      <3> QED BY <3>3 DEF t
    <2>1. ASSUME NEW r \in Replicas, OnlyReplica(r)
          PROVE  token' = [token EXCEPT ![r] = rep'[r].fence]
      BY <2>1 DEF OnlyReplica
    <2>2. ASSUME NEW r \in Replicas, Wins(r) PROVE Abstract!AcquireLease(r)
      <3>1. token' = [token EXCEPT ![r] = lease.fence + 1]
        BY <2>1, <2>2 DEF Wins
      <3> QED BY <2>2, <3>1 DEF Wins, Abstract!AcquireLease, Abstract!Granted
    <2>3. ASSUME NEW r \in Replicas, Holds(r) PROVE Abstract!RenewLease(r) \/ Hidden
      <3>1. token' = token
        BY <2>1, <2>3 DEF Holds
      <3>2. token[r] # 0 /\ token[r] = rep[r].fence
        BY <2>3 DEF Holds, Terms
      <3>3. CASE Current(r) /\ lease' = Extended
        BY <2>0, <3>1, <3>2, <3>3 DEF Current, Abstract!RenewLease, Abstract!Extended
      <3> QED BY <2>3, <3>1, <3>3 DEF Holds, MayBeExtended
    <2>4. ASSUME NEW r \in Replicas, Releases(r) PROVE Abstract!ReleaseLease(r)
      <3>1. token' = [token EXCEPT ![r] = 0]
        BY <2>1, <2>4 DEF Releases, Polling
      <3>2. token[r] # 0 /\ token[r] = rep[r].fence
        BY <2>4 DEF Releases, Terms, Holding
      <3> QED BY <2>0, <2>4, <3>1, <3>2
          DEF Releases, Current, Abstract!ReleaseLease, Abstract!ReleasedBy, Abstract!Ended
    <2>5. ASSUME NEW r \in Replicas, Vanishes(r) PROVE Abstract!ForgetLease({r})
      <3>1. rep'[r].fence = 0
        BY <2>5 DEF Vanishes, Polling, Down, Goes
      <3>2. token' = [s \in Replicas |-> IF s \in {r} THEN 0 ELSE token[s]]
        BY <2>1, <2>5, <3>1 DEF Vanishes
      <3> QED BY <2>5, <3>2 DEF Vanishes, Abstract!ForgetLease
    <2>6. CASE Expire
      BY <2>0, <2>6 DEF Expire, Abstract!LeaseNext, Abstract!ExpireLease, Abstract!Ended
    <2>7. CASE UNCHANGED <<lease, rep>>
      BY <2>7
    <2>8. ASSUME NEW r \in Replicas, Abstract!ForgetLease({r}) PROVE Abstract!LeaseNext
      BY <2>8 DEF Abstract!LeaseNext
    <2> QED
      BY <2>2, <2>3, <2>4, <2>5, <2>6, <2>7, <2>8, NextTermStep DEF TermStep, Abstract!LeaseNext
  <1> QED BY <1>1, <1>2, TermsAlways, PTL DEF Spec, ImplementsFencedLease, Abstract!LeaseSpec
============================================================================
