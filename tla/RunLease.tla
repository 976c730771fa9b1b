------------------------------ MODULE RunLease ------------------------------
(***************************************************************************)
(* One fenced TTL lease row of internal/state (sqlite_lease.go; the other  *)
(* back ends agree) and the heartbeats that live on it                     *)
(* (durable_recovery.go, durableRunLeaseHeartbeat).                        *)
(*                                                                         *)
(* The store compares expiries with database time only, so an instant is   *)
(* kept as its distance from now: left = -1 is in the past.  A call to the *)
(* store is one step, except the renewal sent by the heartbeat goroutine:  *)
(* it is in flight for a while, and the steps of its owner interleave.     *)
(***************************************************************************)
EXTENDS Integers

CONSTANTS
    Heartbeats,     \* one per concurrent owner: a run, a replay, a resume
    Holders,        \* replica identities (cronReplicaID)
    HolderOf,       \* the replica of a heartbeat; two may share one
    NoOne,          \* the holder column before the first acquisition
    TTL,            \* ticks of a lease, at least one
    MaxFence        \* bound: acquisitions explored

ASSUME TTLAssumption == TTL \in Nat \ {0}
ASSUME HolderAssumption == HolderOf \in [Heartbeats -> Holders] /\ NoOne \notin Holders

\* A placement for numbered heartbeats and replicas: two heartbeats on each replica.
TwoPerReplica == [c \in Heartbeats |-> c \div 2]

VARIABLES
    row,    \* the lease row: holder, fence (0: no row yet), left
    hb      \* each heartbeat: phase, fence, proven (left of its last proof), renewer

vars == <<row, hb>>

Past == -1

Phases == {"idle", "held", "lost", "released", "crashed"}

\* The renewal goroutine: gone, between two ticks, or inside RenewLease.
Renewers == {"off", "waiting", "sent"}

Row == [holder : Holders \cup {NoOne}, fence : Nat, left : Past .. TTL]
Heartbeat == [phase : Phases, fence : Nat, proven : Past .. TTL, renewer : Renewers]

TypeOK ==
    /\ row \in Row
    /\ hb \in [Heartbeats -> Heartbeat]

Idle == [phase |-> "idle", fence |-> 0, proven |-> Past, renewer |-> "off"]

Init ==
    /\ row = [holder |-> NoOne, fence |-> 0, left |-> Past]
    /\ hb = [c \in Heartbeats |-> Idle]

----------------------------------------------------------------------------
(* The three statements of sqlite_lease.go. *)

\* Mutant: the upsert compares with <= instead of <.
ExpiredTooSoon == row.left <= 0

Expired == row.left < 0
\* Mutant: RenewLease and ReleaseLease match on the holder alone.
OwnsByHolder(c) == row.holder = HolderOf[c]

Owns(c) == row.holder = HolderOf[c] /\ row.fence = hb[c].fence
\* Mutant: a takeover that keeps the fence.
TakenAtSameFence(c) == [holder |-> HolderOf[c], fence |-> row.fence, left |-> TTL]

Taken(c) == [holder |-> HolderOf[c], fence |-> row.fence + 1, left |-> TTL]
Extended == [row EXCEPT !.left = TTL]
\* Mutant: release deletes the row, so that the next acquire starts again at 1.
Deleted(c) == IF Owns(c) THEN [holder |-> NoOne, fence |-> 0, left |-> Past] ELSE row

Tombstoned(c) == IF Owns(c) THEN [row EXCEPT !.left = Past] ELSE row

\* A call whose answer never arrives was applied, or was not.
MayBeExtended(c) == row' = row \/ (Owns(c) /\ row' = Extended)

----------------------------------------------------------------------------
(* What becomes of a heartbeat h. *)

Started(fence) == [phase |-> "held", fence |-> fence, proven |-> TTL, renewer |-> "waiting"]
Sending(h)   == [h EXCEPT !.renewer = "sent"]
Stopped(h)   == [h EXCEPT !.renewer = "off"]
Lost(h)      == [h EXCEPT !.phase = "lost"]
Confirmed(h) == [h EXCEPT !.proven = TTL]
Unproven(h)  == [h EXCEPT !.proven = Past]
Renewed(h)   == [Confirmed(h) EXCEPT !.renewer = "waiting"]
Finished(h)  == [Unproven(h) EXCEPT !.phase = "released"]

\* A dead process sends nothing; what it sent already is still on its way.
Silenced(h) == IF h.renewer = "sent" THEN h ELSE Stopped(h)
Dead(h) == [Unproven(Silenced(h)) EXCEPT !.phase = "crashed"]

----------------------------------------------------------------------------
(* The heartbeat. *)

Acquire(c) ==
    /\ hb[c].phase = "idle"
    /\ Expired
    /\ row.fence < MaxFence
    /\ row' = Taken(c)
    /\ hb' = [hb EXCEPT ![c] = Started(row.fence + 1)]

\* The ticker fires: a renewal leaves for the store (under renewMu).
SendRenewal(c) ==
    /\ hb[c].phase \in {"held", "lost"}
    /\ hb[c].renewer = "waiting"
    /\ hb' = [hb EXCEPT ![c] = Sending(@)]
    /\ UNCHANGED row

\* The store extends the lease and answers; the owner may have died meanwhile.
RenewalSucceeds(c) ==
    /\ hb[c].renewer = "sent"
    /\ Owns(c)
    /\ row' = Extended
    /\ hb' = [hb EXCEPT ![c] = IF hb[c].phase = "crashed" THEN Stopped(@) ELSE Renewed(@)]

\* Not renewed, or the call failed: ownership is not proven, the goroutine
\* cancels the execution (markLost) and returns.
RenewalFails(c) ==
    /\ hb[c].renewer = "sent"
    /\ MayBeExtended(c)
    /\ hb' = [hb EXCEPT ![c] = IF hb[c].phase = "crashed" THEN Stopped(@) ELSE Lost(Stopped(@))]

\* Mutant: a lost heartbeat is taken for one whose goroutine has returned.
StopRenewingUnlessLost(c) ==
    /\ hb[c].phase = "held"
    /\ hb[c].renewer # "off"
    /\ IF hb[c].renewer = "sent" THEN MayBeExtended(c) ELSE UNCHANGED row
    /\ hb' = [hb EXCEPT ![c] = Stopped(@)]

\* stopRenewing cancels the renewal in flight and waits for the goroutine.
StopRenewing(c) ==
    /\ hb[c].phase \in {"held", "lost"}
    /\ hb[c].renewer # "off"
    /\ IF hb[c].renewer = "sent" THEN MayBeExtended(c) ELSE UNCHANGED row
    /\ hb' = [hb EXCEPT ![c] = Stopped(@)]

\* confirm: a synchronous renewal, after one in flight (renewMu), refused
\* once the heartbeat is lost.
CanConfirm(c) == hb[c].phase = "held" /\ hb[c].renewer # "sent"

Confirm(c) ==
    /\ CanConfirm(c)
    /\ Owns(c)
    /\ row' = Extended
    /\ hb' = [hb EXCEPT ![c] = Confirmed(@)]

\* An unproven lease is lost; a cancelled caller learns nothing either way.
\* The renewal goroutine runs on until release.
ConfirmFails(c) ==
    /\ CanConfirm(c)
    /\ MayBeExtended(c)
    /\ hb' = hb \/ hb' = [hb EXCEPT ![c] = Lost(@)]

\* Mutant: release does not wait for the renewal goroutine.
ReleaseAtOnce(c) ==
    /\ hb[c].phase \in {"held", "lost"}
    /\ row' = Tombstoned(c)
    /\ hb' = [hb EXCEPT ![c] = Finished(@)]

\* release, once the goroutine is gone; the owner's work is over.
Release(c) ==
    /\ hb[c].phase \in {"held", "lost"}
    /\ hb[c].renewer = "off"
    /\ row' = Tombstoned(c)
    /\ hb' = [hb EXCEPT ![c] = Finished(@)]

\* The process dies; a renewal in flight still reaches the store.
Crash(c) ==
    /\ hb[c].phase \in {"held", "lost"}
    /\ hb' = [hb EXCEPT ![c] = Dead(@)]
    /\ UNCHANGED row

\* A later run, or a restarted process, starts another heartbeat.
StartAgain(c) ==
    /\ hb[c].phase \in {"released", "crashed"}
    /\ hb[c].renewer = "off"
    /\ hb' = [hb EXCEPT ![c] = Idle]
    /\ UNCHANGED row

\* Mutant: nothing stops the countdown at an expiry.
SoonerForEver(n) == n - 1

Sooner(n) == IF n > Past THEN n - 1 ELSE n
Aged(h) == [h EXCEPT !.proven = Sooner(h.proven)]

\* Database time passes, whether or not any heartbeat keeps up with it.
Tick ==
    /\ row.left > Past
    /\ row' = [row EXCEPT !.left = Sooner(@)]
    /\ hb' = [c \in Heartbeats |-> Aged(hb[c])]

Next ==
    \/ \E c \in Heartbeats :
          \/ Acquire(c) \/ SendRenewal(c) \/ RenewalSucceeds(c) \/ RenewalFails(c)
          \/ StopRenewing(c) \/ Confirm(c) \/ ConfirmFails(c) \/ Release(c)
          \/ Crash(c) \/ StartAgain(c)
    \/ Tick

Spec == Init /\ [][Next]_vars

\* Time passes; a lost owner, its context cancelled, reaches its deferred release.
GiveUp(c) == hb[c].phase = "lost" /\ (StopRenewing(c) \/ Release(c))
FairSpec == Spec /\ WF_vars(Tick) /\ \A c \in Heartbeats : WF_vars(GiveUp(c))

----------------------------------------------------------------------------
(* Properties. *)

Proven(c) == hb[c].proven >= 0
InTenure(c) == hb[c].fence # 0

\* At most one heartbeat is inside the TTL window opened by its last successful
\* acquire, renewal or confirm: what confirm buys a terminal or a completion.
ProofExclusive == \A c, d \in Heartbeats : Proven(c) /\ Proven(d) => c = d

\* A fence identifies one tenure, also between two heartbeats of one replica
\* (lease.go: "a fence never identifies two sessions").
TokensUnique ==
    \A c, d \in Heartbeats :
        InTenure(c) /\ InTenure(d) /\ hb[c].fence = hb[d].fence => c = d

\* After release the row stays free until somebody acquires it: no renewal of
\* the finished heartbeat resurrects the tombstone.
ReleasedStaysFree ==
    \A c \in Heartbeats : hb[c].phase = "released" /\ row.fence = hb[c].fence => Expired

\* No takeover inside a window that some heartbeat was promised: the step that
\* moves the fence is taken when every proof has run out.
TakeoverSparesProofs ==
    [][row'.fence # row.fence => \A c \in Heartbeats : ~Proven(c)]_vars

\* A heartbeat that lost its lease, or died, does not hold the row for ever.
LossYields ==
    \A c \in Heartbeats :
        hb[c].phase \in {"lost", "crashed"} ~> (Expired \/ row.fence # hb[c].fence)

\* The abstract lease is the row without its clock; a heartbeat could present its
\* fence until it released it.
LeaseOf(r) == [fence |-> r.fence, live |-> r.left >= 0]
InUse(h) == h.phase \in {"held", "lost", "crashed"}
TokenOf(h) == IF InUse(h) THEN h.fence ELSE 0

\* The row and the heartbeats implement the abstract lease.
Abstract == INSTANCE FencedLease WITH
    Clients <- Heartbeats,
    lease <- LeaseOf(row),
    token <- [c \in Heartbeats |-> TokenOf(hb[c])]
ImplementsFencedLease == Abstract!LeaseSpec
============================================================================
