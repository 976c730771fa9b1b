---------------------------- MODULE FencedLease ----------------------------
(***************************************************************************)
(* What a lease of internal/state/lease.go promises to its clients, with   *)
(* time abstracted away: one name, one current fence, and the rule that    *)
(* only the client presenting the current fence may extend or end it.      *)
(*                                                                         *)
(* RunLease (the store and the heartbeat, with database time), CronLeader  *)
(* and DurableRun are each shown to implement this specification.          *)
(***************************************************************************)
EXTENDS Integers

CONSTANT Clients    \* whoever acquires the lease: a replica, or a leg of a run

VARIABLES
    lease,          \* the row: its last granted fence, and whether it is unexpired
    token           \* the fence each client would present, 0 when it has none

leaseVars == <<lease, token>>

Unheld == [fence |-> 0, live |-> FALSE]

Granted(l)  == [fence |-> l.fence + 1, live |-> TRUE]
Extended(l) == [fence |-> l.fence, live |-> TRUE]
Ended(l)    == [fence |-> l.fence, live |-> FALSE]
ReleasedBy(l, fence) == IF l.fence = fence THEN Ended(l) ELSE l

----------------------------------------------------------------------------
LeaseInit ==
    /\ lease = Unheld
    /\ token = [c \in Clients |-> 0]

\* AcquireLease on an absent, expired or tombstoned row: a takeover at fence + 1.
AcquireLease(c) ==
    /\ ~lease.live
    /\ lease' = Granted(lease)
    /\ token' = [token EXCEPT ![c] = lease.fence + 1]

\* RenewLease succeeds for the current fence, even on an expired row.
RenewLease(c) ==
    /\ token[c] # 0
    /\ token[c] = lease.fence
    /\ lease' = Extended(lease)
    /\ UNCHANGED token

\* ReleaseLease tombstones the row, or does nothing under a stale fence.
ReleaseLease(c) ==
    /\ token[c] # 0
    /\ lease' = ReleasedBy(lease, token[c])
    /\ token' = [token EXCEPT ![c] = 0]

\* The process of some clients is gone, or a tenure ended without a release.
ForgetLease(gone) ==
    /\ token' = [c \in Clients |-> IF c \in gone THEN 0 ELSE token[c]]
    /\ UNCHANGED lease

\* The TTL ran out.
ExpireLease ==
    /\ lease.live
    /\ lease' = Ended(lease)
    /\ UNCHANGED token

LeaseNext ==
    \/ \E c \in Clients : AcquireLease(c) \/ RenewLease(c) \/ ReleaseLease(c)
    \/ \E gone \in SUBSET Clients : ForgetLease(gone)
    \/ ExpireLease

LeaseSpec == LeaseInit /\ [][LeaseNext]_leaseVars
============================================================================
