---------------------------- MODULE MCDurableRun ----------------------------
(* DurableRun on two replicas: one receives the request, the other recovers. *)
EXTENDS DurableRun, TLC

CONSTANTS live, resume, scanner, operator, replicaA, replicaB

MCResumes == {resume}
MCScanners == {scanner}
MCOperators == {operator}
NoOperators == {}
MCHostOf == (live :> replicaA) @@ (resume :> replicaA)
            @@ (scanner :> replicaB) @@ (operator :> replicaB)

GatedPlan == <<"idempotent", "gated">>
ReadGatedPlan == <<"read", "gated">>
EffectPlan == <<"read", "effect">>

\* Bound: a second crash only where no operator forces a recovery.  Neither step is one that
\* Fairness asks for, so the bound takes nothing from the liveness.
FewFaults == faults'.crashes = 2 => \A l \in Operators : leg'[l].pc = "off"
============================================================================
