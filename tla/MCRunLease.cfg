SPECIFICATION FairSpec
CONSTANTS
    \* Three heartbeats, two of them on one replica.
    Heartbeats = {0, 1, 2}
    Holders = {0, 1}
    HolderOf <- TwoPerReplica
    NoOne = NoOne
    TTL = 2
    MaxFence = 3
INVARIANTS
    TypeOK
    ProofExclusive
    TokensUnique
    ReleasedStaysFree
PROPERTIES
    TakeoverSparesProofs
    LossYields
    ImplementsFencedLease
\* Nothing is left to do once MaxFence acquisitions have been made and expired.
CHECK_DEADLOCK FALSE
