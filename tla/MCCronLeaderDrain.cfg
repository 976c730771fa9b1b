SPECIFICATION FairSpec
CONSTANTS
    Replicas = {r1, r2}
    Nobody = Nobody
    MaxTick = 2
    Pool = 1
    MaxFence = 2
PROPERTY FiresFinishBeforeLeaseMoves
