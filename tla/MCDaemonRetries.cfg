CONSTANTS
    Jobs = {1}
    Relays = {1}
    Policies <- EveryRelay
    Nonces = {1, 2, 3}
    AttemptMax = 2
    OutboxMaximum = 1
    MaxTime = 20
    JitterMax = 1
    RecoveryBatch = 1
    MaxKills = 1
    MaxStops = 1
    Horizon = 1
SPECIFICATION FairSpec
PROPERTIES
    EveryJobFinishes
