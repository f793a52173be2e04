CONSTANTS
    Jobs = {1}
    Relays = {1}
    Policies <- EveryRelay
    Nonces = {1, 2}
    AttemptMax = 1
    OutboxMaximum = 1
    MaxTime = 20
    JitterMax = 1
    RecoveryBatch = 1
    MaxKills = 1
    MaxStops = 0
    Horizon = 2
SPECIFICATION DSpec
INVARIANTS
    RecoverySucceeds
