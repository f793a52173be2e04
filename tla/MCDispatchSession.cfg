CONSTANTS
    Clients = {"app", "foe"}
    RequestIds = {1, 2, 3}
    EventIds = {1, 2, 3, 4}
    Wire <- SessionWire
    Messages <- Sent
    Permissions = {"sign"}
    Trusted = {"app"}
    Denied = {"foe"}
    Ceiling = {"sign"}
    AuthorizedLifetime = 0
    PendingLifetime = 0
    Nonces = {1, 2, 3}
    MaxTime = 2
    None = None
    OutboxMaximum = 1
    Horizon = 2
    Staleness = 1
    MaxDeliveries = 3
    MaxRestarts = 1
    MaxSetBacks = 1
SPECIFICATION FairDispatchSpec
CHECK_DEADLOCK FALSE
INVARIANTS
    ExecutesOnce
    IntakeExact
PROPERTIES
    ReleasedUnderSession
    StopsExplained
    
