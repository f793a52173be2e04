CONSTANTS
    Clients = {"app"}
    RequestIds = {1, 2, 3, 4}
    EventIds = {1, 2, 3, 4}
    Wire <- OperatorWire
    Messages <- Sent
    Permissions = {"sign", "decrypt"}
    Trusted = {}
    Denied = {}
    Ceiling = {"sign"}
    AuthorizedLifetime = 1
    PendingLifetime = 1
    Nonces = {1, 2, 3}
    MaxTime = 3
    None = None
    OutboxMaximum = 2
    Horizon = 2
    Staleness = 1
    MaxDeliveries = 3
    MaxRestarts = 0
    MaxSetBacks = 0
SPECIFICATION DispatchSpec
CHECK_DEADLOCK FALSE
INVARIANTS
    SessionsGranted
PROPERTIES
    StopsExplained
