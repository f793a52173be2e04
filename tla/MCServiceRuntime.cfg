SPECIFICATION FairSpec
CONSTANTS
    wss1 = wss1
    wss2 = wss2
    ws1 = ws1
    Relays = {wss1, wss2, ws1}
    RelayKind <- MCRelayKind
    ReadRelays = {wss1, wss2, ws1}
    RequiredRelays = {ws1}
    DiscoveryConfigured = TRUE
    IngressCapacity = 1
    ProviderCapacity = 1
    HealthCapacity = 1
    InitialBackoff = 1
    MaximumBackoff = 2
    OperationsEnabled = TRUE
    MaxEvents <- MCMaxEvents
    MaxOutages = 1
    MaxFaults = 1
    MaxChanges = 1
INVARIANTS
    
    
    StopOrderly
PROPERTIES
    HealthReturns
    StopEnds
