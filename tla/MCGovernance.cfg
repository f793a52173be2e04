SPECIFICATION Spec
CONSTANTS
    Connects = {1, 2, 3, 4}
    RelayOf <- Relays
    Challenges = {5}
    ConnectionOf <- ChallengeConnections
    Limits = {1, 2}
    WindowMs = 2
    RetentionMs = 2
    AuditMs = 1
    MaxTracked = 1
    BatchRows = 1
    PageLimit = 1
    Queries <- Admissions
    MaxTime = 4
    MaxSkew = 1
    MaxRecords = 4
    MaxReconfigurations = 1
    MaxCompactions = 1
CHECK_DEADLOCK FALSE
INVARIANTS
    WindowsSound
    PagesComplete
