SPECIFICATION Spec
CONSTANTS
    k1 = k1
    j1 = j1
    Configurations <- MCConfigurations
    Ceiling <- MCCeiling
    Identity <- MCIdentity
    RelaysOf <- MCRelaysOf
    Projection <- MCProjection
    Trusting = {"moved"}
    Permissions <- MCPermissions
    Connections = {k1}
    Jobs = {j1}
    SchemaVersion = 2
    MaxGenerations = 3
    MaxCrashes = 1
    MaxRestores = 1
VIEW RelevantState
INVARIANTS
    RunsUnderLatest
    RowsFollowConfiguration
    
    
