CONSTANTS
    MaxFiles = 2
    Roles = {"transport", "user", "discovery"}
    KindOf <- Kinds
    Work <- Asked
    Concurrency = 1
    RequestDeadline = 1
    ProviderTimeout = 1
    PaddedLengths <- Lengths
    MaxTime = 3
    MaxCalls = 2
    MaxRekeys = 1
    MaxLives = 1
SPECIFICATION FairSpec
\* The daemon may have stopped for good.
CHECK_DEADLOCK FALSE
INVARIANTS
    
    VerificationExact
    NothingLeftBehind
PROPERTIES
    EveryCallReturns
