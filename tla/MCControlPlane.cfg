SPECIFICATION Spec
CONSTANTS
    o1 = o1
    o2 = o2
    o3 = o3
    c1 = c1
    c2 = c2
    approve = approve
    backup = backup
    render = render
    publish = publish
    OperationIds = {o1, o2, o3}
    Requests = {approve, backup, render, publish}
    CompletedLimit = 2
    PreparedLimit = 2
    Retention = 1
    Signatures = {1, 2}
    Callers = {c1, c2}
    Route <- MCRoute
    ExpectedGeneration <- MCGeneration
    MaxTime = 2
    MaxCalls = 3
    MaxRestarts = 1
    MaxGenerations = 2
SYMMETRY Symmetry
CHECK_DEADLOCK FALSE
INVARIANTS
    RepliesAreEffects
    JournalSound
PROPERTIES
    AppliedOnce
    PublicationSound
