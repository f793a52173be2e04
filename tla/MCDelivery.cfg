CONSTANTS
    Jobs = {1}
    Relays = {1, 2, 3}
    Policies <- AllPolicies
    Nonces = {n1, n2}
    AttemptMax = 2
    OutboxMaximum = 1
    MaxTime = 3
    JitterMax = 1
SYMMETRY NonceSymmetry
SPECIFICATION Spec
\* Every job may be finished, and then nothing is left to do.
CHECK_DEADLOCK FALSE
INVARIANTS
    StatusIsVerdict
    HistoriesValid
    RowsSound
PROPERTIES
    EvidenceKept
    ImplementsOutbox
