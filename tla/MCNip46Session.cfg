CONSTANTS
    Clients = {"app"}
    RequestIds = {1, 2}
    EventIds = {e1, e2}
    Messages <- SessionMessages
    Permissions = {}
    Trusted = {}
    Denied = {}
    Ceiling = {}
    AuthorizedLifetime = 2
    PendingLifetime = 1
    Nonces = {1}
    MaxTime = 3
    None = None
SPECIFICATION Spec
SYMMETRY EventSymmetry
INVARIANTS
    RecordsReadable
    AnswersAgree
    
PROPERTIES
    EvidenceKept
