SPECIFICATION FairSpec
CONSTANTS
    r1 = r1
    r2 = r2
    Requests = {r1, r2}
    Capacity = 1
    SessionCapacity = 2
    MaxNotes = 2
    MaxBreaks = 1
    Common = Common
    Initialize = Initialize
    Initialized = Initialized
    None = None
INVARIANTS
    TypeOK
    NothingSkipped
PROPERTIES
    ImplementsTransport
    
CONSTRAINT
    FewThings
CHECK_DEADLOCK FALSE
