SPECIFICATION Spec
CONSTANTS
    q1 = q1
    q2 = q2
    q3 = q3
    None = None
    Calls = {c1, c2}
    Timed = {c1}
    Revocable = {c1}
    Notes = {}
    Requests = {}
    RemoteId <- OwnIds
    IdModulus = 2
    ProxyCap = 2
    SinkCap = 1
    MaxBatch = 0
INVARIANTS
    TypeOK
    NoOrphanedCaller
    NoOrphanedNotifier
    AnswersMatch
    NoResponderLeak
PROPERTY
    ImplementsRequestCalls
