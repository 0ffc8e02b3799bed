SPECIFICATION FairSpec
CONSTANTS
    q1 = q1
    q2 = q2
    q3 = q3
    None = None
    Calls = {c1}
    Timed = {c1}
    Revocable = {}
    Notes = {}
    Requests = {q1}
    RemoteId <- OwnIds
    IdModulus = 1
    ProxyCap = 1
    SinkCap = 1
    MaxBatch = 1
PROPERTIES
    TimedCallReturns
    AnswerArrives
    ShutdownReleasesCallers
    CancelStopsLoop
    RepliesLeave
