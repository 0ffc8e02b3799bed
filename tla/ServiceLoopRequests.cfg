SPECIFICATION Spec
CONSTANTS
    q1 = q1
    q2 = q2
    q3 = q3
    None = None
    Calls = {}
    Timed = {}
    Revocable = {}
    Notes = {n1}
    Requests = {q1, q2, q3}
    RemoteId <- SharedIds
    IdModulus = 1
    ProxyCap = 1
    SinkCap = 1
    MaxBatch = 2
INVARIANTS
    NoSpuriousCancel
    Cancellable
    TokenReleased
