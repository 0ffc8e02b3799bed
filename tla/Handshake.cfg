SPECIFICATION FairSpec
CONSTANTS
    Client = Client
    Server = Server
    None = None
    Versions = {1, 2}
    Pages = 2
    Width = 8
    MaxCalls = 2
    MaxStrays = 1
INVARIANTS
    TypeOK
    TypedAnswers
PROPERTIES
    HandshakeEnds
CONSTRAINT TwoAtMost
CHECK_DEADLOCK FALSE
