SPECIFICATION Spec
CONSTANTS
    w1 = w1
    w2 = w2
    Workers = {w1, w2}
    Answers <- SomeAnswers
    MaxClients = 1
    MaxCodes = 2
    MaxTokens = 3
    None = None
SYMMETRY Symmetry
INVARIANTS
    TypeOK
    AuthorizedHasCredentials
    ExchangeMeetsServer
    SerialRefresh
PROPERTY
    ReturnsNoExpiredToken
CHECK_DEADLOCK FALSE
