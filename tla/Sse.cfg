SPECIFICATION FairSpec
CONSTANTS
    m1 = m1
    m2 = m2
    Posts = {m1, m2}
    MaxSessions = 2
    Capacity = 1
    MaxTimes = 2
    Width = 1
    None = None
INVARIANTS
    TypeOK
    GivesUpAfterMaxTimes
    OpenSessionIsFound
PROPERTIES
    AcceptedIsAnswered
    DroppedSessionEnds
CONSTRAINT
    FirstIsM1
CHECK_DEADLOCK FALSE
