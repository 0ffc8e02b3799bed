SPECIFICATION Spec
CONSTANTS
    p1 = p1
    p2 = p2
    r1 = r1
    r2 = r2
    Common = Common
    None = None
    Posts = {p1}
    Requests = {r1}
    PostOf <- OnePost
    Tokened = {r1}
    Capacity = 2
    MaxEvents = 3
INVARIANTS
    TypeOK
    RoutesAgree
    NothingLost
CONSTRAINT FewEvents
PROPERTY
    ImplementsEventLog
CHECK_DEADLOCK FALSE
