SPECIFICATION Spec
CONSTANTS
    p1 = p1
    p2 = p2
    r1 = r1
    r2 = r2
    Common = Common
    None = None
    Posts = {p1}
    Requests = {r1}
    PostOf <- OnePost
    Tokened = {}
    Capacity = 1
    MaxEvents = 2
INVARIANT
    ResponseOnItsStream
CHECK_DEADLOCK FALSE
