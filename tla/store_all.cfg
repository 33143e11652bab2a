\* All four operations at once, one failure of any kind but one.
CONSTANTS
    Workers = {w1, w2}
    Owners = {o1, o2}
    Md5s = {m1}
    Ops <- AllOps
    Seeded = {m1}
    FaultKinds <- MostFaults
    MaxFaults = 1
    MaxRequests = 3
    Orderly = {}
SPECIFICATION FairSpec
INVARIANTS TypeOK NoDangling
PROPERTY RequestsAnswered
\* the instance ends after MaxRequests requests
CHECK_DEADLOCK FALSE
