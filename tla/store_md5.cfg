\* Instant uploads of one content by the same and by different users.
CONSTANTS
    Workers = {w1, w2, w3}
    Owners = {o1, o2, o3}
    Md5s = {m1}
    Ops = {"md5"}
    Seeded = {m1}
    FaultKinds <- LaterFaults
    MaxFaults = 1
    MaxRequests = 4
    Orderly = {}
SPECIFICATION Spec
INVARIANTS RefCountExact NoDuplicateOwner
PROPERTY AckedIsStored
SYMMETRY StoreSymmetry
\* the instance ends after MaxRequests requests
CHECK_DEADLOCK FALSE
