\* Instant uploads while the content is being uploaded.
CONSTANTS
    Workers = {w1, w2, w3}
    Owners = {o1, o2, o3}
    Md5s = {m1}
    Ops = {"md5", "upload"}
    Seeded = {}
    FaultKinds <- StatementFaults
    MaxFaults = 1
    MaxRequests = 4
    Orderly = {"upload"}
SPECIFICATION Spec
INVARIANT NeverUndercounted
SYMMETRY StoreSymmetry
\* the instance ends after MaxRequests requests
CHECK_DEADLOCK FALSE
