\* One request after the other; only Redis may fail.
CONSTANTS
    Workers = {w1}
    Owners = {o1, o2}
    Md5s = {m1, m2}
    Ops <- AllOps
    Seeded = {m1}
    FaultKinds = {"redis"}
    MaxFaults = 1
    MaxRequests = 6
    Orderly = {"upload", "del"}
SPECIFICATION Spec
INVARIANTS SettledExact SettledStore ZeroMeansUnreferenced
\* the instance ends after MaxRequests requests
CHECK_DEADLOCK FALSE
