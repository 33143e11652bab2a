\* Two instant uploads of the same file by the same user, nothing fails.
CONSTANTS
    Workers = {w1, w2}
    Owners = {o1, o2}
    Md5s = {m1}
    Ops = {"md5"}
    Seeded = {m1}
    FaultKinds = {}
    MaxFaults = 0
    MaxRequests = 2
    Orderly = {}
SPECIFICATION Spec
INVARIANT NeverCrashes
\* the instance ends after MaxRequests requests
CHECK_DEADLOCK FALSE
