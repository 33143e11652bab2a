\* Registrations, logins, shares and views on two threads, one failure.
CONSTANTS
    Workers = {w1, w2}
    Names = {u1, u2}
    Nicks = {n1, n2}
    Passwords = {p1, p2}
    Pictures = {s1}
    Files = {f1}
    FaultKinds = {"query", "prepare", "update", "redis", "pool", "crash"}
    MaxFaults = 1
    MaxRequests = 4
SPECIFICATION Spec
INVARIANTS AccountsHold ViewsCounted
SYMMETRY AccountSymmetry
\* the instance ends after MaxRequests requests
CHECK_DEADLOCK FALSE
