\* Two users, two files, any requests on two threads.
CONSTANTS
    Workers = {w1, w2}
    Users = {u1, u2}
    Files = {f1, f2}
    Ops <- AllOps
    FaultKinds = {"call", "crash"}
    MaxFaults = 2
    MaxRequests = 4
SPECIFICATION Spec
INVARIANTS SettledRanking SettledBoard CountNeverOver
PROPERTY ShareAnswers
\* nothing is claimed, so nothing is followed, after a request out of order;
\* four requests and one failure, or three and two
CONSTRAINTS InGoodOrderSoFar FailuresForRequests
SYMMETRY BoardSymmetry
\* the instance ends after MaxRequests requests
CHECK_DEADLOCK FALSE
