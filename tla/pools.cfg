\* Four threads on a pool that opens a second connection on demand; every Api
\* function, with more threads than connections.
CONSTANTS
    Threads = {t1, t2, t3, t4}
    Conns = {c1, c2, c3}
    NoConn = NoConn
    MinConn = 1
    MaxConn = 2
    TimedWaits <- BothWaits
    MaxRequests = 2
    Workers = {w1, w2, w3}
    Limit <- TwoSlaves
    Apis <- ApiNames
    MaxTasks = 3
SPECIFICATION PoolsSpec
INVARIANTS TypeOK Exclusive Accounting NoLostWakeup HandlersTyped NeverStuck
PROPERTIES ImplementsPool WaitersServed RequestsEnd
\* every thread stops after its requests
CHECK_DEADLOCK FALSE
