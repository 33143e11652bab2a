\* The pool is stopped while somebody waits for its tasks.
CONSTANTS
    Threads = {w1}
    Callers = {c1}
    Tasks = 1
SPECIFICATION StopSpec
PROPERTY StopEndsWaits
\* the tasks run out
CHECK_DEADLOCK FALSE
