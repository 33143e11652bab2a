\* One connection of the pool, commands of every kind, two failures.
CONSTANTS
    Used <- SmallCommands
    Password = TRUE
    Faults = {"down", "io", "error"}
    MaxFaults = 2
SPECIFICATION Spec
INVARIANTS ReplyIsOwn CheckedMeansDone OneDescriptor
PROPERTY Recovers
\* the process may die
CHECK_DEADLOCK FALSE
