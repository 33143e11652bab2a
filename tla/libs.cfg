\* The libraries, each on its own small instance.
CONSTANTS
    HTTP_MAX_HEADER_SIZE = 36
    ULLONG_MAX = 63
    MaxPiece = 2
    Streams <- SomeStreams
    LLONG_MAX = 127
    INT_MAX = 12
    MAX_DEPTH = 2
    MaxRead = 2
    Names = {"a", "b"}
    MaxCommands = 3
    MaxMessages = 1
    Threads = {w1, w2}
    Callers = {c1, c2}
    Tasks = 3
    Keys = {"a", "b", "c", "d"}
    Vals = {"x", "y"}
    HashOf <- SmallHashes
    DICT_HT_INITIAL_SIZE = 2
    Chars = {"a", "b"}
    Widths <- SmallWidths
    SDS_MAX_PREALLOC = 4
    MaxLen = 5
    MaxOps = 3
    maxLargestUInt = 63
    maxLargestInt = 31
    maxInt = 7
    rightMargin = 12
SPECIFICATION LibsSpec
INVARIANTS SplitInvariant AssertsHold CallbackOnce QuietAgrees SdsIsString DictIsMap ReadsBack
PROPERTY PoolServes
\* streams end, commands run out and tasks are done
CHECK_DEADLOCK FALSE
