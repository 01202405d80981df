CONSTANTS
    Threads = {t1, t2}
    Sizes = {4}
    MaxSize = 4
    RgSize = 18
    Slack = 8
    LineSize = 2
    MaxFetch = 11
    NumBuffers = 2
    SeqBound = 24
SPECIFICATION Spec
INVARIANT FetchedInOrder
CHECK_DEADLOCK FALSE
