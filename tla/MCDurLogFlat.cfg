CONSTANTS
    Threads = {t1, t2}
    Sizes = {4}
    MaxSize = 4
    RgSize = 16
    Slack = 8
    LineSize = 2
    MaxFetch = 7
    NumBuffers = 2
    SeqBound = 20
SPECIFICATION FairSpec
INVARIANTS TypeOK UnorderedIntact FetchedInOrder WatermarksAgree
PROPERTIES WatermarkAdvances AppendReturns EntriesGetOrdered
CHECK_DEADLOCK FALSE
