CONSTANTS
    Threads = {t1, t2}
    Sizes = {3}
    MaxSize = 3
    RgSize = 11
    Slack = 6
    LineSize = 11
    MaxFetch = 0
    NumBuffers = 1
    SeqBound = 15
    IdxSlack = 1
SPECIFICATION SpecReadSpec
SYMMETRY ThreadSymmetry
INVARIANT UnorderedFitsRing
PROPERTIES SpecReadIsRight SpecReadFinds
CHECK_DEADLOCK FALSE
