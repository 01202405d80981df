CONSTANTS
    Clients = {c1, c2}
    MaxReqs = 2
    RingRoom = 2
SPECIFICATION FairSpec
PROPERTY AppendReturns
CHECK_DEADLOCK FALSE
