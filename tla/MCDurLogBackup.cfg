CONSTANTS
    Clients = {c1, c2}
    MaxReqs = 2
    RingRoom = 3
SPECIFICATION FairSpec
INVARIANTS TypeOK LaterUnorderedIsHeld FreedWasWritten PendingLeftRing
PROPERTY CallReturns
CHECK_DEADLOCK FALSE
