CONSTANTS
    Clients = {c1, c2}
    MaxReqs = 2
    RingRoom = 4
SPECIFICATION Spec
INVARIANT UnorderedIsHeld
CHECK_DEADLOCK FALSE
