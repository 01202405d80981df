CONSTANTS
    Readers = {r1, r2}
    ShardNum = 2
    ShardId = 1
    StripeUnit = 3
    Sizes = {1, 2}
    Preloads = {0, 6}
    MaxLen = 8
SPECIFICATION FairSpec
INVARIANTS ReadIsExact LaterReadIsReplicated MapIsOfFile
PROPERTY ReplicatedIsRead
