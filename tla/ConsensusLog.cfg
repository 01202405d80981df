CONSTANTS
    Replicas = {p, b1}
    Primary = p
    ShardNum = 2
    StripeUnit = 2
    MaxBatch = 9
    MaxLen = 10
SPECIFICATION FairSpec
INVARIANTS TypeOK PlacedForRead DeletedIsStored GlobalIsStored
PROPERTIES EntriesBecomeReadable ImplementsBatchQueue
