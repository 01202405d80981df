CONSTANTS
    Readers = {r1, r2}
    Backups = {b1, b2}
    ShardNum = 2
    ShardId = 1
    StripeUnit = 3
    EntryBytes = 2
    Preloads = {0, 2, 4, 6}
    MaxLen = 8
SPECIFICATION FairSpec
INVARIANTS LaterReadIsSafe CacheIsOnDisk BackupsFollow
PROPERTY ReadReturns
