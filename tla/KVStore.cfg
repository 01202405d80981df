CONSTANTS
    Clients = {c1, c2}
    QuorumClients = {c2}
    Backups = {b1}
    ShardNum = 2
    Data = {k1}
    MaxLen = 2
SPECIFICATION FairSpec
INVARIANTS AckedIsDurable ToldTailIsStored StoreIsReplay PendingStaysShort
PROPERTIES EntriesGetPlayed ImplementsSharedLog
CHECK_DEADLOCK FALSE
