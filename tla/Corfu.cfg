CONSTANTS
    Clients = {c1, c2}
    Copies = 2
    ShardNum = 2
    StripeUnit = 2
    MaxGSN = 5
SPECIFICATION FairSpec
INVARIANTS FdIsMine AckedIsWritten ClosedStaysClosed
PROPERTIES WrittenIsRead AppendReturns
