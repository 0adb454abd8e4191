SPECIFICATION ServerSpec
CONSTANTS
    c1 = c1  c2 = c2  c3 = c3
    Rpcs = {c1, c2, c3}
    Requests <- MCRequests
    NoRequest = NoRequest
    ServerToken = secret
    ClientToken = secret
    NoToken = NoToken
    MaxWorkers = 2
    Matching = 1
INVARIANTS ServerTypeOK TokenDecides LowStockHonest
PROPERTIES ServingAccepts OnlyWatchesStarve LowStockEnds Drained
CHECK_DEADLOCK FALSE
