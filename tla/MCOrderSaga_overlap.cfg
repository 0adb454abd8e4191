SPECIFICATION SagaSpec
CONSTANTS
    r1 = r1  r2 = r2  r3 = r3  k1 = k1  k2 = k2
    NoRef = NoRef  NoKey = NoKey  NoRequest = NoRequest  NoOrder = NoOrder
    HttpRequests = {r1, r2, r3}
    Keys = {k1, k2}
    Key <- MCKey
    Items <- MCItems
    Products <- MCProducts
    InitialStock <- MCInitialStock
    Requests <- MCRequests
    Calls <- MCCalls
    MaxAttempts = 2
    MaxOutages = 0
    Overlap = TRUE
    Late = {}
    Faults = {}
INVARIANTS NeverOversold
CHECK_DEADLOCK FALSE
