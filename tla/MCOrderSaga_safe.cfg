SPECIFICATION SagaSpec
CONSTANTS
    r1 = r1  r2 = r2  r3 = r3  k1 = k1  k2 = k2
    NoRef = NoRef  NoKey = NoKey  NoRequest = NoRequest  NoOrder = NoOrder
    HttpRequests = {r1, r2, r3}
    Keys = {k1, k2}
    Key <- MCKey
    Items <- MCItems
    Products <- MCProducts
    InitialStock <- MCInitialStock
    Requests <- MCRequests
    Calls <- MCCalls
    MaxAttempts = 2
    MaxOutages = 2
    Overlap = FALSE
    Late = {"reserve"}
    Faults = {"deadline", "error", "commit", "crash"}
SYMMETRY MCSymmetry
INVARIANTS SagaTypeOK Backed NeverOversold ReserveOnce
CHECK_DEADLOCK FALSE
