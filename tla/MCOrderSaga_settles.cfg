SPECIFICATION SagaSpec
CONSTANTS
    r1 = r1  r2 = r2  r3 = r3  k1 = k1  k2 = k2
    NoRef = NoRef  NoKey = NoKey  NoRequest = NoRequest  NoOrder = NoOrder
    HttpRequests = {r1, r2, r3}
    Keys = {k1, k2}
    Key <- MCKey
    Items <- MCItems
    Products <- MCProducts
    InitialStock <- MCInitialStock
    Requests <- MCRequests
    Calls <- MCCalls
    MaxAttempts = 3
    MaxOutages = 2
    Overlap = FALSE
    Late = {}
    Faults = {"commit", "lost", "refresh"}
INVARIANTS NoStranded
PROPERTIES FailureFreesStock EveryRequestAnswered
CHECK_DEADLOCK FALSE
