SPECIFICATION BulkSpec
CONSTANTS
    b1 = b1  b2 = b2
    NoRef = NoRef  NoKey = NoKey  NoRequest = NoRequest
    Batches = {b1, b2}
    Payload <- MCPayload
    Products <- MCProducts
    InitialStock <- MCInitialStock
    Requests <- MCRequests
    Calls <- MCCalls
    MaxOutages = 0
    Faults = {"commit"}
INVARIANT BulkNoStranded
CHECK_DEADLOCK FALSE
