SPECIFICATION ServerSpec
CONSTANTS
    c1 = c1  c2 = c2  c3 = c3
    Rpcs = {c1, c2, c3}
    Requests <- MCRequests
    NoRequest = NoRequest
    ServerToken = secret
    ClientToken = secret
    NoToken = NoToken
    MaxWorkers = 1
    Matching = 1
PROPERTIES ProbeNotStalled
CHECK_DEADLOCK FALSE
