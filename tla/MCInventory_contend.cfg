SPECIFICATION Spec
CONSTANTS
    c1 = c1  c2 = c2  c3 = c3  c4 = c4
    A = A  B = B  K = K  L = L
    NoRef = NoRef  NoKey = NoKey  NoRequest = NoRequest  NoCall = NoCall
    Calls = {c1, c2, c3, c4}
    Products <- MCProducts
    InitialStock <- MCInitialStock
    Requests <- MCContending
SYMMETRY MCSymmetry
INVARIANTS TransactionInv Conservation AllOrNothing NoWaitCycle
CHECK_DEADLOCK FALSE
