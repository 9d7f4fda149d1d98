SPECIFICATION Spec
CONSTANTS
    r1 = r1
    r2 = r2
    r3 = r3
    k1 = k1
    v1 = v1
    v2 = v2
    Requests <- MCRequests
    FixedId = fixed
    Keys <- MCKeys
    Vals <- MCVals
    NoKey = NoKey
    None = None
    Ops <- KeepOps
    Faults <- NoFaults
    LateFills = TRUE
    MaxRestarts = 1
CHECK_DEADLOCK FALSE
PROPERTY NoLostUpdate
