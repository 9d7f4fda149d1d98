SPECIFICATION Spec
CONSTANTS
    r1 = r1
    r2 = r2
    r3 = r3
    k1 = k1
    v1 = v1
    v2 = v2
    Requests <- MCRequests
    FixedId = fixed
    Keys <- MCKeys
    Vals <- MCVals
    NoKey = NoKey
    None = None
    Ops <- AllOps
    Faults <- DriveFaults
    LateFills = FALSE
    MaxRestarts = 1
CHECK_DEADLOCK FALSE
SYMMETRY Symmetry
INVARIANTS OneRecordPerKey AnswersAreTrue RetryReturnsOriginal
PROPERTIES NoLostUpdate ReadsAreCurrent ImplementsStore
