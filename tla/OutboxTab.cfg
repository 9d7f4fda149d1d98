SPECIFICATION Spec
CONSTANTS
    None = None
    alice = alice
    bob = bob
    tab1 = tab1
    tab2 = tab2
    sw = sw
    Users <- TwoUsers
    Tabs <- OneTab
    ServiceWorkers <- NoWorker
    Browsers <- JustOnePage
    Orphans = TRUE
    Faults <- FaultKinds
    MaxEntries = 2
    MaxAttempts = 2
    MaxRenames = 1
    MaxRetries = 1
    MaxLapses = 2
INVARIANTS OnlyOwnAccount RejectedForCause
PROPERTIES DiscardIsFinal
CHECK_DEADLOCK FALSE
SYMMETRY UserSymmetry
