SPECIFICATION FairSpec
CONSTANTS
    None = None
    alice = alice
    bob = bob
    tab1 = tab1
    tab2 = tab2
    sw = sw
    Users <- OneUser
    Tabs <- TwoTabs
    ServiceWorkers <- OneWorker
    Browsers <- BothBrowsers
    Orphans = FALSE
    Faults <- LiveFaults
    MaxEntries = 2
    MaxAttempts = 2
    MaxRenames = 0
    MaxRetries = 0
    MaxLapses = 1
INVARIANTS NothingLost
PROPERTIES AppliedInOrder PendingIsSettled
CHECK_DEADLOCK FALSE
