SPECIFICATION FairSpec
CONSTANTS
    Absent = Absent
    a1 = a1
    a2 = a2
    r1 = r1
    k1 = k1
    Accounts <- TwoAccounts
    Busy <- BusyOne
    Stuck <- StuckOne
    Calls <- OneCall
    Runs <- OneRun
    DeletionDays = 1
    MaxDay = 2
    MaxStops = 1
INVARIANTS LockedOut PurgeIsAudited
PROPERTIES PurgedWhenDue DueIsPurged
CHECK_DEADLOCK FALSE
