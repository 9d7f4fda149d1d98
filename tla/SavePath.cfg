SPECIFICATION FairSpec
CONSTANTS
    MaxForms = 2
    MaxFaults = 1
    MaxOffline = 1
    Helper = TRUE
    Nil = Nil
INVARIANTS OneRecordPerEntry TellsTheTruth ShownOnce
PROPERTIES EditsBuildOnEdits SyncingIsListed
CHECK_DEADLOCK FALSE
