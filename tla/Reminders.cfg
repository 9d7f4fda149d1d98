SPECIFICATION RemFairSpec
CONSTANTS
    ann = ann
    bob = bob
    Users <- BothUsers
    Endpoints <- TwoDevices
    Runs = {1, 2}
    Stuck <- BobStuck
    Retries = 1
    AtFirst <- AnnsOrShared
    FirstDay = 1
    MaxFaults = 1
    MaxChanges = 1
    Absent = Absent
INVARIANTS RemindedOnce ClaimIsEarned
PROPERTIES DueIsReminded
CHECK_DEADLOCK FALSE
