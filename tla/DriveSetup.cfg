SPECIFICATION Spec
CONSTANTS
    None = None
    ann = ann
    ben = ben
    g1 = g1
    g2 = g2
    accounts = accounts
    transactions = transactions
    Users <- MCUsers
    GoogleAccounts <- MCAccounts
    Collections <- MCCollections
    Seeded <- MCSeeded
    Legacy <- MCLegacy
    Counted <- MCCounted
    MaxConnects = 4
    MaxFaults = 2
    MaxMisreads = 1
SYMMETRY AccountSymmetry
CONSTRAINT NotAllAtOnce
INVARIANTS ReadyMeansComplete MarkedMeansMigrated
 
CHECK_DEADLOCK FALSE
