SPECIFICATION MCSpec
CONSTANTS
    Absent = Absent
    p1 = p1
    p2 = p2
    c1 = c1
    c2 = c2
    Pages <- TwoPages
    Calls <- TwoCalls
    Offered <- MailAndApp
    MaxAttempts = 1
    MaxResends = 1
    MaxSessions = 2
    MaxCodes = 2
    MaxRequests = 5
    h1 = h1
    h2 = h2
    k1 = k1
    k2 = k2
    Handlers <- TwoHandlers
    Backups <- TwoBackups
    MaxLoginAttempts = 2
    MaxBatches = 2
    MaxArrivals = 5
    NoHandler = NoHandler
SYMMETRY CredentialSymmetry
INVARIANTS OnlyNewest FewGuesses ResetIsEarned GuessesLock BackupCodesHold
CHECK_DEADLOCK FALSE
