SPECIFICATION Spec
CONSTANTS
    None = None
    b1 = b1
    b2 = b2
    Browsers <- TwoBrowsers
    MaxVersion = 3
    MaxSessions = 1
    MaxRestarts = 1
CONSTRAINT NothingLost
SYMMETRY BrowserSymmetry
INVARIANTS OneLiveSession EndedStaysEnded SignInHolds
CHECK_DEADLOCK FALSE
