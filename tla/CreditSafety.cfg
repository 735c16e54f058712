SPECIFICATION MCSpec
CONSTANTS
    Refunds = {1, 2}
    Paths <- MCBothPaths
    MaxAttempts = 2
    MaxNotes = 2
    MaxCrashes = 1
    RelatedFaults = FALSE
    LedgerFaults = TRUE
    MissedLookups = FALSE
    LostAnswers = FALSE
    Invitees = {1, 2, 3}
    Calls = {1, 2}
    Nobody = nobody
    MaxRewards = 2
    MaxClicks = 1
    MaxMishaps = 1
    RetryRaces = FALSE
INVARIANTS
    TypeOK
    NoTwin
    RowTellsTruth
    RefundTraceable
    PaidOnce
    OwedIsWithinReach
    WithinTerms
PROPERTY ClosedStaysClosed
CHECK_DEADLOCK FALSE
