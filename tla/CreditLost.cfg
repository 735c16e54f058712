SPECIFICATION Spec
CONSTANTS
    Refunds = {1}
    Paths <- MCLegacy
    MaxAttempts = 3
    MaxNotes = 1
    MaxCrashes = 1
    RelatedFaults = FALSE
    LedgerFaults = FALSE
    MissedLookups = FALSE
    LostAnswers = FALSE
INVARIANT RefundNotLost
CHECK_DEADLOCK FALSE
