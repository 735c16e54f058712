SPECIFICATION PassSpec
CONSTANTS
    Polls = {cron}
    Desks = {admin}
    Total = 2
    MaxDocs = 1
    MaxAttempts = 3
    MaxMoves = 2
    MaxMishaps = 1
    MissedLookups = FALSE
    Overrun = {}
    Unreconciled = TRUE
    Forcing = FALSE
PROPERTIES
    NoSecondReceipt
CHECK_DEADLOCK FALSE
