SPECIFICATION MCSpec
CONSTANTS
    Polls = {cron, admin}
    Desks = {admin}
    Total = 2
    MaxDocs = 2
    MaxAttempts = 2
    MaxMoves = 3
    MaxMishaps = 2
    MissedLookups = FALSE
    Overrun = {"settle"}
    Unreconciled = FALSE
    Forcing = TRUE
    Workers = {w1, w2}
    MaxGrants = 2
    MaxLosses = 1
    Routes = {"shopify", "stripe", "eupago"}
    Handlers = {h1, h2}
    MaxDeliveries = 3
    MaxTries = 2
    MaxFailures = 2
INVARIANTS
    PassTypeOK
    OneFatura
    OneSettler
    NotStranded
    AnsweredIsCarried
    SuccessIsResolved
PROPERTIES
    ReceiptsCovered
    ReleaseIsOwn
    MoneyRecorded
    DraftTakenBack
CHECK_DEADLOCK FALSE
