SPECIFICATION MCSpec
CONSTANTS
    Deliveries = {"created", "paid", "updated", "refund"}
    TopicOf <- MCTopicOf
    Crons = {k1}
    Admins = {a1}
    Refusals = TRUE
    LostAnswers = TRUE
    SaveFaults = TRUE
    LostReports = FALSE
    MaxDocs = 2
    Shops = {sa, sb}
    Orders = {o1, o2}
    Window = 2
    StaleNights = 1
    Cap = 1
    NightBudget = 1
    DefaultBudget = 1
    MaxMishaps = 1
INVARIANTS
    TypeOK
    DecidedIsInvoiced
    SweepTypeOK
    LeftBehindIsKnown
PROPERTIES
    DecidedStaysDecided
    DeferredSaleSurfaces
    BudgetRotates
CHECK_DEADLOCK FALSE
