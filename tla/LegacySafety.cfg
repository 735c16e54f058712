SPECIFICATION Spec
CONSTANTS
    Orders = {o1}
    Deliveries = {"c1", "c2", "p1"}
    OrderOf <- MCOrderOf
    TopicOf <- MCTopicOf
    Kinds <- MCKinds
    MaxAttempts = 2
    GiveUp = 2
    MaxCrashes = 1
    GateStops = TRUE
    Failures <- MCFailures
    LostAnswers = TRUE
    MissedLookups = FALSE
    ClaimFaults = FALSE
    SaveFaults = {}
    ReadFaults <- MCNoFault
INVARIANTS
    TypeOK
    PaidOrderAccounted
    RowNamesDocument
PROPERTY LedgerSpec
CHECK_DEADLOCK FALSE
