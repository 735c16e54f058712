SPECIFICATION FairSpec
CONSTANTS
    Sales = {s1}
    Deliveries = {"c1", "p1"}
    SaleOf <- MCSaleOf
    TopicOf <- MCTopicOf
    Kinds <- AllKinds
    MaxAttempts = 3
    MaxCrashes = 1
    Claimed = TRUE
    SeparatePaid = FALSE
    TestConnection = FALSE
    RunIn = TRUE
    GateStops = FALSE
    Failures = {}
    LostAnswers = TRUE
    IndexLag = "none"
    SlowHolders = FALSE
    ClaimFaults = TRUE
    SaveFaults <- MCKvFaults
    ReadFaults <- MCNoFault
PROPERTIES
    EveryDeliveryEnds
    SaleEventuallyInvoiced
CHECK_DEADLOCK FALSE
