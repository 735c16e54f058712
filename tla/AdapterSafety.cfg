SPECIFICATION Spec
CONSTANTS
    Sales = {s1}
    Deliveries = {"c1", "c2", "p1"}
    SaleOf <- MCSaleOf
    TopicOf <- MCTopicOf
    Kinds <- AllKinds
    MaxAttempts = 3
    MaxCrashes = 1
    Claimed = TRUE
    SeparatePaid = FALSE
    TestConnection = FALSE
    RunIn = TRUE
    GateStops = TRUE
    Failures <- MCFailures
    LostAnswers = FALSE
    IndexLag = "short"
    SlowHolders = FALSE
    ClaimFaults = FALSE
    SaveFaults <- MCD1Faults
    ReadFaults <- MCD1Faults
INVARIANTS
    OneDocument
    ClaimExclusion
    EverySaleAccounted
PROPERTIES
    CertifiedOnlyWhenCleared
    LedgerSpec
CHECK_DEADLOCK FALSE
