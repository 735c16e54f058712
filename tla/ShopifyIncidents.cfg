SPECIFICATION MCSpec
CONSTANTS
    Sales = {s1}
    Deliveries = {"c1", "p1"}
    SaleOf <- MCSaleOf
    TopicOf <- MCTopicOf
    Kinds <- AllKinds
    MaxAttempts = 3
    MaxCrashes = 1
    Claimed = FALSE
    SeparatePaid = TRUE
    TestConnection = FALSE
    RunIn = FALSE
    GateStops = TRUE
    Failures <- MCFailures
    LostAnswers = TRUE
    IndexLag = "long"
    SlowHolders = FALSE
    ClaimFaults = FALSE
    SaveFaults <- MCAnyFault
    ReadFaults <- MCAnyFault
    Affected = {i1, i2}
    Readers = {r1}
    BucketLength = 2
    SilenceAfter = 2
    LastTime = 3
    MaxReports = 2
    MaxOutside = 1
    SecondRefundRaces = FALSE
INVARIANTS
    EverySaleAccounted
    UnrepairedIsListed
    SilenceOutlastsBucket
PROPERTIES
    RepairedCloses
CHECK_DEADLOCK FALSE
