SPECIFICATION Spec
CONSTANTS
    Orders = {o1}
    Deliveries = {"c1", "c2"}
    OrderOf <- MCOrderOf
    TopicOf <- MCTopicOf
    Kinds <- MCClean
    MaxAttempts = 2
    GiveUp = 2
    MaxCrashes = 0
    GateStops = FALSE
    Failures <- MCNone
    LostAnswers = FALSE
    MissedLookups = TRUE
    ClaimFaults = FALSE
    SaveFaults = {}
    ReadFaults <- MCNoFault
INVARIANT OneDocument
CHECK_DEADLOCK FALSE
