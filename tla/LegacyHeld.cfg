SPECIFICATION Spec
CONSTANTS
    Orders = {o1}
    Deliveries = {"c1", "p1"}
    OrderOf <- MCOrderOf
    TopicOf <- MCTopicOf
    Kinds <- MCHeld
    MaxAttempts = 2
    GiveUp = 2
    MaxCrashes = 0
    GateStops = FALSE
    Failures <- MCNone
    LostAnswers = FALSE
    MissedLookups = FALSE
    ClaimFaults = FALSE
    SaveFaults = {}
    ReadFaults <- MCNoFault
INVARIANT HeldStaysDraft
CHECK_DEADLOCK FALSE
