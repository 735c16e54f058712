SPECIFICATION Spec
CONSTANTS
    Deliveries = {"created", "paid", "refund"}
    TopicOf <- MCTopicOf
    Crons = {k1}
    Admins = {}
    Refusals = FALSE
    LostAnswers = FALSE
    SaveFaults = FALSE
    LostReports = FALSE
    MaxDocs = 2
INVARIANT ParkedRefundCredited
CHECK_DEADLOCK FALSE
