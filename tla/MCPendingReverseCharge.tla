----------------------- MODULE MCPendingReverseCharge -----------------------
\* Small instances of PendingReverseCharge: deliveries are named for their topic.
EXTENDS PendingReverseCharge

MCTopicOf == [d \in Deliveries |-> d]
=============================================================================
