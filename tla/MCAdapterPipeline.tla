------------------------ MODULE MCAdapterPipeline ------------------------
\* Small instances of AdapterPipeline: deliveries are named for what they carry.
EXTENDS AdapterPipeline

\* One sale announced twice as created (two Stripe events, or one event that
\* the queue hands over twice) and once as paid.
MCSaleOf  == [d \in Deliveries |-> CHOOSE s \in Sales : TRUE]
MCTopicOf == [d \in Deliveries |-> IF d \in {"c1", "c2"} THEN "created" ELSE "paid"]

MCFailures   == {"transient", "permanent"}
MCKvFaults   == {{}, {"kv"}}
MCD1Faults   == {{}, {"d1"}}
MCAnyFault   == SUBSET Stores
MCNoFault    == {{}}
=============================================================================
