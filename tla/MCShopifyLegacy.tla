------------------------- MODULE MCShopifyLegacy -------------------------
\* Small instances of ShopifyLegacy: deliveries are named for what they carry.
EXTENDS ShopifyLegacy

\* One order announced twice as created and once or twice as paid.
MCOrderOf == [d \in Deliveries |-> CHOOSE o \in Orders : TRUE]
MCTopicOf == [d \in Deliveries |-> IF d \in {"c1", "c2"} THEN "created" ELSE "paid"]

MCFailures == {"permanent", "stuck"}
MCKinds    == AllKinds \ {"zero"}
MCHeld     == {"hold"}
MCClean    == {"clean"}
MCNoFault  == {{}}
MCNone     == {}
=============================================================================
