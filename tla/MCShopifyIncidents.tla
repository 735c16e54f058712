------------------------- MODULE MCShopifyIncidents -------------------------
(***************************************************************************)
(* Deliveries of a Shopify order and the incidents table, in one instance: *)
(* a behaviour is about the deliveries, about the failures of sales that   *)
(* were reported, or about an alarm that stands, and what it is not about  *)
(* rests.                                                                  *)
(***************************************************************************)
EXTENDS MCAdapterPipeline, Incidents

VARIABLE part

mcVars == <<part, vars, incidentVars>>

\* The sales are interchangeable: the first failure is about this one.
First == CHOOSE o \in Affected : TRUE

\* Failures begin at the end of one bucket and reach into the next; an alarm that stands
\* lives through its bucket and the silence after it.
MCInit ==
    /\ part \in {"deliveries", "failures", "standing"}
    /\ Init /\ IncidentInit
    /\ time = IF part = "failures" THEN BucketLength - 1 ELSE 0
    /\ part # "deliveries" => sale_kind = [s \in Sales |-> "clean"]
    /\ part # "failures" => certifies

MCNext ==
    /\ UNCHANGED part
    /\ \/ part = "deliveries" /\ Next /\ UNCHANGED incidentVars
       \/ part = "failures" /\ FailureNext /\ UNCHANGED vars
       \/ part = "failures" /\ time < BucketLength /\ Tick /\ UNCHANGED vars
       \/ part = "standing" /\ (StandingNext \/ Tick) /\ UNCHANGED vars
       \/ part # "deliveries" /\ (\E b \in Buckets : Patch(b)) /\ UNCHANGED vars
    /\ reports = 0 => \A t \in told' : t[2] = First

\* The half-hourly cron.
MCFairness ==
    \A x \in Readers : WF_mcVars(part = "failures" /\ Evidence(x) /\ UNCHANGED <<part, vars>>)

MCSpec == MCInit /\ [][MCNext]_mcVars /\ MCFairness
=============================================================================
