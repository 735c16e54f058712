----------------------------- MODULE MCDailyJobs -----------------------------
(***************************************************************************)
(* The jobs of the daily crons, in one instance: a behaviour is about the  *)
(* pending reverse-charge row or about the reconciliation sweep, and what  *)
(* it is not about rests.                                                  *)
(***************************************************************************)
EXTENDS MCPendingReverseCharge, NightlySweep

VARIABLE part

mcVars == <<part, vars, sweepVars>>

MCInit == part \in {"vies", "sweep"} /\ Init /\ SweepInit

MCNext ==
    /\ UNCHANGED part
    /\ \/ part = "vies"  /\ Next      /\ UNCHANGED sweepVars
       \/ part = "sweep" /\ SweepNext /\ UNCHANGED vars

\* The fairness of the part that is under way.
MCFairness ==
    /\ WF_mcVars(part = "vies" /\ FallDue /\ UNCHANGED <<part, sweepVars>>)
    /\ \A x \in Submitters : WF_mcVars(part = "vies" /\ Work(x) /\ UNCHANGED <<part, sweepVars>>)
    /\ \A x \in Crons : /\ WF_mcVars(part = "vies" /\ ~trouble /\ Retry(x) /\ UNCHANGED <<part, sweepVars>>)
                        /\ WF_mcVars(part = "vies" /\ ~trouble /\ Escalate(x) /\ UNCHANGED <<part, sweepVars>>)
    /\ WF_mcVars(part = "sweep" /\ Invocation /\ UNCHANGED <<part, vars>>)

MCSpec == MCInit /\ [][MCNext]_mcVars /\ MCFairness
=============================================================================
