--------------------------- MODULE MCBackground ---------------------------
(***************************************************************************)
(* Three parts of the Worker that share no state with one another in these *)
(* models, in one instance: a behaviour picks one of them at its start and *)
(* the other two rest.  The passes are run twice: money that moves in      *)
(* units, twice; and a stay that is paid, cancelled and reinstated, which  *)
(* is one move more, with all of the money or none.                        *)
(***************************************************************************)
EXTENDS LodgifyPass, MoloniGrant, WebhookIntake

VARIABLE part

mcVars == <<part, passVars, grantVars, intakeVars>>

MCInit == /\ part \in {"money", "stay", "grant", "intake"}
          /\ PassInit /\ GrantInit /\ IntakeInit
          /\ part # "intake" => due /\ route = CHOOSE r \in Routes : TRUE

MCNext ==
    /\ UNCHANGED part
    /\ \/ /\ part \in {"money", "stay"} /\ PassNext
          /\ part = "money" => /\ booking'.status = "booked" /\ mishaps'.moves < MaxMoves
                               /\ mishaps'.faults + mishaps'.outlived < MaxMishaps
          /\ part = "stay"  => /\ booking'.collected \in {0, Total}
                               /\ \A p \in Desks : ~Call(p)
          /\ UNCHANGED <<grantVars, intakeVars>>
       \/ part = "grant"  /\ GrantNext  /\ UNCHANGED <<passVars, intakeVars>>
       \/ part = "intake" /\ IntakeNext /\ UNCHANGED <<passVars, grantVars>>

\* Only the passes have liveness properties, and only their fairness is assumed.
MCSpec == MCInit /\ [][MCNext]_mcVars /\ PassFairness
===========================================================================
