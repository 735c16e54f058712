------------------------------- MODULE MCMoney -------------------------------
(***************************************************************************)
(* What is given back and what is given away, in one instance: a behaviour *)
(* is about the credit notes of an order or about the rewards of an        *)
(* inviter, and what it is not about rests.                                *)
(***************************************************************************)
EXTENDS MCCreditLedger, ReferralRewards

VARIABLE part

mcVars == <<part, vars, rewardVars>>

MCInit ==
    /\ part \in {"credits", "rewards"}
    /\ Init /\ RewardInit
    /\ part # "credits" => path = "legacy"
    /\ part # "rewards" => together
    /\ alike \subseteq (IF together THEN {} ELSE {2})

\* Invitees and calls differ only in name: invitees are numbered in the order in which they
\* turn up, and a call that finds no other takes the first number.  Only the first invitee
\* may subscribe outside the referral, only the second be refused.  Where payments overlap,
\* the ceiling is not asked about, and two invitees are enough.
Active == {i \in Invitees : referral[i] # "none" \/ checkout[i] # "none"}
Alone  == \A k \in Calls : call[k] = NoCall
Named ==
    /\ \A i \in Active', j \in Invitees : j < i => j \in Active'
    /\ Alone => \A k \in Calls, c \in Calls : c < k => call'[k] = NoCall
    /\ \A i \in Active' : checkout'[i] \in {"plain", "paying"} => i = 1
    /\ together => Cardinality(Active') <= 2

MCNext ==
    /\ UNCHANGED part
    /\ \/ part = "credits" /\ Next /\ UNCHANGED rewardVars
       \/ part = "rewards" /\ RewardNext /\ Named /\ UNCHANGED vars

MCSpec == MCInit /\ [][MCNext]_mcVars
=============================================================================
