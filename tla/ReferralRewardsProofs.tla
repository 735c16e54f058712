----------------------- MODULE ReferralRewardsProofs -----------------------
(***************************************************************************)
(* ReferralRewards: its types, that the months of an invitee are given     *)
(* once, that an owed reward stays within reach, and that payments which   *)
(* do not overlap keep to the terms, for every set of invitees and of      *)
(* invocations.                                                            *)
(***************************************************************************)
EXTENDS ReferralRewards, FiniteSetTheorems, TLAPS

Paid    == {"count", "look", "push", "reward", "label", "void", "note"}
Begun(i) == checkout[i] \in {"trialing", "paying"}

\* A call is about an invitee who subscribed; a call that pays, about one on the trial whose
\* row names the subscription.
CallsKnow ==
    \A k \in Calls : call[k].at # "idle" =>
        LET i == call[k].of IN
        /\ i \in Invitees /\ Begun(i)
        /\ call[k].at # "record" => checkout[i] = "trialing"
        /\ call[k].at \in Paid \cup {"reset"} => i \in named
        /\ call[k].at = "reset" => call[k].by = "retry"

\* What the rows of an invitee say of each other.
RowsAgree ==
    \A i \in Invitees :
        /\ i \in due \cup recorded => Begun(i)
        /\ checkout[i] \in {"trial", "trialing"} => referral[i] # "none"
        /\ i \in named => checkout[i] = "trialing"
        /\ referral[i] \in {"subscribed", "rewarded"} => i \in named

BaseInv == RewardTypeOK /\ CallsKnow /\ RowsAgree

LEMMA BaseInit == RewardInit => BaseInv
BY RewardConstants DEF RewardInit, BaseInv, RewardTypeOK, CallsKnow, RowsAgree, NoCall, Begun, Steps, CallRecord

\* The ways a step changes a call.
LEMMA CallMoves ==
    ASSUME RewardTypeOK, NEW k \in Calls
    PROVE  /\ \A at \in Steps : Go(k, at) => call' \in [Calls -> CallRecord]
           /\ Conclude(k) => call' \in [Calls -> CallRecord]
           /\ call' = [call EXCEPT ![k] = NoCall] => call' \in [Calls -> CallRecord]
           /\ \A u \in Nat : call' = [call EXCEPT ![k].at = "push", ![k].until = u]
                             => call' \in [Calls -> CallRecord]
           /\ \A i \in Invitees, at \in Steps, by \in {"event", "retry"} :
                 /\ [NoCall EXCEPT !.of = i, !.at = at] \in CallRecord
                 /\ [NoCall EXCEPT !.of = i, !.by = by, !.at = at] \in CallRecord
<1> USE DEF RewardTypeOK
<1>1. ASSUME NEW at \in Steps PROVE [call[k] EXCEPT !.at = at] \in CallRecord
  BY DEF CallRecord
<1>2. ASSUME NEW at \in Steps, NEW u \in Nat
      PROVE  [[call[k] EXCEPT !.at = at] EXCEPT !.until = u] \in CallRecord
  BY <1>1 DEF CallRecord
<1>3. NoCall \in CallRecord
  BY DEF CallRecord, NoCall, Steps
<1>4. ASSUME NEW i \in Invitees, NEW at \in Steps, NEW by \in {"event", "retry"}
      PROVE  /\ [NoCall EXCEPT !.of = i, !.at = at] \in CallRecord
             /\ [NoCall EXCEPT !.of = i, !.by = by, !.at = at] \in CallRecord
  BY DEF CallRecord, NoCall, Steps
<1>5. ASSUME NEW at \in Steps, Go(k, at) PROVE call' \in [Calls -> CallRecord]
  BY <1>1, <1>5 DEF Go
<1>6. ASSUME Conclude(k) PROVE call' \in [Calls -> CallRecord]
  <2>1. "record" \in Steps
    BY DEF Steps
  <2> QED
    BY <1>1, <1>3, <1>6, <2>1 DEF Conclude
<1>7. ASSUME call' = [call EXCEPT ![k] = NoCall] PROVE call' \in [Calls -> CallRecord]
  BY <1>3, <1>7
<1>8. ASSUME NEW u \in Nat, call' = [call EXCEPT ![k].at = "push", ![k].until = u]
      PROVE  call' \in [Calls -> CallRecord]
  <2>1. "push" \in Steps
    BY DEF Steps
  <2> QED
    BY <1>2, <1>8, <2>1
<1> QED
  BY <1>4, <1>5, <1>6, <1>7, <1>8

LEMMA TypesNext == RewardTypeOK /\ [RewardNext]_rewardVars => RewardTypeOK'
<1> SUFFICES ASSUME RewardTypeOK, [RewardNext]_rewardVars PROVE RewardTypeOK'
  OBVIOUS
<1> USE RewardConstants DEF RewardTypeOK
<1>1. ASSUME NEW i \in Invitees, ClaimLink(i) PROVE RewardTypeOK'
  BY <1>1 DEF ClaimLink, rewardVars, database, stripe, occasions
<1>2. ASSUME NEW i \in Invitees, OpenCheckout(i) PROVE RewardTypeOK'
  BY <1>2 DEF OpenCheckout, rewardVars, database, stripe, occasions
<1>3. ASSUME NEW i \in Invitees, Subscribe(i) PROVE RewardTypeOK'
  BY <1>3 DEF Subscribe, rewardVars, database, stripe, occasions
<1>4. ASSUME NEW i \in Invitees, Void(i) PROVE RewardTypeOK'
  BY <1>4 DEF Void, Click, rewardVars, database, stripe, occasions
<1>5. ASSUME NEW k \in Calls, NEW i \in Invitees, Deliver(k, i) PROVE RewardTypeOK'
  <2>1. CASE i \in recorded
    BY <1>5, <2>1 DEF Deliver, rewardVars, database, stripe, occasions
  <2>2. ASSUME i \notin recorded, NEW at \in {"claim", "record"},
               call' = [call EXCEPT ![k] = [NoCall EXCEPT !.of = i, !.at = at]]
        PROVE  RewardTypeOK'
    <3>1. [NoCall EXCEPT !.of = i, !.at = at] \in CallRecord
      BY CallMoves DEF Steps
    <3>2. call' \in [Calls -> CallRecord]
      BY <2>2, <3>1
    <3>3. \A c \in Calls : call'[c].at = "idle" <=> call'[c].of = Nobody
      BY <2>2 DEF NoCall
    <3> QED
      BY <1>5, <2>2, <3>2, <3>3 DEF Deliver, RecordedSoFar, rewardVars, database, stripe, occasions
  <2> QED
    BY <1>5, <2>1, <2>2 DEF Deliver
<1>6. ASSUME NEW k \in Calls, NEW i \in Invitees, DeliverInVain(k, i) PROVE RewardTypeOK'
  <2>1. call' \in [Calls -> CallRecord]
    BY <1>6, CallMoves DEF DeliverInVain, Steps
  <2>2. (call[k].at # "idle" => call[k].of \in Invitees) /\ call[k].until \in Nat
    BY DEF CallRecord
  <2>3. \A c \in Calls : call'[c].at = "idle" <=> call'[c].of = Nobody
    BY <1>6 DEF DeliverInVain, MayBegin, NoCall
  <2> QED
    BY <1>6, <2>1, <2>2, <2>3 DEF DeliverInVain, MayBegin, Mishap, rewardVars, database, stripe, occasions
<1>7. ASSUME NEW k \in Calls, NEW i \in Invitees, Retry(k, i) PROVE RewardTypeOK'
  <2>1. call' \in [Calls -> CallRecord]
    BY <1>7, CallMoves DEF Retry, Steps
  <2>2. (call[k].at # "idle" => call[k].of \in Invitees) /\ call[k].until \in Nat
    BY DEF CallRecord
  <2>3. \A c \in Calls : call'[c].at = "idle" <=> call'[c].of = Nobody
    BY <1>7 DEF Retry, MayBegin, NoCall
  <2> QED
    BY <1>7, <2>1, <2>2, <2>3 DEF Retry, MayBegin, Click, Retriable, rewardVars, database, stripe, occasions
<1>8. ASSUME NEW k \in Calls, Record(k) PROVE RewardTypeOK'
  <2>1. call' \in [Calls -> CallRecord]
    BY <1>8, CallMoves DEF Record, Steps
  <2>2. (call[k].at # "idle" => call[k].of \in Invitees) /\ call[k].until \in Nat
    BY DEF CallRecord
  <2>3. \A c \in Calls : call'[c].at = "idle" <=> call'[c].of = Nobody
    BY <1>8 DEF Record, NoCall
  <2> QED
    BY <1>8, <2>1, <2>2, <2>3 DEF Record, Mishap, rewardVars, database, stripe, occasions
<1>9. ASSUME NEW k \in Calls, ClaimReward(k) PROVE RewardTypeOK'
  <2>1. (call[k].at # "idle" => call[k].of \in Invitees) /\ call[k].until \in Nat /\ call[k].at # "idle"
    BY <1>9 DEF ClaimReward, CallRecord
  <2>2. ASSUME call' \in [Calls -> CallRecord], \A c \in Calls : call'[c].at = "idle" <=> call'[c].of = Nobody
        PROVE  RewardTypeOK'
    BY <1>9, <2>1, <2>2 DEF ClaimReward, Claimable, Mishap, rewardVars, database, stripe, occasions
  <2>3. CASE Go(k, "count")
    <3>1. call' \in [Calls -> CallRecord]
      BY <2>1, <2>3, CallMoves DEF Steps
    <3>2. \A c \in Calls : call'[c].at = "idle" <=> call'[c].of = Nobody
      BY <2>1, <2>3 DEF NoCall, Go
    <3> QED
      BY <2>2, <3>1, <3>2
  <2>4. CASE call' = [call EXCEPT ![k].at = "record"]
    <3>1. call' \in [Calls -> CallRecord]
      BY <2>1, <2>4, CallMoves DEF Steps, Go
    <3>2. \A c \in Calls : call'[c].at = "idle" <=> call'[c].of = Nobody
      BY <2>1, <2>4 DEF NoCall
    <3> QED
      BY <2>2, <3>1, <3>2
  <2>5. CASE call' = [call EXCEPT ![k] = NoCall]
    <3>1. call' \in [Calls -> CallRecord]
      BY <2>1, <2>5, CallMoves DEF Steps
    <3>2. \A c \in Calls : call'[c].at = "idle" <=> call'[c].of = Nobody
      BY <2>1, <2>5 DEF NoCall
    <3> QED
      BY <2>2, <3>1, <3>2
  <2> QED
    BY <1>9, <2>3, <2>4, <2>5 DEF ClaimReward, Conclude
<1>10. ASSUME NEW k \in Calls, ClaimFails(k) PROVE RewardTypeOK'
  <2>1. call' \in [Calls -> CallRecord]
    BY <1>10, CallMoves DEF ClaimFails, Steps
  <2>2. (call[k].at # "idle" => call[k].of \in Invitees) /\ call[k].until \in Nat
    BY DEF CallRecord
  <2>3. \A c \in Calls : call'[c].at = "idle" <=> call'[c].of = Nobody
    BY <1>10 DEF ClaimFails, Conclude, NoCall
  <2> QED
    BY <1>10, <2>1, <2>2, <2>3 DEF ClaimFails, Mishap, rewardVars, database, stripe, occasions
<1>11. ASSUME NEW k \in Calls, CountRewards(k) PROVE RewardTypeOK'
  <2>1. (call[k].at # "idle" => call[k].of \in Invitees) /\ call[k].until \in Nat /\ call[k].at # "idle"
    BY <1>11 DEF CountRewards, CallRecord
  <2>2. ASSUME call' \in [Calls -> CallRecord], \A c \in Calls : call'[c].at = "idle" <=> call'[c].of = Nobody
        PROVE  RewardTypeOK'
    BY <1>11, <2>1, <2>2 DEF CountRewards, Mishap, rewardVars, database, stripe, occasions
  <2>3. CASE Go(k, "look")
    <3>1. call' \in [Calls -> CallRecord]
      BY <2>1, <2>3, CallMoves DEF Steps
    <3>2. \A c \in Calls : call'[c].at = "idle" <=> call'[c].of = Nobody
      BY <2>1, <2>3 DEF NoCall, Go
    <3> QED
      BY <2>2, <3>1, <3>2
  <2>4. CASE Go(k, "void")
    <3>1. call' \in [Calls -> CallRecord]
      BY <2>1, <2>4, CallMoves DEF Steps
    <3>2. \A c \in Calls : call'[c].at = "idle" <=> call'[c].of = Nobody
      BY <2>1, <2>4 DEF NoCall, Go
    <3> QED
      BY <2>2, <3>1, <3>2
  <2> QED
    BY <1>11, <2>3, <2>4 DEF CountRewards
<1>12. ASSUME NEW k \in Calls, Retrieve(k) PROVE RewardTypeOK'
  <2>1. (call[k].at # "idle" => call[k].of \in Invitees) /\ call[k].until \in Nat /\ call[k].at # "idle"
    BY <1>12 DEF Retrieve, CallRecord
  <2>2. ASSUME call' \in [Calls -> CallRecord], \A c \in Calls : call'[c].at = "idle" <=> call'[c].of = Nobody
        PROVE  RewardTypeOK'
    BY <1>12, <2>1, <2>2 DEF Retrieve, Mishap, rewardVars, database, stripe, occasions
  <2>3. CASE Go(k, "note")
    <3>1. call' \in [Calls -> CallRecord]
      BY <2>1, <2>3, CallMoves DEF Steps
    <3>2. \A c \in Calls : call'[c].at = "idle" <=> call'[c].of = Nobody
      BY <2>1, <2>3 DEF NoCall, Go
    <3> QED
      BY <2>2, <3>1, <3>2
  <2>4. CASE call' = [call EXCEPT ![k].at = "push", ![k].until = inviter.until + 2]
    <3>1. call' \in [Calls -> CallRecord]
      <4>1. inviter.until + 2 \in Nat
        OBVIOUS
      <4> QED
        BY <2>4, <4>1, CallMoves
    <3>2. \A c \in Calls : call'[c].at = "idle" <=> call'[c].of = Nobody
      BY <2>1, <2>4 DEF NoCall
    <3> QED
      BY <2>2, <3>1, <3>2
  <2> QED
    BY <1>12, <2>3, <2>4 DEF Retrieve, PeriodEnd, RewardMonths
<1>13. ASSUME NEW k \in Calls, Push(k) PROVE RewardTypeOK'
  <2>1. call' \in [Calls -> CallRecord]
    BY <1>13, CallMoves DEF Push, Steps
  <2>2. (call[k].at # "idle" => call[k].of \in Invitees) /\ call[k].until \in Nat
    BY DEF CallRecord
  <2>3. \A c \in Calls : call'[c].at = "idle" <=> call'[c].of = Nobody
    BY <1>13 DEF Push, Go, NoCall
  <2> QED
    BY <1>13, <2>1, <2>2, <2>3 DEF Push, Accept, Key, rewardVars, database, stripe, occasions
<1>14. ASSUME NEW k \in Calls, PushFails(k) PROVE RewardTypeOK'
  <2>1. call' \in [Calls -> CallRecord]
    BY <1>14, CallMoves DEF PushFails, Steps
  <2>2. (call[k].at # "idle" => call[k].of \in Invitees) /\ call[k].until \in Nat
    BY DEF CallRecord
  <2>3. \A c \in Calls : call'[c].at = "idle" <=> call'[c].of = Nobody
    BY <1>14 DEF PushFails, Go, NoCall
  <2> QED
    BY <1>14, <2>1, <2>2, <2>3 DEF PushFails, Accept, Key, Mishap, rewardVars, database, stripe, occasions
<1>15. ASSUME NEW k \in Calls, WriteReward(k) PROVE RewardTypeOK'
  <2>1. call' \in [Calls -> CallRecord]
    BY <1>15, CallMoves DEF WriteReward, Steps
  <2>2. (call[k].at # "idle" => call[k].of \in Invitees) /\ call[k].until \in Nat
    BY DEF CallRecord
  <2>3. \A c \in Calls : call'[c].at = "idle" <=> call'[c].of = Nobody
    BY <1>15 DEF WriteReward, Go, NoCall
  <2> QED
    BY <1>15, <2>1, <2>2, <2>3 DEF WriteReward, rewardVars, database, stripe, occasions
<1>16. ASSUME NEW k \in Calls, WriteFails(k) PROVE RewardTypeOK'
  <2>1. call' \in [Calls -> CallRecord]
    BY <1>16, CallMoves DEF WriteFails, Steps
  <2>2. (call[k].at # "idle" => call[k].of \in Invitees) /\ call[k].until \in Nat
    BY DEF CallRecord
  <2>3. \A c \in Calls : call'[c].at = "idle" <=> call'[c].of = Nobody
    BY <1>16 DEF WriteFails, Go, NoCall
  <2> QED
    BY <1>16, <2>1, <2>2, <2>3 DEF WriteFails, Mishap, rewardVars, database, stripe, occasions
<1>17. ASSUME NEW k \in Calls, WriteLabel(k) PROVE RewardTypeOK'
  <2>1. (call[k].at # "idle" => call[k].of \in Invitees) /\ call[k].until \in Nat /\ call[k].at # "idle"
    BY <1>17 DEF WriteLabel, CallRecord
  <2>2. ASSUME call' \in [Calls -> CallRecord], \A c \in Calls : call'[c].at = "idle" <=> call'[c].of = Nobody
        PROVE  RewardTypeOK'
    BY <1>17, <2>1, <2>2 DEF WriteLabel, Mishap, rewardVars, database, stripe, occasions
  <2>3. CASE Go(k, "note")
    <3>1. call' \in [Calls -> CallRecord]
      BY <2>1, <2>3, CallMoves DEF Steps
    <3>2. \A c \in Calls : call'[c].at = "idle" <=> call'[c].of = Nobody
      BY <2>1, <2>3 DEF NoCall, Go
    <3> QED
      BY <2>2, <3>1, <3>2
  <2>4. CASE call' = [call EXCEPT ![k].at = "record"]
    <3>1. call' \in [Calls -> CallRecord]
      BY <2>1, <2>4, CallMoves DEF Steps, Go
    <3>2. \A c \in Calls : call'[c].at = "idle" <=> call'[c].of = Nobody
      BY <2>1, <2>4 DEF NoCall
    <3> QED
      BY <2>2, <3>1, <3>2
  <2>5. CASE call' = [call EXCEPT ![k] = NoCall]
    <3>1. call' \in [Calls -> CallRecord]
      BY <2>1, <2>5, CallMoves DEF Steps
    <3>2. \A c \in Calls : call'[c].at = "idle" <=> call'[c].of = Nobody
      BY <2>1, <2>5 DEF NoCall
    <3> QED
      BY <2>2, <3>1, <3>2
  <2> QED
    BY <1>17, <2>3, <2>4, <2>5 DEF WriteLabel, Conclude
<1>18. ASSUME NEW k \in Calls, Park(k) PROVE RewardTypeOK'
  <2>1. call' \in [Calls -> CallRecord]
    BY <1>18, CallMoves DEF Park, Steps
  <2>2. (call[k].at # "idle" => call[k].of \in Invitees) /\ call[k].until \in Nat
    BY DEF CallRecord
  <2>3. \A c \in Calls : call'[c].at = "idle" <=> call'[c].of = Nobody
    BY <1>18 DEF Park, Conclude, NoCall
  <2> QED
    BY <1>18, <2>1, <2>2, <2>3 DEF Park, Mishap, rewardVars, database, stripe, occasions
<1>19. ASSUME NEW k \in Calls, Die(k) PROVE RewardTypeOK'
  <2>1. call' \in [Calls -> CallRecord]
    BY <1>19, CallMoves DEF Die, Steps
  <2>2. (call[k].at # "idle" => call[k].of \in Invitees) /\ call[k].until \in Nat
    BY DEF CallRecord
  <2>3. \A c \in Calls : call'[c].at = "idle" <=> call'[c].of = Nobody
    BY <1>19 DEF Die, NoCall
  <2> QED
    BY <1>19, <2>1, <2>2, <2>3 DEF Die, Mishap, rewardVars, database, stripe, occasions
<1>20. ASSUME NEW k \in Calls, Reset(k) PROVE RewardTypeOK'
  <2>1. call' \in [Calls -> CallRecord]
    BY <1>20, CallMoves DEF Reset, Steps
  <2>2. (call[k].at # "idle" => call[k].of \in Invitees) /\ call[k].until \in Nat
    BY DEF CallRecord
  <2>3. \A c \in Calls : call'[c].at = "idle" <=> call'[c].of = Nobody
    BY <1>20 DEF Reset, Go, NoCall
  <2> QED
    BY <1>20, <2>1, <2>2, <2>3 DEF Reset, rewardVars, database, stripe, occasions
<1>21. CASE SubscriptionTurns
  BY <1>21 DEF SubscriptionTurns, Mishap, rewardVars, database, stripe, occasions
<1>22. CASE UNCHANGED rewardVars
  BY <1>22 DEF rewardVars, database, stripe, occasions
<1> QED
  BY <1>1, <1>2, <1>3, <1>4, <1>5, <1>6, <1>7, <1>8, <1>9, <1>10, <1>11, <1>12, <1>13, <1>14, <1>15, <1>16, <1>17, <1>18, <1>19, <1>20, <1>21, <1>22 DEF RewardNext, Paying

LEMMA BaseNext == BaseInv /\ [RewardNext]_rewardVars => BaseInv'
<1> SUFFICES ASSUME BaseInv, [RewardNext]_rewardVars PROVE CallsKnow' /\ RowsAgree'
  BY TypesNext DEF BaseInv
<1> USE RewardConstants DEF BaseInv, CallsKnow, RowsAgree, RewardTypeOK, NoCall, Begun, Paid, Steps, CallRecord
<1>1. ASSUME NEW i \in Invitees, ClaimLink(i) PROVE CallsKnow' /\ RowsAgree'
  BY <1>1 DEF ClaimLink, rewardVars, database, stripe, occasions
<1>2. ASSUME NEW i \in Invitees, OpenCheckout(i) PROVE CallsKnow' /\ RowsAgree'
  BY <1>2 DEF OpenCheckout, rewardVars, database, stripe, occasions
<1>3. ASSUME NEW i \in Invitees, Subscribe(i) PROVE CallsKnow' /\ RowsAgree'
  BY <1>3 DEF Subscribe, rewardVars, database, stripe, occasions
<1>4. ASSUME NEW i \in Invitees, Void(i) PROVE CallsKnow' /\ RowsAgree'
  BY <1>4 DEF Void, Click, rewardVars, database, stripe, occasions
<1>5. ASSUME NEW k \in Calls, NEW i \in Invitees, Deliver(k, i) PROVE CallsKnow' /\ RowsAgree'
  <2>1. CASE i \in recorded
    BY <1>5, <2>1 DEF Deliver, rewardVars, database, stripe, occasions
  <2>2. CASE i \notin recorded /\ OpenedAsReferral(i)
    <3>1. call' = [call EXCEPT ![k] = [NoCall EXCEPT !.of = i, !.at = "claim"]]
      BY <1>5, <2>2 DEF Deliver
    <3> QED
      BY <1>5, <2>2, <3>1 DEF Deliver, MayBegin, OpenedAsReferral, RecordedSoFar, rewardVars, database, stripe, occasions
  <2>3. CASE i \notin recorded /\ ~OpenedAsReferral(i)
    <3>1. call' = [call EXCEPT ![k] = [NoCall EXCEPT !.of = i, !.at = "record"]]
      BY <1>5, <2>3 DEF Deliver
    <3> QED
      BY <1>5, <2>3, <3>1 DEF Deliver, MayBegin, OpenedAsReferral, RecordedSoFar, rewardVars, database, stripe, occasions
  <2> QED
    BY <2>1, <2>2, <2>3
<1>6. ASSUME NEW k \in Calls, NEW i \in Invitees, DeliverInVain(k, i) PROVE CallsKnow' /\ RowsAgree'
  BY <1>6 DEF DeliverInVain, MayBegin, Mishap, rewardVars, database, stripe, occasions
<1>7. ASSUME NEW k \in Calls, NEW i \in Invitees, Retry(k, i) PROVE CallsKnow' /\ RowsAgree'
  BY <1>7 DEF Retry, MayBegin, Click, Retriable, rewardVars, database, stripe, occasions
<1>8. ASSUME NEW k \in Calls, Record(k) PROVE CallsKnow' /\ RowsAgree'
  BY <1>8 DEF Record, Mishap, rewardVars, database, stripe, occasions
<1>9. ASSUME NEW k \in Calls, ClaimReward(k) PROVE CallsKnow' /\ RowsAgree'
  BY <1>9 DEF ClaimReward, Claimable, Go, Conclude, rewardVars, database, stripe, occasions
<1>10. ASSUME NEW k \in Calls, ClaimFails(k) PROVE CallsKnow' /\ RowsAgree'
  BY <1>10 DEF ClaimFails, Mishap, Conclude, rewardVars, database, stripe, occasions
<1>11. ASSUME NEW k \in Calls, CountRewards(k) PROVE CallsKnow' /\ RowsAgree'
  BY <1>11 DEF CountRewards, Go, rewardVars, database, stripe, occasions
<1>12. ASSUME NEW k \in Calls, Retrieve(k) PROVE CallsKnow' /\ RowsAgree'
  BY <1>12 DEF Retrieve, Mishap, Go, PeriodEnd, RewardMonths, rewardVars, database, stripe, occasions
<1>13. ASSUME NEW k \in Calls, Push(k) PROVE CallsKnow' /\ RowsAgree'
  BY <1>13 DEF Push, Accept, Key, Go, rewardVars, database, stripe, occasions
<1>14. ASSUME NEW k \in Calls, PushFails(k) PROVE CallsKnow' /\ RowsAgree'
  BY <1>14 DEF PushFails, Accept, Key, Go, Mishap, rewardVars, database, stripe, occasions
<1>15. ASSUME NEW k \in Calls, WriteReward(k) PROVE CallsKnow' /\ RowsAgree'
  BY <1>15 DEF WriteReward, Go, rewardVars, database, stripe, occasions
<1>16. ASSUME NEW k \in Calls, WriteFails(k) PROVE CallsKnow' /\ RowsAgree'
  BY <1>16 DEF WriteFails, Mishap, Go, rewardVars, database, stripe, occasions
<1>17. ASSUME NEW k \in Calls, WriteLabel(k) PROVE CallsKnow' /\ RowsAgree'
  BY <1>17 DEF WriteLabel, Mishap, Go, Conclude, rewardVars, database, stripe, occasions
<1>18. ASSUME NEW k \in Calls, Park(k) PROVE CallsKnow' /\ RowsAgree'
  BY <1>18 DEF Park, Conclude, Mishap, rewardVars, database, stripe, occasions
<1>19. ASSUME NEW k \in Calls, Die(k) PROVE CallsKnow' /\ RowsAgree'
  BY <1>19 DEF Die, Mishap, rewardVars, database, stripe, occasions
<1>20. ASSUME NEW k \in Calls, Reset(k) PROVE CallsKnow' /\ RowsAgree'
  BY <1>20 DEF Reset, Go, rewardVars, database, stripe, occasions
<1>21. CASE SubscriptionTurns
  BY <1>21 DEF SubscriptionTurns, Mishap, rewardVars, database, stripe, occasions
<1>22. CASE UNCHANGED rewardVars
  BY <1>22 DEF rewardVars, database, stripe, occasions
<1> QED
  BY <1>1, <1>2, <1>3, <1>4, <1>5, <1>6, <1>7, <1>8, <1>9, <1>10, <1>11, <1>12, <1>13, <1>14, <1>15, <1>16, <1>17, <1>18, <1>19, <1>20, <1>21, <1>22 DEF RewardNext, Paying

\* Every variable keeps to its type, for any invitees, invocations and bounds.
THEOREM RewardTypes == RewardSpec => []RewardTypeOK
<1>1. RewardInit => RewardTypeOK
  BY BaseInit DEF BaseInv
<1> QED
  BY <1>1, TypesNext, PTL DEF RewardSpec

LEMMA BaseInvariant == RewardSpec => []BaseInv
BY BaseInit, BaseNext, PTL DEF RewardSpec

-----------------------------------------------------------------------------
(* Paid once.                                                              *)

\* Calls about one invitee are of the same event, unless there is one only; and one of them
\* at most has claimed the row.
Apart ==
    \A k, c \in Calls : k # c /\ call[k].of = call[c].of /\ call[k].of # Nobody =>
        /\ call[k].by = "event" /\ call[c].by = "event"
        /\ call[k].at \notin Paid \/ call[c].at \notin Paid

\* Who has claimed a row has taken it out of pending, and whoever may still push finds it
\* unrewarded.
ClaimHolds ==
    \A k \in Calls :
        /\ call[k].at \in Paid => referral[call[k].of] # "pending"
        /\ call[k].at \in {"count", "look", "push", "reward", "reset"} => call[k].of \notin rewardedAt

RewardedStands == \A i \in rewardedAt : referral[i] = "rewarded"

\* A push is on record, or about to be, or known to be missed.
Accounted ==
    \A p \in pushes :
        \/ p[1] \in missed \cup rewardedAt
        \/ \E k \in Calls : call[k].at = "reward" /\ call[k].of = p[1]

OnceInv == Apart /\ ClaimHolds /\ RewardedStands /\ Accounted /\ PaidOnce

LEMMA OnceInit == RewardInit => OnceInv
BY RewardConstants DEF RewardInit, OnceInv, Apart, ClaimHolds, RewardedStands, Accounted, PaidOnce, NoCall, Paid

LEMMA OnceNext == ~RetryRaces /\ BaseInv /\ BaseInv' /\ OnceInv /\ [RewardNext]_rewardVars => OnceInv'
<1> SUFFICES ASSUME ~RetryRaces, BaseInv, BaseInv', OnceInv, [RewardNext]_rewardVars PROVE OnceInv'
  OBVIOUS
<1> USE RewardConstants DEF BaseInv, OnceInv, CallsKnow, RowsAgree, RewardTypeOK, NoCall, Begun, Paid, Steps, CallRecord, About,
        Apart, ClaimHolds, RewardedStands, Accounted, PaidOnce
<1>1. ASSUME NEW i \in Invitees, ClaimLink(i) PROVE OnceInv'
  BY <1>1 DEF ClaimLink, rewardVars, database, stripe, occasions
<1>2. ASSUME NEW i \in Invitees, OpenCheckout(i) PROVE OnceInv'
  BY <1>2 DEF OpenCheckout, rewardVars, database, stripe, occasions
<1>3. ASSUME NEW i \in Invitees, Subscribe(i) PROVE OnceInv'
  BY <1>3 DEF Subscribe, rewardVars, database, stripe, occasions
<1>4. ASSUME NEW i \in Invitees, Void(i) PROVE OnceInv'
  BY <1>4 DEF Void, Click, rewardVars, database, stripe, occasions
<1>5. ASSUME NEW k \in Calls, NEW i \in Invitees, Deliver(k, i) PROVE OnceInv'
  <2>1. CASE i \in recorded
    BY <1>5, <2>1 DEF Deliver, rewardVars, database, stripe, occasions
  <2>2. CASE i \notin recorded /\ OpenedAsReferral(i)
    <3>1. call' = [call EXCEPT ![k] = [NoCall EXCEPT !.of = i, !.at = "claim"]]
      BY <1>5, <2>2 DEF Deliver
    <3> QED
      BY <1>5, <2>2, <3>1 DEF Deliver, MayBegin, OpenedAsReferral, RecordedSoFar, rewardVars, database, stripe, occasions
  <2>3. CASE i \notin recorded /\ ~OpenedAsReferral(i)
    <3>1. call' = [call EXCEPT ![k] = [NoCall EXCEPT !.of = i, !.at = "record"]]
      BY <1>5, <2>3 DEF Deliver
    <3> QED
      BY <1>5, <2>3, <3>1 DEF Deliver, MayBegin, OpenedAsReferral, RecordedSoFar, rewardVars, database, stripe, occasions
  <2> QED
    BY <2>1, <2>2, <2>3
<1>6. ASSUME NEW k \in Calls, NEW i \in Invitees, DeliverInVain(k, i) PROVE OnceInv'
  BY <1>6 DEF DeliverInVain, MayBegin, Mishap, rewardVars, database, stripe, occasions
<1>7. ASSUME NEW k \in Calls, NEW i \in Invitees, Retry(k, i) PROVE OnceInv'
  BY <1>7 DEF Retry, MayBegin, Click, Retriable, rewardVars, database, stripe, occasions
<1>8. ASSUME NEW k \in Calls, Record(k) PROVE OnceInv'
  BY <1>8 DEF Record, Mishap, rewardVars, database, stripe, occasions
<1>9. ASSUME NEW k \in Calls, ClaimReward(k) PROVE OnceInv'
  <2>1. CASE Claimable(call[k].of)
    <3> DEFINE i == call[k].of
    <3>1. /\ referral' = [referral EXCEPT ![i] = "subscribed"]
          /\ call' = [call EXCEPT ![k].at = "count"]
          /\ UNCHANGED <<rewardedAt, pushes, checkout, missed>>
      BY <1>9, <2>1 DEF ClaimReward, Go, stripe
    <3>2. call[k].at = "claim" /\ i \in Invitees /\ referral[i] = "pending"
      BY <1>9, <2>1 DEF ClaimReward, Claimable
    <3>3. i \notin rewardedAt /\ \A c \in Calls : call[c].of = i => call[c].at \notin Paid
      BY <3>2
    <3>4. Apart'
      BY <3>1, <3>2
    <3>5. ClaimHolds'
      BY <3>1, <3>2, <3>3
    <3>6. RewardedStands'
      BY <3>1, <3>2, <3>3
    <3>7. Accounted'
      BY <3>1, <3>2
    <3>8. PaidOnce'
      BY <3>1
    <3> QED
      BY <3>4, <3>5, <3>6, <3>7, <3>8
  <2>2. CASE ~Claimable(call[k].of) /\ call[k].by = "event"
    <3>1. call' = [call EXCEPT ![k].at = "record"] /\ UNCHANGED <<referral, named>>
      BY <1>9, <2>2 DEF ClaimReward, Conclude
    <3> QED
      BY <1>9, <2>2, <3>1 DEF ClaimReward, Claimable, rewardVars, database, stripe, occasions
  <2>3. CASE ~Claimable(call[k].of) /\ call[k].by # "event"
    <3>1. call' = [call EXCEPT ![k] = NoCall] /\ UNCHANGED <<referral, named>>
      BY <1>9, <2>3 DEF ClaimReward, Conclude
    <3> QED
      BY <1>9, <2>3, <3>1 DEF ClaimReward, rewardVars, database, stripe, occasions
  <2> QED
    BY <2>1, <2>2, <2>3
<1>10. ASSUME NEW k \in Calls, ClaimFails(k) PROVE OnceInv'
  BY <1>10 DEF ClaimFails, Mishap, Conclude, rewardVars, database, stripe, occasions
<1>11. ASSUME NEW k \in Calls, CountRewards(k) PROVE OnceInv'
  <2>1. PICK at \in {"look", "void"} : Go(k, at)
    BY <1>11 DEF CountRewards
  <2>2. UNCHANGED <<database, stripe, checkout, occasions, missed, dropped, clicks, mishaps>> /\ call[k].at = "count"
    BY <1>11 DEF CountRewards
  <2>3. CASE at = "look"
    BY <2>1, <2>2, <2>3 DEF Go, rewardVars, database, stripe, occasions
  <2>4. CASE at = "void"
    BY <2>1, <2>2, <2>4 DEF Go, rewardVars, database, stripe, occasions
  <2> QED
    BY <2>1, <2>3, <2>4
<1>12. ASSUME NEW k \in Calls, Retrieve(k) PROVE OnceInv'
  <2>1. CASE Go(k, "note")
    BY <1>12, <2>1 DEF Retrieve, Go, Mishap, rewardVars, database, stripe, occasions
  <2>2. CASE call' = [call EXCEPT ![k].at = "push", ![k].until = inviter.until + 2]
    BY <1>12, <2>2 DEF Retrieve, Mishap, rewardVars, database, stripe, occasions
  <2> QED
    BY <1>12, <2>1, <2>2 DEF Retrieve, PeriodEnd, RewardMonths
<1>13. ASSUME NEW k \in Calls, Push(k) PROVE OnceInv'
  BY <1>13 DEF Push, Accept, Key, Go, rewardVars, database, stripe, occasions
<1>14. ASSUME NEW k \in Calls, PushFails(k) PROVE OnceInv'
  BY <1>14 DEF PushFails, Accept, Key, Go, Mishap, rewardVars, database, stripe, occasions
<1>15. ASSUME NEW k \in Calls, WriteReward(k) PROVE OnceInv'
  BY SMTT(30), <1>15 DEF WriteReward, Go, rewardVars, database, stripe, occasions
<1>16. ASSUME NEW k \in Calls, WriteFails(k) PROVE OnceInv'
  BY <1>16 DEF WriteFails, Mishap, Go, rewardVars, database, stripe, occasions
<1>17. ASSUME NEW k \in Calls, WriteLabel(k) PROVE OnceInv'
  <2>1. CASE Go(k, "note")
    BY <1>17, <2>1 DEF WriteLabel, Go, Mishap, rewardVars, database, stripe, occasions
  <2>2. CASE call[k].by = "event" /\ call' = [call EXCEPT ![k].at = "record"]
    BY <1>17, <2>2 DEF WriteLabel, Mishap, rewardVars, database, stripe, occasions
  <2>3. CASE call' = [call EXCEPT ![k] = NoCall]
    BY <1>17, <2>3 DEF WriteLabel, Mishap, rewardVars, database, stripe, occasions
  <2> QED
    BY <1>17, <2>1, <2>2, <2>3 DEF WriteLabel, Conclude
<1>18. ASSUME NEW k \in Calls, Park(k) PROVE OnceInv'
  BY <1>18 DEF Park, Conclude, Mishap, rewardVars, database, stripe, occasions
<1>19. ASSUME NEW k \in Calls, Die(k) PROVE OnceInv'
  BY <1>19 DEF Die, Mishap, rewardVars, database, stripe, occasions
<1>20. ASSUME NEW k \in Calls, Reset(k) PROVE OnceInv'
  BY <1>20 DEF Reset, Go, rewardVars, database, stripe, occasions
<1>21. CASE SubscriptionTurns
  BY <1>21 DEF SubscriptionTurns, Mishap, rewardVars, database, stripe, occasions
<1>22. CASE UNCHANGED rewardVars
  BY <1>22 DEF rewardVars, database, stripe, occasions
<1> QED
  BY <1>1, <1>2, <1>3, <1>4, <1>5, <1>6, <1>7, <1>8, <1>9, <1>10, <1>11, <1>12, <1>13, <1>14, <1>15, <1>16, <1>17, <1>18, <1>19, <1>20, <1>21, <1>22 DEF RewardNext, Paying

\* As long as no retry overlaps another call about its invitee, the inviter is given the
\* months of an invitee once, for any number of deliveries, retries, refusals and deaths,
\* unless nobody could record the push.
THEOREM RewardPaidOnce == ~RetryRaces => (RewardSpec => []PaidOnce)
<1> SUFFICES ASSUME ~RetryRaces PROVE RewardSpec => []PaidOnce
  OBVIOUS
<1>1. OnceInv => PaidOnce
  BY DEF OnceInv
<1> QED
  BY <1>1, OnceInit, OnceNext, BaseInvariant, PTL DEF RewardSpec

-----------------------------------------------------------------------------
(* Owed stays within reach.                                                *)

Reachable(i) == referral[i] \in {"rewarded", "void"} \/ i \in named \/ i \in dropped

ReachInv ==
    /\ \A k \in Calls : call[k].at = "record" /\ checkout[call[k].of] = "trialing" => Reachable(call[k].of)
    /\ \A i \in recorded : checkout[i] = "trialing" => Reachable(i)
    /\ OwedIsWithinReach

LEMMA ReachInit == RewardInit => ReachInv
BY RewardConstants DEF RewardInit, ReachInv, OwedIsWithinReach, NoCall

LEMMA ReachNext == BaseInv /\ BaseInv' /\ ReachInv /\ [RewardNext]_rewardVars => ReachInv'
<1> SUFFICES ASSUME BaseInv, BaseInv', ReachInv, [RewardNext]_rewardVars PROVE ReachInv'
  OBVIOUS
<1> USE RewardConstants DEF BaseInv, ReachInv, CallsKnow, RowsAgree, RewardTypeOK, NoCall, Begun, Paid, Steps, CallRecord,
        Reachable, OwedIsWithinReach
<1>1. ASSUME NEW i \in Invitees, ClaimLink(i) PROVE ReachInv'
  BY <1>1 DEF ClaimLink, rewardVars, database, stripe, occasions
<1>2. ASSUME NEW i \in Invitees, OpenCheckout(i) PROVE ReachInv'
  BY <1>2 DEF OpenCheckout, rewardVars, database, stripe, occasions
<1>3. ASSUME NEW i \in Invitees, Subscribe(i) PROVE ReachInv'
  BY <1>3 DEF Subscribe, rewardVars, database, stripe, occasions
<1>4. ASSUME NEW i \in Invitees, Void(i) PROVE ReachInv'
  BY <1>4 DEF Void, Click, rewardVars, database, stripe, occasions
<1>5. ASSUME NEW k \in Calls, NEW i \in Invitees, Deliver(k, i) PROVE ReachInv'
  <2>1. CASE i \in recorded
    BY <1>5, <2>1 DEF Deliver, rewardVars, database, stripe, occasions
  <2>2. CASE i \notin recorded /\ OpenedAsReferral(i)
    <3>1. call' = [call EXCEPT ![k] = [NoCall EXCEPT !.of = i, !.at = "claim"]]
      BY <1>5, <2>2 DEF Deliver
    <3> QED
      BY <1>5, <2>2, <3>1 DEF Deliver, MayBegin, OpenedAsReferral, RecordedSoFar, rewardVars, database, stripe, occasions
  <2>3. CASE i \notin recorded /\ ~OpenedAsReferral(i)
    <3>1. call' = [call EXCEPT ![k] = [NoCall EXCEPT !.of = i, !.at = "record"]]
      BY <1>5, <2>3 DEF Deliver
    <3> QED
      BY <1>5, <2>3, <3>1 DEF Deliver, MayBegin, OpenedAsReferral, RecordedSoFar, rewardVars, database, stripe, occasions
  <2> QED
    BY <2>1, <2>2, <2>3
<1>6. ASSUME NEW k \in Calls, NEW i \in Invitees, DeliverInVain(k, i) PROVE ReachInv'
  BY <1>6 DEF DeliverInVain, MayBegin, Mishap, rewardVars, database, stripe, occasions
<1>7. ASSUME NEW k \in Calls, NEW i \in Invitees, Retry(k, i) PROVE ReachInv'
  BY <1>7 DEF Retry, MayBegin, Click, Retriable, rewardVars, database, stripe, occasions
<1>8. ASSUME NEW k \in Calls, Record(k) PROVE ReachInv'
  BY <1>8 DEF Record, Mishap, rewardVars, database, stripe, occasions
<1>9. ASSUME NEW k \in Calls, ClaimReward(k) PROVE ReachInv'
  <2>1. CASE Claimable(call[k].of)
    BY <1>9, <2>1 DEF ClaimReward, Claimable, Go, rewardVars, database, stripe, occasions
  <2>2. CASE ~Claimable(call[k].of) /\ call[k].by = "event"
    <3>1. call' = [call EXCEPT ![k].at = "record"] /\ UNCHANGED <<referral, named>>
      BY <1>9, <2>2 DEF ClaimReward, Conclude
    <3> QED
      BY <1>9, <2>2, <3>1 DEF ClaimReward, Claimable, rewardVars, database, stripe, occasions
  <2>3. CASE ~Claimable(call[k].of) /\ call[k].by # "event"
    <3>1. call' = [call EXCEPT ![k] = NoCall] /\ UNCHANGED <<referral, named>>
      BY <1>9, <2>3 DEF ClaimReward, Conclude
    <3> QED
      BY <1>9, <2>3, <3>1 DEF ClaimReward, rewardVars, database, stripe, occasions
  <2> QED
    BY <2>1, <2>2, <2>3
<1>10. ASSUME NEW k \in Calls, ClaimFails(k) PROVE ReachInv'
  BY <1>10 DEF ClaimFails, Mishap, Conclude, rewardVars, database, stripe, occasions
<1>11. ASSUME NEW k \in Calls, CountRewards(k) PROVE ReachInv'
  BY <1>11 DEF CountRewards, Go, rewardVars, database, stripe, occasions
<1>12. ASSUME NEW k \in Calls, Retrieve(k) PROVE ReachInv'
  BY <1>12 DEF Retrieve, Mishap, Go, PeriodEnd, RewardMonths, rewardVars, database, stripe, occasions
<1>13. ASSUME NEW k \in Calls, Push(k) PROVE ReachInv'
  BY <1>13 DEF Push, Accept, Key, Go, rewardVars, database, stripe, occasions
<1>14. ASSUME NEW k \in Calls, PushFails(k) PROVE ReachInv'
  BY <1>14 DEF PushFails, Accept, Key, Go, Mishap, rewardVars, database, stripe, occasions
<1>15. ASSUME NEW k \in Calls, WriteReward(k) PROVE ReachInv'
  BY <1>15 DEF WriteReward, Go, rewardVars, database, stripe, occasions
<1>16. ASSUME NEW k \in Calls, WriteFails(k) PROVE ReachInv'
  BY <1>16 DEF WriteFails, Mishap, Go, rewardVars, database, stripe, occasions
<1>17. ASSUME NEW k \in Calls, WriteLabel(k) PROVE ReachInv'
  BY <1>17 DEF WriteLabel, Mishap, Go, Conclude, rewardVars, database, stripe, occasions
<1>18. ASSUME NEW k \in Calls, Park(k) PROVE ReachInv'
  BY <1>18 DEF Park, Conclude, Mishap, rewardVars, database, stripe, occasions
<1>19. ASSUME NEW k \in Calls, Die(k) PROVE ReachInv'
  BY <1>19 DEF Die, Mishap, rewardVars, database, stripe, occasions
<1>20. ASSUME NEW k \in Calls, Reset(k) PROVE ReachInv'
  BY <1>20 DEF Reset, Go, rewardVars, database, stripe, occasions
<1>21. CASE SubscriptionTurns
  BY <1>21 DEF SubscriptionTurns, Mishap, rewardVars, database, stripe, occasions
<1>22. CASE UNCHANGED rewardVars
  BY <1>22 DEF rewardVars, database, stripe, occasions
<1> QED
  BY <1>1, <1>2, <1>3, <1>4, <1>5, <1>6, <1>7, <1>8, <1>9, <1>10, <1>11, <1>12, <1>13, <1>14, <1>15, <1>16, <1>17, <1>18, <1>19, <1>20, <1>21, <1>22 DEF RewardNext, Paying

\* An invitee who subscribed on the referral trial has a row that was decided or that an
\* administrator can retry, or an event still to come, whatever dies and races, unless the
\* database refused an event that was then answered 200.
THEOREM OwedAlwaysWithinReach == RewardSpec => []OwedIsWithinReach
<1>1. ReachInv => OwedIsWithinReach
  BY DEF ReachInv
<1> QED
  BY <1>1, ReachInit, ReachNext, BaseInvariant, PTL DEF RewardSpec

-----------------------------------------------------------------------------
(* Within the terms.                                                       *)

Rewarded == {i \in Invitees : referral[i] = "rewarded"}

\* Payments that do not overlap are about one invitee.
Alone ==
    \A k, c \in Calls :
        call[k].of # Nobody /\ call[c].of # Nobody => call[k].of = call[c].of

\* Whoever passed the ceiling still finds room under it for the invitee it pays.
Room ==
    /\ \A k \in Calls : call[k].at \in {"look", "push", "reward"} =>
          Cardinality(Rewarded \ {call[k].of}) < MaxRewards
    /\ Cardinality(Rewarded) <= MaxRewards

\* The date asked for is the next one, or was granted.
Dates ==
    /\ IsFiniteSet(pushes) /\ inviter.until = RewardMonths * Cardinality(pushes)
    /\ \A p \in pushes : p[2] \in Nat /\ p[2] <= inviter.until
    /\ \A k \in Calls :
          /\ call[k].at = "push" =>
                Key(k) \in pushes \/ call[k].until = inviter.until + RewardMonths
          /\ call[k].at \in {"reward", "label"} => Key(k) \in pushes
    /\ label <= inviter.until

TermsInv == ~together => Alone /\ Room /\ Dates

\* How a step moves a call along the payment.
Begins(k) ==
    ~together => \/ call'[k].of \in {call[k].of, Nobody}
                 \/ /\ \A c \in Calls : call[c].of \in {call'[k].of, Nobody}
                    /\ \A c \in Calls \ {k} : call'[c] = call[c]

Pays(k) ==
    /\ call'[k].at \in {"look", "push", "reward", "label"} => call'[k].of = call[k].of
    /\ call'[k].at \in {"look", "push", "reward"} =>
          \/ call[k].at \in {"look", "push", "reward"}
          \/ referral' = referral /\ Cardinality(Rewarded) < MaxRewards
    /\ call'[k].at = "push" =>
          \/ call[k].at = "push" /\ call'[k].until = call[k].until
          \/ UNCHANGED <<pushes, inviter>> /\ call'[k].until = inviter.until + RewardMonths
    /\ call'[k].at \in {"reward", "label"} =>
          /\ call'[k].until = call[k].until
          /\ call[k].at \in {"reward", "label"} \/ (call[k].at = "push" /\ Key(k) \in pushes')

\* What a step does to the rewards and to the dates.
Grants ==
    /\ together' = together
    /\ Rewarded' \subseteq Rewarded \/ \E k \in Calls :
          call[k].at = "reward" /\ Rewarded' \subseteq Rewarded \cup {call[k].of}
    /\ \/ pushes' = pushes /\ inviter'.until = inviter.until
       \/ \E k \in Calls : /\ call[k].at = "push" /\ Key(k) \notin pushes
                           /\ pushes' = pushes \cup {Key(k)} /\ inviter'.until = call[k].until
    /\ label' = label \/ \E k \in Calls : call[k].at = "label" /\ label' = call[k].until

LEMMA AddedTwice == ASSUME NEW S, NEW x \in S PROVE S \cup {x} = S
OBVIOUS

LEMMA PaymentMoves ==
    ASSUME BaseInv, BaseInv', [RewardNext]_rewardVars
    PROVE  (\A k \in Calls : Begins(k) /\ Pays(k)) /\ Grants
<1> USE RewardConstants DEF BaseInv, RewardTypeOK, NoCall, Steps, CallRecord, RewardMonths,
        rewardVars, database, stripe, occasions
<1>1. ASSUME NEW i \in Invitees, ClaimLink(i) PROVE (\A c \in Calls : Begins(c) /\ Pays(c)) /\ Grants
  <2>1. \A c \in Calls : Begins(c)
    BY <1>1 DEF ClaimLink, Begins
  <2>2. \A c \in Calls : Pays(c)
    BY <1>1 DEF ClaimLink, Pays, Key
  <2>3. Grants
    BY <1>1 DEF ClaimLink, Grants, Rewarded
  <2> QED
    BY <2>1, <2>2, <2>3
<1>2. ASSUME NEW i \in Invitees, OpenCheckout(i) PROVE (\A c \in Calls : Begins(c) /\ Pays(c)) /\ Grants
  <2>1. \A c \in Calls : Begins(c)
    BY <1>2 DEF OpenCheckout, Begins
  <2>2. \A c \in Calls : Pays(c)
    BY <1>2 DEF OpenCheckout, Pays, Key
  <2>3. Grants
    BY <1>2 DEF OpenCheckout, Grants, Rewarded
  <2> QED
    BY <2>1, <2>2, <2>3
<1>3. ASSUME NEW i \in Invitees, Subscribe(i) PROVE (\A c \in Calls : Begins(c) /\ Pays(c)) /\ Grants
  <2>1. \A c \in Calls : Begins(c)
    BY <1>3 DEF Subscribe, Begins
  <2>2. \A c \in Calls : Pays(c)
    BY <1>3 DEF Subscribe, Pays, Key
  <2>3. Grants
    BY <1>3 DEF Subscribe, Grants, Rewarded
  <2> QED
    BY <2>1, <2>2, <2>3
<1>4. ASSUME NEW i \in Invitees, Void(i) PROVE (\A c \in Calls : Begins(c) /\ Pays(c)) /\ Grants
  <2>1. \A c \in Calls : Begins(c)
    BY <1>4 DEF Void, Click, Begins
  <2>2. \A c \in Calls : Pays(c)
    BY <1>4 DEF Void, Click, Pays, Key
  <2>3. Grants
    BY <1>4 DEF Void, Click, Grants, Rewarded
  <2> QED
    BY <2>1, <2>2, <2>3
<1>5. ASSUME NEW k \in Calls, NEW i \in Invitees, Deliver(k, i) PROVE (\A c \in Calls : Begins(c) /\ Pays(c)) /\ Grants
  <2>1. \A c \in Calls : Begins(c)
    <3>1. CASE call' = call
      BY <1>5, <3>1 DEF Deliver, RecordedSoFar, Begins, Key
    <3>2. ASSUME NEW at \in {"claim", "record"},
                 call' = [call EXCEPT ![k] = [NoCall EXCEPT !.of = i, !.at = at]]
          PROVE  \A c \in Calls : Begins(c)
      BY <1>5, <3>2 DEF Deliver, MayBegin, Begins, Key
    <3> QED
      BY <1>5, <3>1, <3>2 DEF Deliver
  <2>2. \A c \in Calls : Pays(c)
    <3>1. CASE call' = call
      BY <1>5, <3>1 DEF Deliver, RecordedSoFar, Pays, Key
    <3>2. ASSUME NEW at \in {"claim", "record"},
                 call' = [call EXCEPT ![k] = [NoCall EXCEPT !.of = i, !.at = at]]
          PROVE  \A c \in Calls : Pays(c)
      BY <1>5, <3>2 DEF Deliver, MayBegin, Pays, Key
    <3> QED
      BY <1>5, <3>1, <3>2 DEF Deliver
  <2>3. Grants
    BY <1>5 DEF Deliver, MayBegin, RecordedSoFar, Grants, Rewarded
  <2> QED
    BY <2>1, <2>2, <2>3
<1>6. ASSUME NEW k \in Calls, NEW i \in Invitees, DeliverInVain(k, i) PROVE (\A c \in Calls : Begins(c) /\ Pays(c)) /\ Grants
  <2>1. \A c \in Calls : Begins(c)
    BY <1>6 DEF DeliverInVain, MayBegin, Mishap, Begins
  <2>2. \A c \in Calls : Pays(c)
    BY <1>6 DEF DeliverInVain, MayBegin, Mishap, Pays, Key
  <2>3. Grants
    BY <1>6 DEF DeliverInVain, MayBegin, Mishap, Grants, Rewarded
  <2> QED
    BY <2>1, <2>2, <2>3
<1>7. ASSUME NEW k \in Calls, NEW i \in Invitees, Retry(k, i) PROVE (\A c \in Calls : Begins(c) /\ Pays(c)) /\ Grants
  <2>1. \A c \in Calls : Begins(c)
    BY <1>7 DEF Retry, MayBegin, Click, Begins
  <2>2. \A c \in Calls : Pays(c)
    BY <1>7 DEF Retry, MayBegin, Click, Pays, Key
  <2>3. Grants
    BY <1>7 DEF Retry, MayBegin, Click, Grants, Rewarded
  <2> QED
    BY <2>1, <2>2, <2>3
<1>8. ASSUME NEW k \in Calls, Record(k) PROVE (\A c \in Calls : Begins(c) /\ Pays(c)) /\ Grants
  <2>1. \A c \in Calls : Begins(c)
    BY <1>8 DEF Record, Mishap, Begins
  <2>2. \A c \in Calls : Pays(c)
    BY <1>8 DEF Record, Mishap, Pays, Key
  <2>3. Grants
    BY <1>8 DEF Record, Mishap, Grants, Rewarded
  <2> QED
    BY <2>1, <2>2, <2>3
<1>9. ASSUME NEW k \in Calls, ClaimReward(k) PROVE (\A c \in Calls : Begins(c) /\ Pays(c)) /\ Grants
  <2>1. \A c \in Calls : Begins(c)
    <3>1. CASE call' = [call EXCEPT ![k] = NoCall]
      BY <1>9, <3>1 DEF ClaimReward, Begins, Key
    <3>2. ASSUME NEW at \in {"count", "record"}, call' = [call EXCEPT ![k].at = at]
          PROVE  \A c \in Calls : Begins(c)
      BY <1>9, <3>2 DEF ClaimReward, Begins, Key
    <3> QED
      BY <1>9, <3>1, <3>2 DEF ClaimReward, Go, Conclude
  <2>2. \A c \in Calls : Pays(c)
    <3>1. CASE call' = [call EXCEPT ![k] = NoCall]
      BY <1>9, <3>1 DEF ClaimReward, Pays, Key
    <3>2. ASSUME NEW at \in {"count", "record"}, call' = [call EXCEPT ![k].at = at]
          PROVE  \A c \in Calls : Pays(c)
      BY <1>9, <3>2 DEF ClaimReward, Pays, Key
    <3> QED
      BY <1>9, <3>1, <3>2 DEF ClaimReward, Go, Conclude
  <2>3. Grants
    BY <1>9 DEF ClaimReward, Grants, Rewarded
  <2> QED
    BY <2>1, <2>2, <2>3
<1>10. ASSUME NEW k \in Calls, ClaimFails(k) PROVE (\A c \in Calls : Begins(c) /\ Pays(c)) /\ Grants
  <2>1. \A c \in Calls : Begins(c)
    BY <1>10 DEF ClaimFails, Conclude, Mishap, Begins
  <2>2. \A c \in Calls : Pays(c)
    BY <1>10 DEF ClaimFails, Conclude, Mishap, Pays, Key
  <2>3. Grants
    BY <1>10 DEF ClaimFails, Conclude, Mishap, Grants, Rewarded
  <2> QED
    BY <2>1, <2>2, <2>3
<1>11. ASSUME NEW k \in Calls, CountRewards(k) PROVE (\A c \in Calls : Begins(c) /\ Pays(c)) /\ Grants
  <2>1. \A c \in Calls : Begins(c)
    BY <1>11 DEF CountRewards, Go, Begins
  <2>2. \A c \in Calls : Pays(c)
    BY <1>11 DEF CountRewards, Go, Pays, Key, Rewarded
  <2>3. Grants
    BY <1>11 DEF CountRewards, Go, Grants, Rewarded
  <2> QED
    BY <2>1, <2>2, <2>3
<1>12. ASSUME NEW k \in Calls, Retrieve(k) PROVE (\A c \in Calls : Begins(c) /\ Pays(c)) /\ Grants
  <2>1. \A c \in Calls : Begins(c)
    BY <1>12 DEF Retrieve, Go, Mishap, Begins
  <2>2. \A c \in Calls : Pays(c)
    BY <1>12 DEF Retrieve, Go, Mishap, Pays, Key, Accept, PeriodEnd
  <2>3. Grants
    BY <1>12 DEF Retrieve, Go, Mishap, Grants, Key, Accept, PeriodEnd, Rewarded
  <2> QED
    BY <2>1, <2>2, <2>3
<1>13. ASSUME NEW k \in Calls, Push(k) PROVE (\A c \in Calls : Begins(c) /\ Pays(c)) /\ Grants
  <2>1. \A c \in Calls : Begins(c)
    BY <1>13 DEF Push, Go, Begins
  <2>2. \A c \in Calls : Pays(c)
    BY <1>13 DEF Push, Go, Pays, Key, Accept, PeriodEnd
  <2>3. Grants
    <3>1. UNCHANGED <<together, referral, label>> /\ call[k].at = "push"
      BY <1>13 DEF Push
    <3>2. UNCHANGED <<pushes, inviter>> \/ Accept(k)
      BY <1>13 DEF Push
    <3>3. CASE UNCHANGED <<pushes, inviter>> \/ Key(k) \in pushes
      <4>1. CASE Accept(k) /\ Key(k) \in pushes
        <5>1. pushes' = pushes \cup {Key(k)} /\ inviter' = inviter
          BY <4>1 DEF Accept
        <5>2. pushes' = pushes
          BY <4>1, <5>1, AddedTwice
        <5> QED
          BY <3>1, <5>1, <5>2 DEF Grants, Rewarded
      <4>2. CASE UNCHANGED <<pushes, inviter>>
        BY <3>1, <4>2 DEF Grants, Rewarded
      <4> QED
        BY <3>2, <3>3, <4>1, <4>2
    <3>4. CASE Accept(k) /\ Key(k) \notin pushes
      <4>1. pushes' = pushes \cup {Key(k)} /\ inviter'.until = call[k].until
        BY <3>4 DEF Accept
      <4> QED
        BY <3>1, <3>4, <4>1 DEF Grants, Rewarded
    <3> QED
      BY <3>2, <3>3, <3>4
  <2> QED
    BY <2>1, <2>2, <2>3
<1>14. ASSUME NEW k \in Calls, PushFails(k) PROVE (\A c \in Calls : Begins(c) /\ Pays(c)) /\ Grants
  <2>1. \A c \in Calls : Begins(c)
    BY <1>14 DEF PushFails, Go, Mishap, Begins
  <2>2. \A c \in Calls : Pays(c)
    BY <1>14 DEF PushFails, Go, Mishap, Pays, Key, Accept, PeriodEnd
  <2>3. Grants
    <3>1. UNCHANGED <<together, referral, label>> /\ call[k].at = "push"
      BY <1>14 DEF PushFails
    <3>2. UNCHANGED <<pushes, inviter>> \/ Accept(k)
      BY <1>14 DEF PushFails
    <3>3. CASE UNCHANGED <<pushes, inviter>> \/ Key(k) \in pushes
      <4>1. CASE Accept(k) /\ Key(k) \in pushes
        <5>1. pushes' = pushes \cup {Key(k)} /\ inviter' = inviter
          BY <4>1 DEF Accept
        <5>2. pushes' = pushes
          BY <4>1, <5>1, AddedTwice
        <5> QED
          BY <3>1, <5>1, <5>2 DEF Grants, Rewarded
      <4>2. CASE UNCHANGED <<pushes, inviter>>
        BY <3>1, <4>2 DEF Grants, Rewarded
      <4> QED
        BY <3>2, <3>3, <4>1, <4>2
    <3>4. CASE Accept(k) /\ Key(k) \notin pushes
      <4>1. pushes' = pushes \cup {Key(k)} /\ inviter'.until = call[k].until
        BY <3>4 DEF Accept
      <4> QED
        BY <3>1, <3>4, <4>1 DEF Grants, Rewarded
    <3> QED
      BY <3>2, <3>3, <3>4
  <2> QED
    BY <2>1, <2>2, <2>3
<1>15. ASSUME NEW k \in Calls, WriteReward(k) PROVE (\A c \in Calls : Begins(c) /\ Pays(c)) /\ Grants
  <2>1. \A c \in Calls : Begins(c)
    BY <1>15 DEF WriteReward, Go, Begins
  <2>2. \A c \in Calls : Pays(c)
    BY <1>15 DEF WriteReward, Go, Pays, Key
  <2>3. Grants
    BY <1>15 DEF WriteReward, Go, Grants, Rewarded
  <2> QED
    BY <2>1, <2>2, <2>3
<1>16. ASSUME NEW k \in Calls, WriteFails(k) PROVE (\A c \in Calls : Begins(c) /\ Pays(c)) /\ Grants
  <2>1. \A c \in Calls : Begins(c)
    BY <1>16 DEF WriteFails, Go, Mishap, Begins
  <2>2. \A c \in Calls : Pays(c)
    BY <1>16 DEF WriteFails, Go, Mishap, Pays, Key
  <2>3. Grants
    BY <1>16 DEF WriteFails, Go, Mishap, Grants, Rewarded
  <2> QED
    BY <2>1, <2>2, <2>3
<1>17. ASSUME NEW k \in Calls, WriteLabel(k) PROVE (\A c \in Calls : Begins(c) /\ Pays(c)) /\ Grants
  <2>1. \A c \in Calls : Begins(c)
    BY <1>17 DEF WriteLabel, Go, Conclude, Mishap, Begins
  <2>2. \A c \in Calls : Pays(c)
    BY <1>17 DEF WriteLabel, Go, Conclude, Mishap, Pays, Key
  <2>3. Grants
    BY <1>17 DEF WriteLabel, Go, Conclude, Mishap, Grants, Rewarded
  <2> QED
    BY <2>1, <2>2, <2>3
<1>18. ASSUME NEW k \in Calls, Park(k) PROVE (\A c \in Calls : Begins(c) /\ Pays(c)) /\ Grants
  <2>1. \A c \in Calls : Begins(c)
    BY <1>18 DEF Park, Conclude, Mishap, Begins
  <2>2. \A c \in Calls : Pays(c)
    BY <1>18 DEF Park, Conclude, Mishap, Pays, Key
  <2>3. Grants
    BY <1>18 DEF Park, Conclude, Mishap, Grants, Rewarded
  <2> QED
    BY <2>1, <2>2, <2>3
<1>19. ASSUME NEW k \in Calls, Die(k) PROVE (\A c \in Calls : Begins(c) /\ Pays(c)) /\ Grants
  <2>1. \A c \in Calls : Begins(c)
    BY <1>19 DEF Die, Mishap, Begins
  <2>2. \A c \in Calls : Pays(c)
    BY <1>19 DEF Die, Mishap, Pays, Key
  <2>3. Grants
    BY <1>19 DEF Die, Mishap, Grants, Rewarded
  <2> QED
    BY <2>1, <2>2, <2>3
<1>20. ASSUME NEW k \in Calls, Reset(k) PROVE (\A c \in Calls : Begins(c) /\ Pays(c)) /\ Grants
  <2>1. \A c \in Calls : Begins(c)
    BY <1>20 DEF Reset, Go, Begins
  <2>2. \A c \in Calls : Pays(c)
    BY <1>20 DEF Reset, Go, Pays, Key
  <2>3. Grants
    BY <1>20 DEF Reset, Go, Grants, Rewarded
  <2> QED
    BY <2>1, <2>2, <2>3
<1>21. CASE SubscriptionTurns
  BY <1>21 DEF SubscriptionTurns, Mishap, Begins, Pays, Grants, Key, Rewarded
<1>22. CASE UNCHANGED rewardVars
  BY <1>22 DEF Begins, Pays, Grants, Key, Rewarded
<1> QED
  BY <1>1, <1>2, <1>3, <1>4, <1>5, <1>6, <1>7, <1>8, <1>9, <1>10, <1>11, <1>12, <1>13, <1>14, <1>15, <1>16, <1>17, <1>18, <1>19, <1>20, <1>21, <1>22 DEF RewardNext, Paying

LEMMA TermsInit == RewardInit => TermsInv
<1> SUFFICES ASSUME RewardInit PROVE Alone /\ Room /\ Dates
  BY DEF TermsInv
<1>1. Rewarded = {} /\ Cardinality(Rewarded) = 0
  <2>1. Rewarded = {}
    BY DEF RewardInit, Rewarded
  <2> QED
    BY <2>1, FS_EmptySet
<1>2. IsFiniteSet(pushes) /\ Cardinality(pushes) = 0
  BY FS_EmptySet DEF RewardInit
<1> QED
  BY <1>1, <1>2, RewardConstants DEF RewardInit, Alone, Room, Dates, NoCall, RewardMonths

LEMMA TermsNext ==
    BaseInv /\ BaseInv' /\ TermsInv /\ [RewardNext]_rewardVars => TermsInv'
<1> SUFFICES ASSUME BaseInv, BaseInv', TermsInv, [RewardNext]_rewardVars, ~together'
             PROVE  Alone' /\ Room' /\ Dates'
  BY DEF TermsInv
<1>1. (\A k \in Calls : Begins(k) /\ Pays(k)) /\ Grants
  BY PaymentMoves
<1>2. ~together /\ Alone /\ Room /\ Dates
  BY <1>1 DEF TermsInv, Grants
<1>3. /\ \A k \in Calls : call[k] \in CallRecord /\ call'[k] \in CallRecord
      /\ inviter.until \in Nat /\ label \in Nat
      /\ \A k \in Calls : call[k].at = "idle" <=> call[k].of = Nobody
  BY DEF BaseInv, RewardTypeOK
<1>4. Alone'
  BY <1>2, <1>1 DEF Alone, Begins
<1>5. \A k, c \in Calls : call[k].at # "idle" /\ call[c].at # "idle" => call[k].of = call[c].of
  BY <1>2, <1>3 DEF Alone
<1>6. Room'
  <2>1. IsFiniteSet(Rewarded) /\ IsFiniteSet(Rewarded')
    BY RewardConstants, FS_Subset DEF Rewarded
  <2>2. ASSUME NEW k \in Calls, call'[k].at \in {"look", "push", "reward"}
        PROVE  Cardinality(Rewarded' \ {call'[k].of}) < MaxRewards
    <3>1. call'[k].of = call[k].of
      BY <1>1, <2>2 DEF Pays
    <3>2. CASE call[k].at \in {"look", "push", "reward"}
      <4>1. Rewarded' \ {call[k].of} \subseteq Rewarded \ {call[k].of}
        BY <1>1, <1>5, <3>2 DEF Grants
      <4>2. IsFiniteSet(Rewarded \ {call[k].of})
        BY <2>1, FS_Subset
      <4>3. Cardinality(Rewarded' \ {call[k].of}) <= Cardinality(Rewarded \ {call[k].of})
        BY <4>1, <4>2, FS_Subset
      <4>4. /\ Cardinality(Rewarded \ {call[k].of}) \in Nat
            /\ Cardinality(Rewarded' \ {call[k].of}) \in Nat
        BY <4>1, <4>2, FS_Subset, FS_CardinalityType
      <4> QED
        BY <1>2, <3>1, <3>2, <4>3, <4>4, RewardConstants DEF Room
    <3>3. CASE referral' = referral /\ Cardinality(Rewarded) < MaxRewards
      <4>1. Rewarded' = Rewarded
        BY <3>3 DEF Rewarded
      <4>2. Cardinality(Rewarded \ {call[k].of}) <= Cardinality(Rewarded)
        BY <2>1, FS_Subset
      <4>3. Cardinality(Rewarded \ {call[k].of}) \in Nat /\ Cardinality(Rewarded) \in Nat
        BY <2>1, FS_Subset, FS_CardinalityType
      <4> QED
        BY <3>1, <3>3, <4>1, <4>2, <4>3, RewardConstants
    <3> QED
      BY <1>1, <2>2, <3>2, <3>3 DEF Pays
  <2>3. Cardinality(Rewarded') <= MaxRewards
    <3>1. CASE Rewarded' \subseteq Rewarded
      <4>1. Cardinality(Rewarded') <= Cardinality(Rewarded)
        BY <2>1, <3>1, FS_Subset
      <4> QED
        BY <1>2, <2>1, <4>1, FS_CardinalityType, RewardConstants DEF Room
    <3>2. ASSUME NEW k \in Calls, call[k].at = "reward", Rewarded' \subseteq Rewarded \cup {call[k].of}
          PROVE  Cardinality(Rewarded') <= MaxRewards
      <4> DEFINE R == Rewarded \ {call[k].of}
      <4>1. IsFiniteSet(R) /\ Cardinality(R) \in Nat /\ Cardinality(R) < MaxRewards
        BY <1>2, <2>1, <3>2, FS_Subset, FS_CardinalityType DEF Room
      <4>2. /\ IsFiniteSet(R \cup {call[k].of})
            /\ Cardinality(R \cup {call[k].of}) = Cardinality(R) + 1
        <5>1. call[k].of \notin R
          OBVIOUS
        <5> HIDE DEF R
        <5> QED
          BY <4>1, <5>1, FS_AddElement
      <4>3. Rewarded' \subseteq R \cup {call[k].of}
        BY <3>2
      <4>4. Cardinality(Rewarded') <= Cardinality(R \cup {call[k].of})
        BY <4>2, <4>3, FS_Subset
      <4> HIDE DEF R
      <4> QED
        BY <2>1, <4>1, <4>2, <4>4, FS_CardinalityType, RewardConstants
    <3> QED
      BY <1>1, <3>1, <3>2 DEF Grants
  <2> QED
    BY <2>2, <2>3 DEF Room
<1>7. Dates'
  <2> USE DEF RewardMonths
  <2>1. CASE pushes' = pushes /\ inviter'.until = inviter.until
    <3>1. /\ IsFiniteSet(pushes') /\ inviter'.until = 2 * Cardinality(pushes')
          /\ \A p \in pushes' : p[2] \in Nat /\ p[2] <= inviter'.until
      BY <1>2, <2>1 DEF Dates
    <3>2. ASSUME NEW k \in Calls, call'[k].at = "push"
          PROVE  Key(k)' \in pushes' \/ call'[k].until = inviter'.until + 2
      BY <1>2, <1>1, <2>1, <3>2 DEF Dates, Pays, Key
    <3>3. ASSUME NEW k \in Calls, call'[k].at \in {"reward", "label"} PROVE Key(k)' \in pushes'
      BY <1>2, <1>1, <2>1, <3>3 DEF Dates, Pays, Key
    <3>4. label' <= inviter'.until
      <4>1. ASSUME NEW k \in Calls, call[k].at = "label" PROVE call[k].until <= inviter.until
        BY <1>2, <4>1 DEF Dates, Key
      <4> QED
        BY <1>2, <1>1, <2>1, <4>1 DEF Dates, Grants
    <3> QED
      BY <3>1, <3>2, <3>3, <3>4 DEF Dates
  <2>2. ASSUME NEW c \in Calls, call[c].at = "push", Key(c) \notin pushes,
               pushes' = pushes \cup {Key(c)}, inviter'.until = call[c].until
        PROVE  Dates'
    <3>1. call[c].until = inviter.until + 2 /\ call[c].until \in Nat
      BY <1>2, <1>3, <2>2 DEF Dates, CallRecord
    <3>2. IsFiniteSet(pushes') /\ inviter'.until = 2 * Cardinality(pushes')
      <4>1. IsFiniteSet(pushes') /\ Cardinality(pushes') = Cardinality(pushes) + 1
        BY <1>2, <2>2, FS_AddElement DEF Dates
      <4>2. Cardinality(pushes) \in Nat /\ inviter.until = 2 * Cardinality(pushes)
        BY <1>2, FS_CardinalityType DEF Dates
      <4> QED
        BY <2>2, <3>1, <4>1, <4>2
    <3>3. ASSUME NEW p \in pushes' PROVE p[2] \in Nat /\ p[2] <= inviter'.until
      <4>1. CASE p \in pushes
        BY <1>2, <1>3, <2>2, <3>1, <4>1 DEF Dates
      <4>2. CASE p = Key(c)
        BY <2>2, <3>1, <4>2 DEF Key
      <4> QED
        BY <2>2, <4>1, <4>2
    <3>4. ASSUME NEW k \in Calls, call'[k].at = "push" PROVE Key(k)' \in pushes'
      <4>1. pushes' # pushes
        BY <2>2
      <4>2. /\ call[k].at = "push" /\ call'[k].until = call[k].until /\ call'[k].of = call[k].of
        BY <1>1, <3>4, <4>1 DEF Pays
      <4>3. Key(k)' = Key(k)
        BY <4>2 DEF Key
      <4>4. CASE Key(k) \in pushes
        BY <2>2, <4>3, <4>4
      <4>5. CASE call[k].until = inviter.until + 2
        <5>1. call[k].of = call[c].of
          BY <1>5, <2>2, <4>2
        <5> QED
          BY <2>2, <3>1, <4>3, <4>5, <5>1 DEF Key
      <4> QED
        BY <1>2, <4>2, <4>4, <4>5 DEF Dates
    <3>5. ASSUME NEW k \in Calls, call'[k].at \in {"reward", "label"} PROVE Key(k)' \in pushes'
      BY <1>2, <1>1, <2>2, <3>5 DEF Dates, Pays, Key
    <3>6. label' <= inviter'.until
      <4>1. ASSUME NEW k \in Calls, call[k].at = "label" PROVE call[k].until <= inviter.until
        BY <1>2, <4>1 DEF Dates, Key
      <4>2. label' <= inviter.until /\ label' \in Nat
        BY <1>2, <1>1, <1>3, <4>1 DEF Dates, Grants, CallRecord
      <4> QED
        BY <1>3, <2>2, <3>1, <4>2
    <3> QED
      BY <3>2, <3>3, <3>4, <3>5, <3>6 DEF Dates
  <2> QED
    BY <1>1, <2>1, <2>2 DEF Grants
<1> QED
  BY <1>4, <1>6, <1>7

\* Where payments do not overlap, each adds its two months to those before it and the rewards
\* stay within the ceiling, for any number of invitees, retries and deaths; calls about the
\* same invitee may race.
THEOREM AlwaysWithinTerms == RewardSpec => []WithinTerms
<1>1. TermsInv => WithinTerms
  BY DEF TermsInv, Room, Dates, WithinTerms, Rewarded
<1> QED
  BY <1>1, TermsInit, TermsNext, BaseInvariant, PTL DEF RewardSpec
=============================================================================
