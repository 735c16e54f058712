--------------------------- MODULE ReferralRewards ---------------------------
(***************************************************************************)
(* The reward of whoever invited a client: two months pushed onto the      *)
(* Stripe subscription of one inviter for each invitee who subscribes.     *)
(*                                                                         *)
(* An invitee's row is claimed once, the rewards are counted, Stripe is    *)
(* asked how long the inviter's subscription runs and told to run it two   *)
(* months longer, and the row is written.  Nothing holds these steps       *)
(* together: Stripe delivers its events side by side and again, an         *)
(* administrator retries and voids by hand, and any call may be the last   *)
(* an invocation makes.                                                    *)
(*                                                                         *)
(* Dates are months from the end of the period the inviter has paid for.   *)
(***************************************************************************)
EXTENDS Integers, FiniteSets

CONSTANTS
    Invitees,    \* accounts one inviter's link brought
    Calls,       \* invocations of the webhook or of the admin route
    Nobody,      \* the invitee of a call that has ended
    MaxRewards,  \* MAX_REWARDS: rewards the terms allow an inviter
    MaxClicks,   \* bound on what the administrator does
    MaxMishaps,  \* bound on calls that fail and invocations that die
    RetryRaces   \* a retry overlaps another call about the same invitee

ASSUME RewardConstants ==
    /\ IsFiniteSet(Invitees) /\ Nobody \notin Invitees
    /\ {MaxRewards, MaxClicks, MaxMishaps} \subseteq Nat
    /\ RetryRaces \in BOOLEAN

VARIABLES
    referral,   \* the state of each invitee's row
    named,      \* invitees whose row names their subscription
    rewardedAt, \* invitees whose row says when it was rewarded
    checkout,   \* what the invitee's Checkout was opened as
    due,        \* invitees whose customer.subscription.created Stripe still delivers
    filed,      \* invitees whose subscription is in the database
    recorded,   \* invitees whose event is in billing_events
    inviter,    \* the inviter's subscription at Stripe, and its trial_end
    pushes,     \* what Stripe did, by idempotency key: the invitee and the date
    label,      \* subscriptions.reward_until
    call,       \* the invocations under way
    alike,      \* invitees outside the campaign, or of the inviter's own company
    together,   \* events of two invitees are handled side by side
    missed,     \* invitees whose push nobody could record
    dropped,    \* invitees whose event was answered 200 although the database refused it
    clicks, mishaps

stripe     == <<due, inviter, pushes>>
database   == <<referral, named, rewardedAt, filed, recorded, label>>
occasions  == <<alike, together>>
rewardVars == <<database, stripe, checkout, call, occasions, missed, dropped, clicks, mishaps>>

RewardMonths == 2
NoCall == [at |-> "idle", of |-> Nobody, by |-> "event", until |-> 0]

RewardInit ==
    /\ referral = [i \in Invitees |-> "none"] /\ named = {}
    /\ rewardedAt = {} /\ filed = {} /\ recorded = {} /\ due = {}
    /\ checkout = [i \in Invitees |-> "none"]
    /\ inviter = [status |-> "live", until |-> 0]
    /\ pushes = {} /\ label = 0
    /\ call = [k \in Calls |-> NoCall]
    /\ alike \in SUBSET Invitees /\ together \in BOOLEAN
    /\ missed = {} /\ dropped = {} /\ clicks = 0 /\ mishaps = 0

About(i) == {k \in Calls : call[k].of = i}
Mishap   == mishaps < MaxMishaps /\ mishaps' = mishaps + 1
Click    == clicks < MaxClicks /\ clicks' = clicks + 1

\* Who may be served beside whom.
MayBegin(k, i, by) ==
    /\ call[k] = NoCall
    /\ together \/ \A c \in Calls : call[c].of \in {i, Nobody}
    /\ RetryRaces \/ \A c \in About(i) : by = "event" /\ call[c].by = "event"

Go(k, at) == call' = [call EXCEPT ![k].at = at]
\* What follows rewardInviter: the event is recorded, the administrator is answered.
Conclude(k) == call' = IF call[k].by = "event" THEN [call EXCEPT ![k].at = "record"]
                       ELSE [call EXCEPT ![k] = NoCall]

-----------------------------------------------------------------------------
(* The invitee.                                                            *)

\* The link is claimed by an account that, as far as the database knows, never subscribed.
ClaimLink(i) ==
    /\ referral[i] = "none" /\ i \notin filed
    /\ referral' = [referral EXCEPT ![i] = "pending"]
    /\ UNCHANGED <<named, rewardedAt, filed, recorded, label, stripe, checkout, call, occasions, missed, dropped, clicks, mishaps>>

\* A trial for whoever has a pending row, while the campaign is open and the row can be read.
OpenCheckout(i) ==
    /\ checkout[i] = "none"
    /\ \E role \in {"plain", "trial"} :
          /\ role = "trial" => referral[i] = "pending"
          /\ checkout' = [checkout EXCEPT ![i] = role]
    /\ UNCHANGED <<database, stripe, call, occasions, missed, dropped, clicks, mishaps>>

Subscribe(i) ==
    /\ checkout[i] \in {"trial", "plain"}
    /\ checkout' = [checkout EXCEPT ![i] = IF @ = "trial" THEN "trialing" ELSE "paying"]
    /\ due' = due \cup {i}
    /\ UNCHANGED <<database, inviter, pushes, call, occasions, missed, dropped, clicks, mishaps>>

-----------------------------------------------------------------------------
(* The webhook around rewardInviter.                                       *)

\* The role the Checkout wrote on the subscription.
OpenedAsReferral(i) == checkout[i] = "trialing"

\* Faulty: the event is recorded before it is worked on, as an invoice's is.
RecordedFirst(i) == recorded \cup {i}

\* Billing_events is written when all is done.
RecordedSoFar(i) == recorded

\* The duplicate check, the subscription's row, and the question whose trial it is.
Deliver(k, i) ==
    /\ i \in due /\ MayBegin(k, i, "event")
    /\ IF i \in recorded
       THEN due' = due \ {i} /\ UNCHANGED <<filed, recorded, call>>
       ELSE /\ filed' = filed \cup {i} /\ recorded' = RecordedSoFar(i) /\ UNCHANGED due
            /\ call' = [call EXCEPT ![k] = [NoCall EXCEPT
                   !.of = i, !.at = IF OpenedAsReferral(i) THEN "claim" ELSE "record"]]
    /\ UNCHANGED <<referral, named, rewardedAt, label, inviter, pushes, checkout, occasions, missed, dropped, clicks, mishaps>>

\* The upsert is refused: the handler answers 200 and Stripe does not come back.
DeliverInVain(k, i) ==
    /\ i \in due \ recorded /\ MayBegin(k, i, "event") /\ Mishap
    /\ due' = due \ {i} /\ dropped' = dropped \cup {i}
    /\ UNCHANGED <<database, inviter, pushes, checkout, call, occasions, missed, clicks>>

\* Billing_events last, then the answer, which may not be given any more.  A refused insert
\* is answered 200 as well.
Record(k) ==
    /\ call[k].at = "record"
    /\ LET i == call[k].of IN
       \/ recorded' = recorded \cup {i} /\ due' = due \ {i} /\ UNCHANGED mishaps
       \/ Mishap /\ recorded' = recorded \cup {i} /\ UNCHANGED due
       \/ Mishap /\ UNCHANGED recorded /\ due' = due \ {i}
    /\ call' = [call EXCEPT ![k] = NoCall]
    /\ UNCHANGED <<referral, named, rewardedAt, filed, label, inviter, pushes, checkout, occasions, missed, dropped, clicks>>

-----------------------------------------------------------------------------
(* rewardInviter.                                                          *)

\* Faulty: a row somebody is already paying is claimed again.
StillOwed(i) == referral[i] \in {"pending", "subscribed"}

Claimable(i) == referral[i] = "pending"

ClaimReward(k) ==
    /\ call[k].at = "claim"
    /\ IF Claimable(call[k].of)
       THEN /\ referral' = [referral EXCEPT ![call[k].of] = "subscribed"]
            /\ named' = named \cup {call[k].of}
            /\ Go(k, "count")
       ELSE Conclude(k) /\ UNCHANGED <<referral, named>>
    /\ UNCHANGED <<rewardedAt, filed, recorded, label, stripe, checkout, occasions, missed, dropped, clicks, mishaps>>

\* The UPDATE throws; for an event the error is logged and the event recorded.
ClaimFails(k) ==
    /\ call[k].at = "claim" /\ Mishap /\ Conclude(k)
    /\ dropped' = dropped \cup {call[k].of}
    /\ UNCHANGED <<database, stripe, checkout, occasions, missed, clicks>>

\* The campaign, the ceiling and the fiscal numbers: what is refused is void.
CountRewards(k) ==
    /\ call[k].at = "count"
    /\ IF /\ call[k].of \notin alike
          /\ Cardinality({i \in Invitees : referral[i] = "rewarded"}) < MaxRewards
       THEN Go(k, "look") ELSE Go(k, "void")
    /\ UNCHANGED <<database, stripe, checkout, occasions, missed, dropped, clicks, mishaps>>

\* Faulty: the months are counted from the period the client paid for.
FromPeriod(until) == 0

\* periodEndOf: the trial_end in force, when it is later than the period.
PeriodEnd(until) == until

\* The inviter's subscription, in the database and at Stripe, if both can be read.
Retrieve(k) ==
    /\ call[k].at = "look"
    /\ \/ /\ inviter.status = "live"
          /\ call' = [call EXCEPT ![k].at = "push", ![k].until = PeriodEnd(inviter.until) + RewardMonths]
          /\ UNCHANGED mishaps
       \/ inviter.status # "live" /\ Go(k, "note") /\ UNCHANGED mishaps
       \/ Mishap /\ Go(k, "note")
    /\ UNCHANGED <<database, stripe, checkout, occasions, missed, dropped, clicks>>

Key(k) == <<call[k].of, call[k].until>>

\* Stripe answers a key it has seen with what it did then.
Accept(k) ==
    /\ inviter.status # "gone"
    /\ inviter' = IF Key(k) \in pushes THEN inviter ELSE [inviter EXCEPT !.until = call[k].until]
    /\ pushes' = pushes \cup {Key(k)}

Push(k) ==
    /\ call[k].at = "push"
    /\ Accept(k) /\ Go(k, "reward")
    /\ UNCHANGED <<database, due, checkout, occasions, missed, dropped, clicks, mishaps>>

\* Stripe refuses, or accepts and the answer is lost.
PushFails(k) ==
    /\ call[k].at = "push" /\ Go(k, "note")
    /\ \/ inviter.status = "gone" /\ UNCHANGED <<inviter, pushes, missed, mishaps>>
       \/ Mishap /\ UNCHANGED <<inviter, pushes, missed>>
       \/ Mishap /\ Accept(k) /\ missed' = missed \cup {call[k].of}
    /\ UNCHANGED <<database, due, checkout, occasions, dropped, clicks>>

\* Writes the row unless it was rewarded before.
WriteReward(k) ==
    /\ call[k].at = "reward"
    /\ LET i == call[k].of IN
       IF i \in rewardedAt THEN UNCHANGED <<referral, rewardedAt>>
       ELSE /\ referral' = [referral EXCEPT ![i] = "rewarded"]
            /\ rewardedAt' = rewardedAt \cup {i}
    /\ Go(k, "label")
    /\ UNCHANGED <<named, filed, recorded, label, stripe, checkout, occasions, missed, dropped, clicks, mishaps>>

WriteFails(k) ==
    /\ call[k].at = "reward" /\ Mishap
    /\ missed' = missed \cup {call[k].of}
    /\ Go(k, "note")
    /\ UNCHANGED <<database, stripe, checkout, occasions, dropped, clicks>>

WriteLabel(k) ==
    /\ call[k].at = "label"
    /\ \/ label' = call[k].until /\ Conclude(k) /\ UNCHANGED mishaps
       \/ Mishap /\ Go(k, "note") /\ UNCHANGED label
    /\ UNCHANGED <<referral, named, rewardedAt, filed, recorded, stripe, checkout, occasions, missed, dropped, clicks>>

\* park: a refusal voids the row; what may be paid later is left owed, with a note.
Park(k) ==
    /\ call[k].at \in {"void", "note"}
    /\ \/ /\ referral' = IF call[k].at = "void" /\ call[k].of \notin rewardedAt
                         THEN [referral EXCEPT ![call[k].of] = "void"] ELSE referral
          /\ UNCHANGED mishaps
       \/ Mishap /\ UNCHANGED referral
    /\ Conclude(k)
    /\ UNCHANGED <<named, rewardedAt, filed, recorded, label, stripe, checkout, occasions, missed, dropped, clicks>>

\* An invocation dies; Stripe delivers an event nobody answered again.
Die(k) ==
    /\ call[k] # NoCall /\ Mishap
    /\ missed' = IF call[k].at = "reward" THEN missed \cup {call[k].of} ELSE missed
    /\ call' = [call EXCEPT ![k] = NoCall]
    /\ UNCHANGED <<database, stripe, checkout, occasions, dropped, clicks>>

-----------------------------------------------------------------------------
(* The administrator, and the inviter.                                     *)

Retriable(i) == referral[i] # "rewarded" /\ i \in named

\* A retry reads the row, puts it back to pending whatever it is by then, and pays.
Retry(k, i) ==
    /\ Retriable(i) /\ MayBegin(k, i, "retry") /\ Click
    /\ call' = [call EXCEPT ![k] = [NoCall EXCEPT !.of = i, !.by = "retry", !.at = "reset"]]
    /\ UNCHANGED <<database, stripe, checkout, occasions, missed, dropped, mishaps>>

Reset(k) ==
    /\ call[k].at = "reset"
    /\ referral' = [referral EXCEPT ![call[k].of] = "pending"]
    /\ Go(k, "claim")
    /\ UNCHANGED <<named, rewardedAt, filed, recorded, label, stripe, checkout, occasions, missed, dropped, clicks, mishaps>>

Void(i) ==
    /\ referral[i] # "none" /\ Click
    /\ referral' = IF i \in rewardedAt THEN referral ELSE [referral EXCEPT ![i] = "void"]
    /\ UNCHANGED <<named, rewardedAt, filed, recorded, label, stripe, checkout, call, occasions, missed, dropped, mishaps>>

\* Cancelled at the end of its period, resumed, or over.
SubscriptionTurns ==
    /\ Mishap /\ inviter.status # "gone"
    /\ \E s \in {"live", "ending", "gone"} \ {inviter.status} : inviter' = [inviter EXCEPT !.status = s]
    /\ UNCHANGED <<database, due, pushes, checkout, call, occasions, missed, dropped, clicks>>

Paying(k) ==
    \/ Record(k) \/ ClaimReward(k) \/ ClaimFails(k) \/ CountRewards(k) \/ Retrieve(k)
    \/ Push(k) \/ PushFails(k) \/ WriteReward(k) \/ WriteFails(k) \/ WriteLabel(k) \/ Park(k)
    \/ Die(k) \/ Reset(k)

RewardNext ==
    \/ \E i \in Invitees :
          \/ ClaimLink(i) \/ OpenCheckout(i) \/ Subscribe(i) \/ Void(i)
          \/ \E k \in Calls : Deliver(k, i) \/ DeliverInVain(k, i) \/ Retry(k, i)
    \/ \E k \in Calls : Paying(k)
    \/ SubscriptionTurns

RewardSpec == RewardInit /\ [][RewardNext]_rewardVars

-----------------------------------------------------------------------------
(* Properties.                                                             *)

Steps == {"idle", "claim", "count", "look", "push", "reward", "label", "void", "note",
          "record", "reset"}
CallRecord == [at : Steps, of : Invitees \cup {Nobody}, by : {"event", "retry"}, until : Nat]

\* The types, and: a call that is under way is about somebody.
RewardTypeOK ==
    /\ referral \in [Invitees -> {"none", "pending", "subscribed", "rewarded", "void"}]
    /\ named \subseteq Invitees /\ rewardedAt \subseteq Invitees
    /\ filed \subseteq Invitees /\ recorded \subseteq Invitees
    /\ due \subseteq Invitees /\ alike \subseteq Invitees
    /\ missed \subseteq Invitees /\ dropped \subseteq Invitees
    /\ checkout \in [Invitees -> {"none", "trial", "plain", "trialing", "paying"}]
    /\ inviter \in [status : {"live", "ending", "gone"}, until : Nat]
    /\ pushes \subseteq Invitees \X Nat /\ label \in Nat
    /\ call \in [Calls -> CallRecord]
    /\ \A k \in Calls : call[k].at = "idle" <=> call[k].of = Nobody
    /\ together \in BOOLEAN /\ clicks \in Nat /\ mishaps \in Nat

\* The inviter is given the months of an invitee at most once, and only for one whose own
\* subscription is the referral trial (rewardInviter; referral_role in the webhook), however
\* often Stripe delivers the event, an administrator retries, and invocations die.  Excused:
\* an invitee whose push nobody could record, which the code knows it would push again.
PaidOnce ==
    \A p \in pushes : /\ checkout[p[1]] = "trialing"
                      /\ p[1] \in missed \/ \A q \in pushes : q[1] = p[1] => q = p

\* A reward that is owed is never out of reach: an invitee who subscribed on the referral
\* trial has a row that was decided or that an administrator can retry (it names the
\* subscription), or its event is still to come.  Excused: an event that is answered 200
\* although the database refused the subscription, or the claim of the row.
OwedIsWithinReach ==
    \A i \in Invitees : checkout[i] = "trialing" =>
        \/ referral[i] \in {"rewarded", "void"} \/ i \in named
        \/ i \in due \cup dropped

\* When no two payments overlap, the terms are kept: every payment adds its two months to
\* those before it, and no more rewards are recorded than the terms allow (rewardInviter).
WithinTerms ==
    ~together => /\ inviter.until = RewardMonths * Cardinality(pushes)
                 /\ Cardinality({i \in Invitees : referral[i] = "rewarded"}) <= MaxRewards
                 /\ label <= inviter.until
=============================================================================
