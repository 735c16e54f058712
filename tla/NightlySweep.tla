---------------------------- MODULE NightlySweep ----------------------------
(***************************************************************************)
(* The reconciliation sweep of 04:00 (runReconciliationSweep), which looks *)
(* in every shop for paid orders without a document and re-emits them.     *)
(*                                                                         *)
(* One invocation serves the whole fleet under one wall-clock budget, a    *)
(* shop at most a capped batch of orders, and only orders of the last      *)
(* Window days.  What it does not get to must come back another night or   *)
(* reach a human: sweep_state remembers when each shop was last seen in    *)
(* full, the shops are served in that order, and one that has waited too   *)
(* long raises an incident.                                                *)
(*                                                                         *)
(* What adminCreateOrder does with one order (its claim, its search by     *)
(* reference) is one attempt here.  Time is counted in orders' worth.      *)
(***************************************************************************)
EXTENDS Integers, FiniteSets, SequencesExt

CONSTANTS
    Shops,         \* active Shopify shops on InvoiceXpress
    Orders,        \* paid orders that went missing, as reusable slots
    Window,        \* RECON_SWEEP_DAYS: nights on which an order is looked at
    StaleNights,   \* RECON_SWEEP_STALE_HOURS, in nights
    Cap,           \* RECON_SWEEP_MAX_ORDERS: orders of one shop in one night
    NightBudget,   \* RECON_SWEEP_BUDGET_MS
    DefaultBudget, \* what processOrders takes when it is given no budget
    MaxMishaps     \* bound on failed D1 calls and on nights that die

ASSUME SweepConstants ==
    /\ IsFiniteSet(Shops) /\ IsFiniteSet(Orders)
    /\ {Window, Cap, NightBudget, DefaultBudget} \subseteq Nat \ {0}
    /\ StaleNights \in 1..Window - 1
    /\ MaxMishaps \in Nat

VARIABLES
    sale,      \* each order: missing or not, its shop, nights it was looked at, and
               \* whether an incident on the shop, or another emitter, answers for it
    gated,     \* shops the subscription gate refuses
    line,      \* the shops by last_completed_at, oldest first
    since,     \* nights since last_completed_at; beyond StaleNights, long or never
    status,    \* last_status of each shop
    phase,     \* where the invocation stands
    todo,      \* shops it has still to visit
    left,      \* what remains of its budget, below zero once overrun
    pass,      \* the create pass under way in the first of them
    mishaps,   \* what went wrong so far
    excused    \* orders that something going wrong hid from the reports

sweepVars == <<sale, gated, line, since, status, phase, todo, left, pass, mishaps, excused>>

LongAgo == StaleNights + 1
NoSale  == [shop |-> "none", age |-> 0, known |-> FALSE]
NoPass  == [orders |-> {}, budget |-> 0, deferred |-> FALSE, errors |-> FALSE]

SweepInit ==
    /\ sale = [o \in Orders |-> NoSale]
    /\ gated = {}
    /\ line = SetToSeq(Shops)
    /\ since = [s \in Shops |-> LongAgo]
    /\ status = [s \in Shops |-> "none"]
    /\ phase = "idle" /\ todo = <<>> /\ left = NightBudget /\ pass = NoPass
    /\ mishaps = 0 /\ excused = {}

here == Head(todo)

\* Paid orders without a document that the window shows.
Missing    == {o \in Orders : sale[o] # NoSale}
MissingOf(shops) == {o \in Missing : sale[o].shop \in shops}
LastNight  == {o \in Missing : sale[o].age = Window}
Known(os)  == [o \in Orders |-> IF o \in os THEN [sale[o] EXCEPT !.known = TRUE] ELSE sale[o]]

ill    == <<mishaps, excused>>
Smooth == UNCHANGED ill
MishapFor(os) == mishaps < MaxMishaps /\ mishaps' = mishaps + 1 /\ excused' = excused \cup os
Mishap == MishapFor(LastNight)

run   == <<line, since, status>>
fleet == <<sale, gated>>

-----------------------------------------------------------------------------
(* Between nights.                                                         *)

\* A shop takes a paid order, and its webhook comes to nothing.
Drop(o) ==
    /\ phase = "idle" /\ o \notin Missing
    /\ \E s \in Shops : sale' = [sale EXCEPT ![o] = [shop |-> s, age |-> 0, known |-> FALSE]]
    /\ excused' = excused \ {o}
    /\ UNCHANGED <<gated, run, phase, todo, left, pass, mishaps>>

Subscribe(s) ==
    /\ phase = "idle"
    /\ gated' = IF s \in gated THEN gated \ {s} ELSE gated \cup {s}
    /\ UNCHANGED <<sale, run, phase, todo, left, pass, ill>>

\* Faulty: an order never leaves the window.
OlderForever(o) == IF o \in Missing THEN [sale[o] EXCEPT !.age = @ + 1] ELSE sale[o]

\* The window moves a day on.
Older(o) == IF o \in Missing /\ sale[o].age < Window THEN [sale[o] EXCEPT !.age = @ + 1] ELSE NoSale

\* Faulty: the list keeps the order the database gives it.
ServeAsListed == SetToSeq(Shops)

\* orderByStaleness, which falls back on the list when sweep_state cannot be read.
Served == line

StartNight ==
    /\ phase = "idle" /\ phase' = "shops"
    /\ sale' = [o \in Orders |-> Older(o)]
    /\ since' = [s \in Shops |-> IF since[s] = LongAgo THEN LongAgo ELSE since[s] + 1]
    /\ \/ todo' = Served /\ Smooth
       \/ todo' = SetToSeq(Shops) /\ MishapFor({})
    /\ UNCHANGED <<gated, line, status, left, pass>>

-----------------------------------------------------------------------------
(* One shop.                                                               *)

\* Faulty: a capped pass counts as a full one.
CompletesAnyPass(verdict) == verdict \in {"ok", "error", "partial"}

\* countsAsCompletion.
Completes(verdict) == verdict \in {"ok", "error"}

\* markSweep, whose failure is swallowed.
Marked(s, verdict) ==
    /\ status' = [status EXCEPT ![s] = verdict]
    /\ IF Completes(verdict)
       THEN /\ since' = [since EXCEPT ![s] = 0]
            /\ \E i \in DOMAIN line : line[i] = s /\ line' = Append(RemoveAt(line, i), s)
       ELSE UNCHANGED <<since, line>>

Mark(s, verdict) == \/ Marked(s, verdict) /\ Smooth
                    \/ UNCHANGED run /\ Mishap

\* The budget is spent: whoever is left is skipped, and marked so.
SkipRest ==
    /\ phase = "shops" /\ todo # <<>> /\ left < 0
    /\ \E unmarked \in SUBSET Range(todo) :
        /\ IF unmarked = {} THEN Smooth ELSE Mishap
        /\ status' = [s \in Shops |-> IF s \notin Range(todo) \ unmarked THEN status[s]
                                      ELSE IF s \in gated THEN "gated" ELSE "skipped"]
    /\ phase' = "report" /\ todo' = <<>>
    /\ UNCHANGED <<fleet, line, since, left, pass>>

\* loadConfig finds nothing when D1 fails.
Unreadable ==
    /\ phase = "shops" /\ todo # <<>> /\ left >= 0
    /\ Mishap
    /\ todo' = Tail(todo)
    /\ UNCHANGED <<fleet, run, phase, left, pass>>

Refuse ==
    /\ phase = "shops" /\ todo # <<>> /\ left >= 0 /\ here \in gated
    /\ Mark(here, "gated")
    /\ todo' = Tail(todo)
    /\ UNCHANGED <<fleet, phase, left, pass>>

\* A budget of zero is no budget to processOrders, which then takes its own.
PassBudget(remaining) == IF remaining > 0 THEN remaining ELSE DefaultBudget

\* As many orders as the cap allows, in the order Shopify lists them.
Batches(os) == {b \in SUBSET os : Cardinality(b) = IF Cardinality(os) > Cap THEN Cap ELSE Cardinality(os)}

\* The configuration and the gate take time; fetching the orders may fail.
Visit ==
    /\ phase = "shops" /\ todo # <<>> /\ left >= 0 /\ here \notin gated
    /\ \E spent \in 0..1 :
        /\ left' = left - spent
        /\ \/ /\ phase' = "create"
              /\ \E b \in Batches(MissingOf({here})) :
                    pass' = [orders |-> b, budget |-> PassBudget(left - spent),
                             deferred |-> b # MissingOf({here}), errors |-> FALSE]
           \/ phase' = "mark" /\ pass' = [NoPass EXCEPT !.errors = TRUE]
    /\ UNCHANGED <<fleet, run, todo, ill>>

PassOver == pass.budget < 0

\* One order: its document (issued now or found), a skip while another emitter holds
\* its claim, or an error; a document may still follow when a deadline ended it.
Attempt(o) ==
    /\ phase = "create" /\ o \in pass.orders /\ ~PassOver
    /\ \E outcome \in {"billed", "skipped", "error", "late"} :
        /\ sale' = CASE outcome \in {"billed", "late"} -> [sale EXCEPT ![o] = NoSale]
                     [] outcome = "skipped" -> Known({o})
                     [] outcome = "error" -> sale
        /\ pass' = [pass EXCEPT !.orders = @ \ {o}, !.budget = @ - 1,
                                !.errors = @ \/ outcome \in {"error", "late"}]
    /\ left' = left - 1
    /\ UNCHANGED <<gated, run, phase, todo, ill>>

\* The pass ends; the finalize pass runs on what is left, for shops that want it.
EndPass ==
    /\ phase = "create" /\ phase' = "mark"
    /\ pass.orders = {} \/ PassOver
    /\ \E failed \in BOOLEAN, spent \in 0..1 :
        /\ failed \/ spent > 0 => left > 0
        /\ left' = left - spent
        /\ pass' = [pass EXCEPT !.deferred = @ \/ pass.orders # {}, !.errors = @ \/ failed]
    /\ UNCHANGED <<fleet, run, todo, ill>>

\* Errors raise an incident on the shop.
RaisesIncident == pass.errors

\* sweepStatusFor: errors outrank what the cap left over.
Verdict == IF pass.errors THEN "error" ELSE IF pass.deferred THEN "partial" ELSE "ok"

Close ==
    /\ phase = "mark" /\ phase' = "shops"
    /\ \/ sale' = (IF RaisesIncident THEN Known(MissingOf({here})) ELSE sale) /\ Mark(here, Verdict)
       \/ RaisesIncident /\ UNCHANGED sale /\ Marked(here, Verdict)
          /\ MishapFor(MissingOf({here}))
    /\ todo' = Tail(todo) /\ pass' = NoPass
    /\ UNCHANGED <<gated, left>>

-----------------------------------------------------------------------------
(* The end of the night.                                                   *)

\* isStarved.
Starved(s, nights) == status[s] # "gated" /\ since[s] >= nights

\* reportStarvedShops; the cutoff falls within the night that is StaleNights back.
Report ==
    /\ phase \in {"shops", "report"} /\ todo = <<>>
    /\ phase' = "idle" /\ left' = NightBudget
    /\ \/ /\ Smooth
          /\ \E alerted \in SUBSET {s \in Shops : Starved(s, StaleNights)} :
                /\ \A s \in Shops : Starved(s, LongAgo) => s \in alerted
                /\ sale' = Known(MissingOf(alerted))
       \/ Mishap /\ UNCHANGED sale
    /\ UNCHANGED <<gated, run, todo, pass>>

\* The invocation is killed, and nothing takes it up before tomorrow.
Die ==
    /\ phase # "idle" /\ phase' = "idle"
    /\ Mishap
    /\ todo' = <<>> /\ pass' = NoPass /\ left' = NightBudget
    /\ UNCHANGED <<fleet, run>>

Invocation == StartNight \/ SkipRest \/ Unreadable \/ Refuse \/ Visit \/ (\E o \in Orders : Attempt(o))
              \/ EndPass \/ Close \/ Report

SweepNext == Invocation \/ Die \/ (\E o \in Orders : Drop(o)) \/ (\E s \in Shops : Subscribe(s))

SweepSpec == SweepInit /\ [][SweepNext]_sweepVars

\* The cron comes every night, and an invocation that is not killed goes on.
SweepFairness == WF_sweepVars(Invocation)

-----------------------------------------------------------------------------
(* Properties.                                                             *)

\* Every variable keeps to its type; the line is the shops in some order, and a
\* night overruns its budget by what one pass of one shop may take at most.
SweepTypeOK ==
    /\ sale \in [Orders -> [shop : Shops, age : 0..Window, known : BOOLEAN] \cup {NoSale}]
    /\ gated \subseteq Shops
    /\ Range(line) = Shops /\ Len(line) = Cardinality(Shops)
    /\ since \in [Shops -> 0..LongAgo]
    /\ status \in [Shops -> {"none", "ok", "error", "partial", "skipped", "gated"}]
    /\ phase \in {"idle", "shops", "create", "mark", "report"}
    /\ Range(todo) \subseteq Shops
    /\ left \in -(DefaultBudget + 2)..NightBudget
    /\ pass \in [orders : SUBSET Orders, budget : -1..NightBudget + DefaultBudget,
                 deferred : BOOLEAN, errors : BOOLEAN]
    /\ mishaps \in 0..MaxMishaps /\ excused \subseteq Orders

\* A paid order whose last night in the window is over, and which has no document,
\* has had an incident raised on its shop or another emitter at work on it, unless
\* the gate refuses the shop, its last night failed or was cut short, or the incident
\* was lost: a shop that never finishes is reported while the orders it never got to
\* can still be seen.
LeftBehindIsKnown ==
    phase = "idle" =>
        \A o \in Missing : sale[o].age = Window =>
            sale[o].known \/ o \in excused \/ status[sale[o].shop] = "gated"

\* As long as the nights come and no shop leaves orders over any more, every shop
\* that pays is seen in full again and again, however the budget runs out.
BudgetRotates ==
    []<>(phase = "shops") /\ <>[](\A s \in Shops : status[s] # "partial")
        => \A s \in Shops : []<>(since[s] = 0 \/ s \in gated)
=============================================================================
