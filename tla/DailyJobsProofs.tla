--------------------------- MODULE DailyJobsProofs ---------------------------
(***************************************************************************)
(* The jobs of the daily crons.                                            *)
(*                                                                         *)
(* NightlySweep: LeftBehindIsKnown for any fleet, any orders and any       *)
(* bounds.  A shop that is not seen in full ages with the orders it is not *)
(* seen for (Ages): the incident of a starved shop comes, at the latest,   *)
(* when they are in the window for the last time.  A pass that counts as   *)
(* full has dealt with every order of its shop (Covers).                   *)
(* Its types too: a line of as many places as shops in which every shop is *)
(* found stays one (Lineups), and what a pass overspends is bounded by the *)
(* budget it takes for itself (Budgets).                                   *)
(*                                                                         *)
(* PendingReverseCharge: its types, DecidedIsInvoiced and                  *)
(* DecidedStaysDecided for any number of webhooks, crons and admins, with  *)
(* every failure and any number of invocations that die.  A webhook adds   *)
(* its attempt once (AttemptsBounded), and whoever is about to decide a    *)
(* row has a document to show for it (SubmittedIsInvoiced).                *)
(***************************************************************************)
EXTENDS PendingReverseCharge, NightlySweep, FiniteSetTheorems, SequenceTheorems, TLAPS

-----------------------------------------------------------------------------
(* The reconciliation sweep.                                               *)

Verdicts == {"none", "ok", "error", "partial", "skipped", "gated"}

Types ==
    /\ sale \in [Orders -> [shop : Shops, age : 0..Window, known : BOOLEAN] \cup {NoSale}]
    /\ since \in [Shops -> 0..LongAgo]
    /\ status \in [Shops -> Verdicts]
    /\ phase \in {"idle", "shops", "create", "mark", "report"}
    /\ left \in Int
    /\ pass \in [orders : SUBSET Orders, budget : Int, deferred : BOOLEAN, errors : BOOLEAN]

Answered(o) == sale[o].known \/ o \in excused

\* An order nobody answers for has been waiting no longer than its shop.
Ages ==
    \A o \in Missing : Answered(o) \/ since[sale[o].shop] >= sale[o].age \/ since[sale[o].shop] = LongAgo

\* What a pass of a shop leaves without an answer, it says so.
Covers ==
    phase \in {"create", "mark"} =>
        \A o \in MissingOf({here}) :
            \/ sale[o].known \/ pass.deferred \/ pass.errors
            \/ phase = "create" /\ o \in pass.orders

\* The orders of a pass stay missing until it takes them up.
Held == phase = "create" => pass.orders \subseteq Missing

SweepInv == Types /\ Ages /\ Covers /\ Held /\ LeftBehindIsKnown

\* The bounds are numbers, and a shop is stale before its orders leave the window.
LEMMA Bounds == Window \in Nat /\ Window > 0 /\ LongAgo \in Nat /\ LongAgo > 0 /\ LongAgo <= Window
BY SweepConstants DEF LongAgo

LEMMA SweepInvInit == SweepInit => SweepInv
<1> SUFFICES ASSUME SweepInit PROVE SweepInv
    OBVIOUS
<1> USE SweepConstants DEF SweepInit
<1>1. Types
      BY DEF Types, NoPass, LongAgo, Verdicts
<1>2. Missing = {}
      BY DEF Missing
<1>3. QED
      BY <1>1, <1>2 DEF SweepInv, Ages, Covers, Held, LeftBehindIsKnown

\* A missing order has its fields.
LEMMA MissingTyped ==
    ASSUME Types, NEW o \in Missing
    PROVE  /\ o \in Orders /\ sale[o].shop \in Shops /\ sale[o].age \in 0..Window
           /\ sale[o].known \in BOOLEAN
           /\ sale[o] = [shop |-> sale[o].shop, age |-> sale[o].age, known |-> sale[o].known]
BY DEF Types, Missing, NoSale

\* Known answers for the orders it is given and changes nothing else.
LEMMA KnownOrders ==
    ASSUME Types, NEW os \in SUBSET Missing, sale' = Known(os)
    PROVE  /\ sale' \in [Orders -> [shop : Shops, age : 0..Window, known : BOOLEAN] \cup {NoSale}]
           /\ Missing' = Missing
           /\ \A o \in Missing' : /\ sale'[o].shop = sale[o].shop /\ sale'[o].age = sale[o].age
                                  /\ sale[o].known \/ o \in os => sale'[o].known
<1>1. ASSUME NEW o \in os
      PROVE /\ o \in Orders
            /\ sale'[o].shop = sale[o].shop /\ sale'[o].age = sale[o].age /\ sale'[o].known
            /\ sale'[o] \in [shop : Shops, age : 0..Window, known : BOOLEAN]
  <2>1. o \in Missing /\ o \in Orders /\ sale[o].shop \in Shops /\ sale[o].age \in 0..Window
        BY <1>1, MissingTyped
  <2>2. sale'[o] = [sale[o] EXCEPT !.known = TRUE]
        BY <1>1, <2>1 DEF Known
  <2>3. sale[o] = [shop |-> sale[o].shop, age |-> sale[o].age, known |-> sale[o].known]
        BY <2>1, MissingTyped
  <2>4. sale'[o] = [shop |-> sale[o].shop, age |-> sale[o].age, known |-> TRUE]
        BY <2>2, <2>3
  <2>5. QED
        BY <2>1, <2>4
<1>2. ASSUME NEW o \in Orders \ os PROVE sale'[o] = sale[o]
      BY DEF Known
<1>3. Missing' = Missing
  <2>1. ASSUME NEW o \in os PROVE sale'[o] # NoSale
        BY <1>1 DEF NoSale
  <2>2. QED
        BY <1>2, <2>1 DEF Missing
<1>4. ASSUME NEW o \in Missing'
      PROVE  /\ sale'[o].shop = sale[o].shop /\ sale'[o].age = sale[o].age
             /\ sale[o].known \/ o \in os => sale'[o].known
  <2>1. CASE o \in os
        BY <2>1, <1>1
  <2>2. CASE o \notin os
        BY <2>2, <1>2 DEF Missing
  <2>3. QED
        BY <2>1, <2>2
<1>5. sale' \in [Orders -> [shop : Shops, age : 0..Window, known : BOOLEAN] \cup {NoSale}]
  <2>1. ASSUME NEW o \in Orders PROVE sale'[o] \in [shop : Shops, age : 0..Window, known : BOOLEAN] \cup {NoSale}
        BY <1>1, <1>2 DEF Types
  <2>2. QED
        BY <2>1 DEF Known
<1>6. QED
      BY <1>3, <1>4, <1>5

\* Nothing an order's answer rests on is taken away.
LEMMA AgesKept ==
    ASSUME Types, Ages, NEW os \in SUBSET Missing, sale' = sale \/ sale' = Known(os),
           since' = since, excused \subseteq excused'
    PROVE  Ages'
<1>1. /\ Missing' = Missing
      /\ \A o \in Missing' : /\ sale'[o].shop = sale[o].shop /\ sale'[o].age = sale[o].age
                             /\ sale[o].known => sale'[o].known
  <2>1. CASE sale' = sale
        BY <2>1 DEF Missing
  <2>2. CASE sale' = Known(os)
        BY <2>2, KnownOrders
  <2>3. QED
        BY <2>1, <2>2
<1>2. \A o \in Missing : Answered(o) => Answered(o)'
      BY <1>1 DEF Answered
<1>3. QED
      BY <1>1, <1>2 DEF Ages, LongAgo

\* Every failure but the loss of an order's slot adds to the excused.
LEMMA Excuses ==
    ASSUME Smooth \/ Mishap \/ (\E os : MishapFor(os))
    PROVE  excused \subseteq excused'
<1>1. CASE Smooth
      BY <1>1 DEF Smooth, ill
<1>2. CASE Mishap
      BY <1>2 DEF Mishap, MishapFor
<1>3. CASE \E os : MishapFor(os)
  <2>1. PICK os : MishapFor(os)
        BY <1>3
  <2>2. QED
        BY <2>1 DEF MishapFor
<1>4. QED
      BY <1>1, <1>2, <1>3

LEMMA DropStep == ASSUME SweepInv, NEW o \in Orders, Drop(o) PROVE SweepInv'
<1> USE DEF SweepInv
<1>2. PICK s \in Shops : sale' = [sale EXCEPT ![o] = [shop |-> s, age |-> 0, known |-> FALSE]]
      BY DEF Drop
<1>3. sale'[o] = [shop |-> s, age |-> 0, known |-> FALSE]
      BY <1>2 DEF Types
<1>4. \A x \in Orders \ {o} : sale'[x] = sale[x]
      BY <1>2 DEF Types
<1>5. Types'
  <2>1. \A x \in Orders : sale'[x] \in [shop : Shops, age : 0..Window, known : BOOLEAN] \cup {NoSale}
    <3>1. 0 \in 0..Window
          BY Bounds
    <3>2. sale'[o] \in [shop : Shops, age : 0..Window, known : BOOLEAN]
          BY <1>3, <3>1
    <3>3. QED
          BY <1>4, <3>2 DEF Types
  <2>2. sale' \in [Orders -> [shop : Shops, age : 0..Window, known : BOOLEAN] \cup {NoSale}]
        BY <2>1, <1>2 DEF Types
  <2>3. QED
        BY <2>2 DEF Types, Drop, run
<1>6. \A x \in Missing' \ {o} : x \in Missing /\ sale'[x] = sale[x] /\ (x \in excused => x \in excused')
      BY <1>4 DEF Missing, Drop
<1>7. Ages'
  <2>1. ASSUME NEW x \in Missing' \ {o}
        PROVE  Answered(x)' \/ since'[sale'[x].shop] >= sale'[x].age \/ since'[sale'[x].shop] = LongAgo
        BY <1>6 DEF Ages, Answered, Drop, run
  <2>2. since'[sale'[o].shop] >= sale'[o].age
        BY <1>3 DEF Types, Drop, run, LongAgo
  <2>3. QED
        BY <2>1, <2>2 DEF Ages, LongAgo
<1>8. Covers' /\ Held'
      BY DEF Covers, Held, Drop
<1>9. LeftBehindIsKnown'
  <2>1. sale'[o].age # Window
        BY <1>3, Bounds
  <2>2. QED
        BY <2>1, <1>6 DEF LeftBehindIsKnown, Drop, run
<1>10. QED
      BY <1>5, <1>7, <1>8, <1>9

LEMMA StartNightStep == ASSUME SweepInv, StartNight PROVE SweepInv'
<1> USE DEF SweepInv
<1>1. \A o \in Orders : sale'[o] = Older(o)
      BY DEF StartNight
<1>2. ASSUME NEW o \in Orders, Older(o) # NoSale
      PROVE  /\ o \in Missing
             /\ sale'[o] = [shop |-> sale[o].shop, age |-> sale[o].age + 1, known |-> sale[o].known]
             /\ sale[o].age + 1 \in 0..Window
  <2>1. o \in Missing /\ sale[o].age < Window /\ sale'[o] = [sale[o] EXCEPT !.age = @ + 1]
        BY <1>1, <1>2 DEF Older
  <2>2. /\ sale[o].shop \in Shops /\ sale[o].age \in 0..Window
        /\ sale[o] = [shop |-> sale[o].shop, age |-> sale[o].age, known |-> sale[o].known]
        BY <2>1, MissingTyped
  <2>3. sale'[o] = [shop |-> sale[o].shop, age |-> sale[o].age + 1, known |-> sale[o].known]
        BY <2>1, <2>2
  <2>4. QED
        BY <2>1, <2>2, <2>3, Bounds
<1>3. since' \in [Shops -> 0..LongAgo]
      BY Bounds DEF StartNight, Types
<1>4. Types'
  <2>1. ASSUME NEW o \in Orders
        PROVE  sale'[o] \in [shop : Shops, age : 0..Window, known : BOOLEAN] \cup {NoSale}
    <3>1. CASE Older(o) = NoSale
          BY <3>1, <1>1
    <3>2. CASE Older(o) # NoSale
      <4>1. o \in Missing /\ sale[o].shop \in Shops /\ sale[o].known \in BOOLEAN
            BY <3>2, <1>2, MissingTyped
      <4>2. sale'[o] = [shop |-> sale[o].shop, age |-> sale[o].age + 1, known |-> sale[o].known]
            BY <3>2, <1>2
      <4>3. sale[o].age + 1 \in 0..Window
            BY <3>2, <1>2
      <4>4. QED
            BY <4>1, <4>2, <4>3
    <3>3. QED
          BY <3>1, <3>2
  <2>2. sale' \in [Orders -> [shop : Shops, age : 0..Window, known : BOOLEAN] \cup {NoSale}]
        BY <2>1 DEF StartNight
  <2>3. QED
        BY <2>2, <1>3 DEF Types, StartNight
<1>5. excused \subseteq excused'
      BY Excuses DEF StartNight
<1>6. Ages'
  <2>1. SUFFICES ASSUME NEW o \in Missing'
                 PROVE  Answered(o)' \/ since'[sale'[o].shop] >= sale'[o].age \/ since'[sale'[o].shop] = LongAgo
        BY DEF Ages, LongAgo
  <2>2. o \in Orders /\ Older(o) # NoSale
        BY <2>1, <1>1 DEF Missing
  <2>3. /\ o \in Missing /\ sale'[o].shop = sale[o].shop /\ sale'[o].age = sale[o].age + 1
        /\ sale[o].known => sale'[o].known
    <3>1. sale'[o] = [shop |-> sale[o].shop, age |-> sale[o].age + 1, known |-> sale[o].known] /\ o \in Missing
          BY <2>2, <1>2
    <3>2. QED
          BY <3>1
  <2>4. sale[o].shop \in Shops /\ sale[o].age \in Nat
    <3>1. sale[o].shop \in Shops /\ sale[o].age \in 0..Window
          BY <2>3, MissingTyped
    <3>2. QED
          BY <3>1, Bounds
  <2>5. CASE Answered(o)
        BY <2>5, <2>3, <1>5 DEF Answered
  <2>6. CASE ~Answered(o)
    <3>1. since'[sale[o].shop] = IF since[sale[o].shop] = LongAgo THEN LongAgo ELSE since[sale[o].shop] + 1
          BY <2>4 DEF StartNight
    <3>2. since[sale[o].shop] \in Nat
          BY <2>4, Bounds DEF Types
    <3>3. QED
          BY <2>3, <2>4, <2>6, <3>1, <3>2 DEF Ages
  <2>7. QED
        BY <2>5, <2>6
<1>7. QED
      BY <1>4, <1>6 DEF Covers, Held, LeftBehindIsKnown, StartNight

\* The steps that change neither the orders nor the nights.
LEMMA QuietStep ==
    ASSUME SweepInv, sale' = sale, since' = since, excused \subseteq excused',
           Types', Covers', Held', LeftBehindIsKnown'
    PROVE  SweepInv'
<1>1. Ages'
  <2>1. {} \in SUBSET Missing
        OBVIOUS
  <2>2. QED
        BY <2>1, AgesKept DEF SweepInv
<1>2. QED
      BY <1>1 DEF SweepInv

LEMMA SubscribeStep == ASSUME SweepInv, NEW s \in Shops, Subscribe(s) PROVE SweepInv'
<1>1. sale' = sale /\ since' = since /\ status' = status /\ excused' = excused /\ phase = "idle" /\ phase' = "idle"
      BY DEF Subscribe, run, ill
<1>2. Types'
      BY <1>1 DEF SweepInv, Types, Subscribe, LongAgo
<1>3. Covers' /\ Held'
      BY <1>1 DEF Covers, Held
<1>4. LeftBehindIsKnown'
      BY <1>1 DEF SweepInv, LeftBehindIsKnown, Missing
<1>5. QED
      BY <1>1, <1>2, <1>3, <1>4, QuietStep

LEMMA SkipRestStep == ASSUME SweepInv, SkipRest PROVE SweepInv'
<1>1. sale' = sale /\ since' = since /\ phase' = "report"
      BY DEF SkipRest, fleet
<1>2. status' \in [Shops -> Verdicts]
  <2>1. PICK unmarked \in SUBSET Range(todo) :
            status' = [s \in Shops |-> IF s \notin Range(todo) \ unmarked THEN status[s]
                                      ELSE IF s \in gated THEN "gated" ELSE "skipped"]
        BY DEF SkipRest
  <2>2. QED
        BY <2>1 DEF SweepInv, Types, Verdicts
<1>3. excused \subseteq excused'
      BY Excuses DEF SkipRest
<1>4. Types'
      BY <1>1, <1>2 DEF SweepInv, Types, SkipRest, LongAgo
<1>5. Covers' /\ Held' /\ LeftBehindIsKnown'
      BY <1>1 DEF Covers, Held, LeftBehindIsKnown
<1>6. QED
      BY <1>1, <1>3, <1>4, <1>5, QuietStep

LEMMA UnreadableStep == ASSUME SweepInv, Unreadable PROVE SweepInv'
<1>1. sale' = sale /\ since' = since /\ phase' = "shops"
      BY DEF Unreadable, fleet, run
<1>2. Types'
      BY <1>1 DEF SweepInv, Types, Unreadable, run, LongAgo
<1>3. excused \subseteq excused'
      BY Excuses DEF Unreadable
<1>4. Covers' /\ Held' /\ LeftBehindIsKnown'
      BY <1>1 DEF Covers, Held, LeftBehindIsKnown
<1>5. QED
      BY <1>1, <1>2, <1>3, <1>4, QuietStep

\* What a mark does, whether it is written or lost.
LEMMA Marks ==
    ASSUME Types, NEW s, NEW verdict \in Verdicts, Marked(s, verdict) \/ UNCHANGED run
    PROVE  /\ status' \in [Shops -> Verdicts] /\ since' \in [Shops -> 0..LongAgo]
           /\ \A t \in Shops : since'[t] = since[t] \/ (t = s /\ Completes(verdict))
<1>1. CASE Marked(s, verdict)
  <2>1. status' \in [Shops -> Verdicts]
        BY <1>1 DEF Marked, Types
  <2>2. CASE Completes(verdict)
        BY <1>1, <2>1, <2>2, Bounds DEF Marked, Types
  <2>3. CASE ~Completes(verdict)
        BY <1>1, <2>1, <2>3 DEF Marked, Types
  <2>4. QED
        BY <2>2, <2>3
<1>2. CASE UNCHANGED run
      BY <1>2 DEF run, Types
<1>3. QED
      BY <1>1, <1>2

LEMMA RefuseStep == ASSUME SweepInv, Refuse PROVE SweepInv'
<1>1. sale' = sale /\ phase' = "shops" /\ excused \subseteq excused'
      BY Excuses DEF Refuse, fleet, Mark
<1>2. Marked(here, "gated") \/ UNCHANGED run
      BY DEF Refuse, Mark
<1>3. status' \in [Shops -> Verdicts] /\ since' = since
      BY <1>2, Marks DEF SweepInv, Types, Verdicts, Completes, Marked, run
<1>4. Types'
      BY <1>1, <1>3 DEF SweepInv, Types, Refuse, LongAgo
<1>5. Covers' /\ Held' /\ LeftBehindIsKnown'
      BY <1>1 DEF Covers, Held, LeftBehindIsKnown
<1>6. QED
      BY <1>1, <1>3, <1>4, <1>5, QuietStep

LEMMA VisitStep == ASSUME SweepInv, Visit PROVE SweepInv'
<1> USE DEF SweepInv
<1>1. /\ sale' = sale /\ since' = since /\ status' = status /\ excused' = excused
      /\ here' = here /\ phase' \in {"create", "mark"}
      BY DEF Visit, fleet, run, ill, here
<1>2. Missing' = Missing /\ MissingOf({here})' = MissingOf({here})
      BY <1>1 DEF Missing, MissingOf
<1>3. PICK spent \in 0..1 :
         /\ left' = left - spent
         /\ \/ /\ phase' = "create"
               /\ \E b \in Batches(MissingOf({here})) :
                     pass' = [orders |-> b, budget |-> PassBudget(left - spent),
                              deferred |-> b # MissingOf({here}), errors |-> FALSE]
            \/ phase' = "mark" /\ pass' = [NoPass EXCEPT !.errors = TRUE]
      BY DEF Visit
<1>4. left' \in Int
      BY <1>3 DEF Types
<1>5. CASE phase' = "create"
  <2>1. PICK b \in Batches(MissingOf({here})) :
            pass' = [orders |-> b, budget |-> PassBudget(left - spent),
                     deferred |-> b # MissingOf({here}), errors |-> FALSE]
        BY <1>3, <1>5
  <2>2. b \subseteq MissingOf({here}) /\ MissingOf({here}) \subseteq Missing /\ Missing \subseteq Orders
        BY <2>1 DEF Batches, MissingOf, Missing
  <2>3. PassBudget(left - spent) \in Int
        BY SweepConstants DEF PassBudget, Types
  <2>4. Types'
        BY <1>1, <1>4, <2>1, <2>2, <2>3 DEF Types, LongAgo
  <2>5. Covers' /\ Held'
        BY <1>1, <1>2, <1>5, <2>1, <2>2 DEF Covers, Held
  <2>6. QED
        BY <1>1, <1>5, <2>4, <2>5, QuietStep DEF LeftBehindIsKnown
<1>6. CASE phase' = "mark"
  <2>1. pass' = [orders |-> {}, budget |-> 0, deferred |-> FALSE, errors |-> TRUE]
        BY <1>3, <1>6 DEF NoPass
  <2>2. Types'
        BY <1>1, <1>4, <2>1 DEF Types, LongAgo
  <2>3. Covers' /\ Held'
        BY <1>1, <1>2, <1>6, <2>1 DEF Covers, Held
  <2>4. QED
        BY <1>1, <1>6, <2>2, <2>3, QuietStep DEF LeftBehindIsKnown
<1>7. QED
      BY <1>1, <1>5, <1>6

LEMMA AttemptStep == ASSUME SweepInv, NEW o \in Orders, Attempt(o) PROVE SweepInv'
<1> USE DEF SweepInv
<1>1. /\ phase = "create" /\ phase' = "create" /\ since' = since /\ status' = status
      /\ excused' = excused /\ here' = here /\ o \in pass.orders /\ o \in Missing
      BY DEF Attempt, run, ill, here, Held
<1>2. PICK outcome \in {"billed", "skipped", "error", "late"} :
        /\ sale' = CASE outcome \in {"billed", "late"} -> [sale EXCEPT ![o] = NoSale]
                     [] outcome = "skipped" -> Known({o})
                     [] outcome = "error" -> sale
        /\ pass' = [pass EXCEPT !.orders = @ \ {o}, !.budget = @ - 1,
                                !.errors = @ \/ outcome \in {"error", "late"}]
      BY DEF Attempt
<1>3. /\ pass'.orders = pass.orders \ {o} /\ pass'.deferred = pass.deferred
      /\ pass'.errors = (pass.errors \/ outcome \in {"error", "late"})
      /\ pass' \in [orders : SUBSET Orders, budget : Int, deferred : BOOLEAN, errors : BOOLEAN]
  <2> DEFINE erred == pass.errors \/ outcome \in {"error", "late"}
  <2>1. /\ erred \in BOOLEAN /\ pass.orders \ {o} \in SUBSET Orders /\ pass.budget - 1 \in Int
        /\ pass.deferred \in BOOLEAN
        BY DEF Types
  <2>2. pass' = [orders |-> pass.orders \ {o}, budget |-> pass.budget - 1, deferred |-> pass.deferred,
                 errors |-> erred]
        BY <1>2 DEF Types
  <2> HIDE DEF erred
  <2>3. pass'.orders = pass.orders \ {o} /\ pass'.deferred = pass.deferred /\ pass'.errors = erred
        BY <2>2
  <2>4. pass' \in [orders : SUBSET Orders, budget : Int, deferred : BOOLEAN, errors : BOOLEAN]
        BY <2>1, <2>2
  <2>5. QED
        BY <2>3, <2>4 DEF erred
<1>4. left' \in Int
      BY DEF Attempt, Types
<1>5. CASE outcome \in {"billed", "late"}
  <2>1. sale' = [sale EXCEPT ![o] = NoSale]
        BY <1>2, <1>5
  <2>2. /\ sale' \in [Orders -> [shop : Shops, age : 0..Window, known : BOOLEAN] \cup {NoSale}]
        /\ Missing' = Missing \ {o} /\ \A x \in Missing' : sale'[x] = sale[x]
        BY <2>1 DEF Types, Missing
  <2>3. Types'
        BY <1>1, <1>3, <1>4, <2>2 DEF Types, LongAgo
  <2>4. Ages'
        BY <1>1, <2>2 DEF Ages, Answered, LongAgo
  <2>5. Covers' /\ Held'
        BY <1>1, <1>3, <2>2 DEF Covers, Held, MissingOf
  <2>6. QED
        BY <1>1, <2>3, <2>4, <2>5 DEF LeftBehindIsKnown
<1>6. CASE outcome = "skipped"
  <2>1. sale' = Known({o}) /\ {o} \in SUBSET Missing
        BY <1>1, <1>2, <1>6
  <2>2. /\ sale' \in [Orders -> [shop : Shops, age : 0..Window, known : BOOLEAN] \cup {NoSale}]
        /\ Missing' = Missing
        /\ \A x \in Missing' : /\ sale'[x].shop = sale[x].shop
                               /\ sale[x].known \/ x = o => sale'[x].known
        BY <2>1, KnownOrders
  <2>3. Types'
        BY <1>1, <1>3, <1>4, <2>2 DEF Types, LongAgo
  <2>4. Ages'
        BY <1>1, <2>1, AgesKept
  <2>5. Covers' /\ Held'
        BY <1>1, <1>3, <2>2 DEF Covers, Held, MissingOf
  <2>6. QED
        BY <1>1, <2>3, <2>4, <2>5 DEF LeftBehindIsKnown
<1>7. CASE outcome = "error"
  <2>1. sale' = sale /\ pass'.errors
        BY <1>2, <1>3, <1>7
  <2>2. Types'
        BY <1>1, <1>3, <1>4, <2>1 DEF Types, LongAgo
  <2>3. Covers' /\ Held'
        BY <1>1, <1>3, <2>1 DEF Covers, Held, Missing
  <2>4. QED
        BY <1>1, <2>1, <2>2, <2>3, QuietStep DEF LeftBehindIsKnown
<1>8. QED
      BY <1>5, <1>6, <1>7

LEMMA EndPassStep == ASSUME SweepInv, EndPass PROVE SweepInv'
<1> USE DEF SweepInv
<1>1. /\ phase = "create" /\ phase' = "mark" /\ sale' = sale /\ since' = since /\ status' = status
      /\ excused' = excused /\ here' = here
      BY DEF EndPass, fleet, run, ill, here
<1>2. PICK failed \in BOOLEAN, spent \in 0..1 :
        /\ left' = left - spent
        /\ pass' = [pass EXCEPT !.deferred = @ \/ pass.orders # {}, !.errors = @ \/ failed]
      BY DEF EndPass
<1>3. /\ pass'.deferred = (pass.deferred \/ pass.orders # {}) /\ pass'.errors = (pass.errors \/ failed)
      /\ pass' \in [orders : SUBSET Orders, budget : Int, deferred : BOOLEAN, errors : BOOLEAN]
      BY <1>2 DEF Types
<1>4. left' \in Int
      BY <1>2 DEF Types
<1>5. Types'
      BY <1>1, <1>3, <1>4 DEF Types, LongAgo
<1>6. Covers' /\ Held'
      BY <1>1, <1>3 DEF Covers, Held, MissingOf, Missing
<1>7. QED
      BY <1>1, <1>5, <1>6, QuietStep DEF LeftBehindIsKnown

LEMMA CloseStep == ASSUME SweepInv, Close PROVE SweepInv'
<1> USE DEF SweepInv
<1> DEFINE Mine == MissingOf({here})
<1>1. /\ phase = "mark" /\ phase' = "shops" /\ left' = left /\ pass' = NoPass
      /\ Mine \in SUBSET Missing /\ Missing \subseteq Orders
      /\ Verdict \in Verdicts
      BY DEF Close, MissingOf, Missing, Verdict, Verdicts
<1>2. /\ Marked(here, Verdict) \/ UNCHANGED run
      /\ excused \subseteq excused'
      BY Excuses DEF Close, Mark
<1>3. /\ status' \in [Shops -> Verdicts] /\ since' \in [Shops -> 0..LongAgo]
      /\ \A t \in Shops : since'[t] = since[t] \/ (t = here /\ Completes(Verdict))
      BY <1>1, <1>2, Marks
<1>4. /\ sale' \in [Orders -> [shop : Shops, age : 0..Window, known : BOOLEAN] \cup {NoSale}]
      /\ Missing' = Missing
      /\ \A o \in Missing' : /\ sale'[o].shop = sale[o].shop /\ sale'[o].age = sale[o].age
                             /\ sale[o].known => sale'[o].known
  <2>1. CASE sale' = sale
        BY <2>1 DEF Missing, Types
  <2>2. CASE sale' = Known(Mine)
        BY <1>1, <2>2, KnownOrders
  <2>3. QED
        BY <2>1, <2>2 DEF Close
<1>5. Types'
  <2>1. pass' \in [orders : SUBSET Orders, budget : Int, deferred : BOOLEAN, errors : BOOLEAN]
        BY <1>1 DEF NoPass
  <2>2. QED
        BY <1>1, <1>3, <1>4, <2>1 DEF Types, LongAgo
<1>6. ASSUME RaisesIncident, NEW o \in Mine PROVE Answered(o)'
  <2>1. CASE sale' = Known(Mine)
    <3>1. o \in Missing'
          BY <1>1, <1>4
    <3>2. QED
          BY <1>1, <2>1, <3>1, KnownOrders DEF Answered
  <2>2. CASE MishapFor(Mine)
        BY <2>2, <1>1 DEF MishapFor, Answered
  <2>3. QED
        BY <1>6, <2>1, <2>2 DEF Close
<1>7. Ages'
  <2>1. SUFFICES ASSUME NEW o \in Missing
                 PROVE  Answered(o)' \/ since'[sale'[o].shop] >= sale'[o].age \/ since'[sale'[o].shop] = LongAgo
        BY <1>4 DEF Ages, LongAgo
  <2>2. /\ sale[o].shop \in Shops /\ sale'[o].shop = sale[o].shop /\ sale'[o].age = sale[o].age
        /\ Answered(o) => Answered(o)'
        BY <1>2, <1>4, MissingTyped DEF Answered
  <2>3. CASE since'[sale[o].shop] = since[sale[o].shop]
        BY <2>2, <2>3 DEF Ages
  <2>4. CASE sale[o].shop = here /\ Completes(Verdict)
    <3>1. o \in Mine
          BY <2>4 DEF MissingOf
    <3>2. CASE pass.errors
          BY <1>6, <3>1, <3>2 DEF RaisesIncident
    <3>3. CASE ~pass.errors
      <4>1. ~pass.deferred
            BY <2>4, <3>3 DEF Completes, Verdict
      <4>2. sale[o].known
            BY <1>1, <3>1, <3>3, <4>1 DEF Covers
      <4>3. QED
            BY <2>2, <4>2 DEF Answered
    <3>4. QED
          BY <3>2, <3>3
  <2>5. QED
        BY <1>3, <2>2, <2>3, <2>4
<1>8. Covers' /\ Held' /\ LeftBehindIsKnown'
      BY <1>1 DEF Covers, Held, LeftBehindIsKnown
<1>9. QED
      BY <1>5, <1>7, <1>8

LEMMA ReportStep == ASSUME SweepInv, Report PROVE SweepInv'
<1> USE DEF SweepInv
<1>1. phase' = "idle" /\ since' = since /\ status' = status /\ pass' = pass /\ left' \in Int
      BY SweepConstants DEF Report, run
<1>2. excused \subseteq excused'
      BY Excuses DEF Report
<1>3. Covers' /\ Held'
      BY <1>1 DEF Covers, Held
<1>4. CASE Mishap /\ sale' = sale
  <2>1. Types'
        BY <1>1, <1>4 DEF Types, LongAgo
  <2>2. LeftBehindIsKnown'
        BY <1>4 DEF LeftBehindIsKnown, Mishap, MishapFor, LastNight, Missing
  <2>3. QED
        BY <1>1, <1>2, <1>3, <1>4, <2>1, <2>2, QuietStep
<1>5. CASE \E alerted \in SUBSET {s \in Shops : Starved(s, StaleNights)} :
             /\ \A s \in Shops : Starved(s, LongAgo) => s \in alerted
             /\ sale' = Known(MissingOf(alerted))
  <2>1. PICK alerted \in SUBSET {s \in Shops : Starved(s, StaleNights)} :
             /\ \A s \in Shops : Starved(s, LongAgo) => s \in alerted
             /\ sale' = Known(MissingOf(alerted))
        BY <1>5
  <2>2. MissingOf(alerted) \in SUBSET Missing
        BY DEF MissingOf
  <2>3. /\ sale' \in [Orders -> [shop : Shops, age : 0..Window, known : BOOLEAN] \cup {NoSale}]
        /\ Missing' = Missing
        /\ \A o \in Missing' : /\ sale'[o].shop = sale[o].shop /\ sale'[o].age = sale[o].age
                               /\ sale[o].known \/ o \in MissingOf(alerted) => sale'[o].known
        BY <2>1, <2>2, KnownOrders
  <2>4. Types'
        BY <1>1, <2>3 DEF Types, LongAgo
  <2>5. Ages'
        BY <1>1, <1>2, <2>1, <2>2, AgesKept
  <2>6. LeftBehindIsKnown'
    <3>1. SUFFICES ASSUME NEW o \in Missing, sale[o].age = Window, ~Answered(o), status[sale[o].shop] # "gated"
                   PROVE  sale'[o].known
          BY <1>1, <1>2, <2>3 DEF LeftBehindIsKnown, Answered
    <3>2. sale[o].shop \in Shops
          BY MissingTyped
    <3>3. since[sale[o].shop] >= Window \/ since[sale[o].shop] = LongAgo
          BY <3>1 DEF Ages
    <3>4. since[sale[o].shop] \in 0..LongAgo
          BY <3>2 DEF Types
    <3>5. since[sale[o].shop] >= LongAgo
          BY <3>3, <3>4, Bounds
    <3>6. sale[o].shop \in alerted
          BY <2>1, <3>1, <3>2, <3>5 DEF Starved
    <3>7. QED
          BY <2>3, <3>6 DEF MissingOf
  <2>7. QED
        BY <1>3, <2>4, <2>5, <2>6
<1>6. QED
      BY <1>4, <1>5 DEF Report

LEMMA DieStep == ASSUME SweepInv, Die PROVE SweepInv'
<1>1. sale' = sale /\ since' = since /\ status' = status /\ phase' = "idle" /\ pass' = NoPass
      BY DEF Die, fleet, run
<1>2. excused \subseteq excused'
      BY Excuses DEF Die
<1>3. Types'
  <2>1. pass' \in [orders : SUBSET Orders, budget : Int, deferred : BOOLEAN, errors : BOOLEAN]
        BY <1>1 DEF NoPass
  <2>2. left' \in Int
        BY SweepConstants DEF Die
  <2>3. QED
        BY <1>1, <2>1, <2>2 DEF SweepInv, Types, LongAgo
<1>4. Covers' /\ Held'
      BY <1>1 DEF Covers, Held
<1>5. LeftBehindIsKnown'
      BY <1>1 DEF LeftBehindIsKnown, Die, Mishap, MishapFor, LastNight, Missing
<1>6. QED
      BY <1>1, <1>2, <1>3, <1>4, <1>5, QuietStep

LEMMA SweepInvNext == SweepInv /\ [SweepNext]_sweepVars => SweepInv'
<1> SUFFICES ASSUME SweepInv, [SweepNext]_sweepVars PROVE SweepInv'
    OBVIOUS
<1>1. CASE UNCHANGED sweepVars
      BY <1>1 DEF sweepVars, SweepInv, Types, Ages, Covers, Held, LeftBehindIsKnown, Answered, Missing,
                  MissingOf, here, LongAgo
<1>2. CASE StartNight
      BY <1>2, StartNightStep
<1>3. CASE SkipRest \/ Unreadable \/ Refuse
      BY <1>3, SkipRestStep, UnreadableStep, RefuseStep
<1>4. CASE Visit
      BY <1>4, VisitStep
<1>5. CASE \E o \in Orders : Attempt(o)
      BY <1>5, AttemptStep
<1>6. CASE EndPass \/ Close
      BY <1>6, EndPassStep, CloseStep
<1>7. CASE Report \/ Die
      BY <1>7, ReportStep, DieStep
<1>8. CASE \E o \in Orders : Drop(o)
      BY <1>8, DropStep
<1>9. CASE \E s \in Shops : Subscribe(s)
      BY <1>9, SubscribeStep
<1>10. QED
      BY <1>1, <1>2, <1>3, <1>4, <1>5, <1>6, <1>7, <1>8, <1>9 DEF SweepNext, Invocation

\* A paid order that leaves the window without a document has an incident on its shop
\* or another emitter at work on it, on any fleet and under any budget, cap and
\* window, unless its shop is gated or a failed D1 call or a killed night hid it:
\* the staleness alert of reconciliation-sweep.ts comes in time.
THEOREM LeftBehindAlwaysKnown == SweepSpec => []LeftBehindIsKnown
<1>1. SweepInv => LeftBehindIsKnown
      BY DEF SweepInv
<1>2. QED
      BY SweepInvInit, SweepInvNext, <1>1, PTL DEF SweepSpec

\* The sequences that are the shops in some order.
Lineups == {q \in Seq(Shops) : /\ Len(q) = Cardinality(Shops)
                               /\ \A s \in Shops : \E i \in 1..Len(q) : q[i] = s}

Budgets ==
    /\ left \in -(DefaultBudget + 2)..NightBudget
    /\ pass.budget \in -1..NightBudget + DefaultBudget
    /\ phase = "create" => pass.budget <= left + DefaultBudget + 1

\* A pass is that of a shop still to be ticked off.
Visiting == phase \in {"create", "mark"} => todo # <<>>

\* What SweepTypeOK says beyond Types.  A pass spends its own budget, which a night
\* with none left exceeds by what processOrders takes of itself (Budgets).
SheetInv ==
    /\ line \in Lineups /\ todo \in Seq(Shops) /\ Visiting
    /\ Budgets
    /\ gated \subseteq Shops /\ mishaps \in 0..MaxMishaps /\ excused \subseteq Orders

\* Laid out, the shops are all there: of as many places as there are shops, with
\* no shop in two of them, none is missing.
LEMMA LaidOut == SetToSeq(Shops) \in Lineups
<1> DEFINE n == Cardinality(Shops)
           q == SetToSeq(Shops)
<1>1. IsFiniteSet(Shops)
      BY SweepConstants
<1>2. n \in Nat /\ ExistsBijection(1..n, Shops)
      BY <1>1, FS_CardinalityType
<1>3. \E f \in [1..n -> Shops] : IsInjective(f)
      BY <1>2 DEF ExistsBijection, Bijection, Injection
<1>4. q \in [1..n -> Shops] /\ IsInjective(q)
      BY <1>3 DEF SetToSeq
<1>5. q \in Injection(1..n, Shops)
      BY <1>4 DEF Injection
<1>6. IsFiniteSet(1..n) /\ Cardinality(1..n) = n
  <2>1. 0..n - 1 \in SUBSET Int /\ 1 \in Int /\ n \in Int
        BY <1>2
  <2>2. IsFiniteSet(1..n) /\ Cardinality(1..n) = IF 1 > n THEN 0 ELSE n - 1 + 1
        BY <2>1, FS_Interval
  <2>3. QED
        BY <1>2, <2>2
<1>7. q \in Surjection(1..n, Shops)
      BY <1>1, <1>5, <1>6, FS_Injection
<1>8. \A s \in Shops : \E i \in 1..n : q[i] = s
      BY <1>7 DEF Surjection
<1>9. q \in Seq(Shops) /\ Len(q) = n
      BY <1>2, <1>4
<1>10. QED
       BY <1>8, <1>9 DEF Lineups

\* A shop that is taken out of the line and put behind it leaves the line complete.
LEMMA Requeued ==
    ASSUME NEW q \in Lineups, NEW i \in DOMAIN q
    PROVE  Append(RemoveAt(q, i), q[i]) \in Lineups
<1> DEFINE n == Len(q)
           front == SubSeq(q, 1, i - 1)
           back == SubSeq(q, i + 1, n)
           r == RemoveAt(q, i)
           p == Append(r, q[i])
<1>1. q \in Seq(Shops) /\ n \in Nat /\ i \in 1..n /\ q[i] \in Shops
      BY DEF Lineups
<1>2. \A j \in 1..n : q[j] \in Shops
      BY <1>1
<1>3. /\ front \in Seq(Shops) /\ Len(front) = i - 1
      /\ \A j \in 1..i - 1 : front[j] = q[j]
  <2>1. 1 \in Int /\ i - 1 \in Int /\ \A j \in 1..i - 1 : q[j] \in Shops
        BY <1>1, <1>2
  <2>2. /\ SubSeq(q, 1, i - 1) \in Seq(Shops)
        /\ Len(SubSeq(q, 1, i - 1)) = IF 1 <= i - 1 THEN i - 1 - 1 + 1 ELSE 0
        /\ \A j \in 1..i - 1 - 1 + 1 : SubSeq(q, 1, i - 1)[j] = q[1 + j - 1]
        BY <2>1, SubSeqProperties
  <2>3. QED
        BY <1>1, <2>2
<1>4. /\ back \in Seq(Shops) /\ Len(back) = n - i
      /\ \A j \in 1..n - i : back[j] = q[i + j]
  <2>1. i + 1 \in Int /\ n \in Int /\ \A j \in i + 1..n : q[j] \in Shops
        BY <1>1, <1>2
  <2>2. /\ SubSeq(q, i + 1, n) \in Seq(Shops)
        /\ Len(SubSeq(q, i + 1, n)) = IF i + 1 <= n THEN n - (i + 1) + 1 ELSE 0
        /\ \A j \in 1..n - (i + 1) + 1 : SubSeq(q, i + 1, n)[j] = q[i + 1 + j - 1]
        BY <2>1, SubSeqProperties
  <2>3. QED
        BY <1>1, <2>2
<1>5. r = front \o back
      BY DEF RemoveAt
<1> HIDE DEF front, back, r
<1>6. /\ r \in Seq(Shops) /\ Len(r) = n - 1
      /\ \A j \in 1..n - 1 : r[j] = IF j < i THEN q[j] ELSE q[j + 1]
  <2>1. /\ front \o back \in Seq(Shops) /\ Len(front \o back) = Len(front) + Len(back)
        /\ \A j \in 1..Len(front) + Len(back) :
              (front \o back)[j] = IF j <= Len(front) THEN front[j] ELSE back[j - Len(front)]
        BY <1>3, <1>4, ConcatProperties
  <2>2. r \in Seq(Shops) /\ Len(r) = n - 1
        BY <1>1, <1>3, <1>4, <1>5, <2>1
  <2>3. ASSUME NEW j \in 1..n - 1 PROVE r[j] = IF j < i THEN q[j] ELSE q[j + 1]
    <3>1. r[j] = IF j <= i - 1 THEN front[j] ELSE back[j - (i - 1)]
      <4>1. Len(front) = i - 1 /\ Len(front) + Len(back) = n - 1
            BY <1>1, <1>3, <1>4
      <4>2. j \in 1..Len(front) + Len(back)
            BY <4>1
      <4>3. (front \o back)[j] = IF j <= Len(front) THEN front[j] ELSE back[j - Len(front)]
            BY <2>1, <4>2
      <4>4. QED
            BY <1>5, <4>1, <4>3
    <3>2. CASE j < i
      <4>1. j \in 1..i - 1
            BY <1>1, <3>2
      <4>2. QED
            BY <1>1, <1>3, <3>1, <3>2, <4>1
    <3>3. CASE ~(j < i)
      <4>1. j - (i - 1) \in 1..n - i /\ i + (j - (i - 1)) = j + 1
            BY <1>1, <3>3
      <4>2. back[j - (i - 1)] = q[j + 1]
            BY <1>4, <4>1
      <4>3. QED
            BY <1>1, <3>1, <3>3, <4>2
    <3>4. QED
          BY <3>2, <3>3
  <2>4. QED
        BY <2>2, <2>3
<1>7. /\ p \in Seq(Shops) /\ Len(p) = n
      /\ \A j \in 1..n - 1 : p[j] = r[j]
      /\ p[n] = q[i]
  <2>1. /\ Append(r, q[i]) \in Seq(Shops) /\ Len(Append(r, q[i])) = Len(r) + 1
        /\ \A j \in 1..Len(r) : Append(r, q[i])[j] = r[j]
        /\ Append(r, q[i])[Len(r) + 1] = q[i]
        BY <1>1, <1>6, AppendProperties
  <2>2. Len(r) = n - 1 /\ Len(r) + 1 = n
        BY <1>1, <1>6
  <2>3. QED
        BY <2>1, <2>2
<1> HIDE DEF p
<1>8. ASSUME NEW s \in Shops PROVE \E j \in 1..n : p[j] = s
  <2>1. PICK j \in 1..n : q[j] = s
        BY DEF Lineups
  <2>2. CASE j = i
        BY <1>1, <1>7, <2>1, <2>2
  <2>3. CASE j < i
    <3>1. j \in 1..n - 1
          BY <1>1, <2>3
    <3>2. p[j] = s
          BY <1>6, <1>7, <2>1, <2>3, <3>1
    <3>3. QED
          BY <3>2
  <2>4. CASE j > i
    <3>1. j - 1 \in 1..n - 1 /\ ~(j - 1 < i) /\ j - 1 + 1 = j /\ j - 1 \in 1..n
          BY <1>1, <2>4
    <3>2. p[j - 1] = s
          BY <1>6, <1>7, <2>1, <3>1
    <3>3. QED
          BY <3>1, <3>2
  <2>5. QED
        BY <1>1, <2>2, <2>3, <2>4
<1>9. Len(p) = Cardinality(Shops)
      BY <1>7 DEF Lineups
<1>10. p \in Lineups
       BY <1>7, <1>8, <1>9 DEF Lineups
<1>11. QED
       BY <1>10 DEF p, r

LEMMA SheetInit == SweepInit => SheetInv
<1> SUFFICES ASSUME SweepInit PROVE SheetInv
    OBVIOUS
<1>1. line \in Lineups /\ todo \in Seq(Shops)
      BY LaidOut DEF SweepInit
<1>2. Budgets
      BY SweepConstants DEF SweepInit, Budgets, NoPass
<1>3. QED
      BY <1>1, <1>2, SweepConstants DEF SweepInit, SheetInv, Visiting

\* The shops still to visit, after one of them, are shops.
LEMMA Onward ==
    ASSUME todo \in Seq(Shops), todo # <<>>
    PROVE  here \in Shops /\ Tail(todo) \in Seq(Shops)
BY HeadTailProperties DEF here

\* A mark, written or lost, leaves the line complete.
LEMMA LineKept ==
    ASSUME SheetInv, NEW s \in Shops, NEW verdict, Marked(s, verdict) \/ UNCHANGED run
    PROVE  line' \in Lineups
<1>1. CASE Marked(s, verdict) /\ Completes(verdict)
  <2>1. PICK i \in DOMAIN line : line[i] = s /\ line' = Append(RemoveAt(line, i), s)
        BY <1>1 DEF Marked
  <2>2. line' = Append(RemoveAt(line, i), line[i])
        BY <2>1
  <2>3. QED
        BY <2>2, Requeued DEF SheetInv
<1>2. CASE Marked(s, verdict) /\ ~Completes(verdict)
      BY <1>2 DEF Marked, SheetInv
<1>3. CASE UNCHANGED run
      BY <1>3 DEF run, SheetInv
<1>4. QED
      BY <1>1, <1>2, <1>3

\* What goes wrong is counted, and hides orders.
LEMMA IllsTyped ==
    ASSUME Types, SheetInv, Smooth \/ Mishap \/ \E os \in SUBSET Missing : MishapFor(os)
    PROVE  mishaps' \in 0..MaxMishaps /\ excused' \subseteq Orders
<1>1. MaxMishaps \in Nat /\ mishaps \in 0..MaxMishaps /\ excused \subseteq Orders
      BY SweepConstants DEF SheetInv
<1>2. ASSUME NEW os \in SUBSET Missing, MishapFor(os)
      PROVE  mishaps' \in 0..MaxMishaps /\ excused' \subseteq Orders
      BY <1>1, <1>2 DEF MishapFor, Missing
<1>3. LastNight \in SUBSET Missing
      BY DEF LastNight
<1>4. QED
      BY <1>1, <1>2, <1>3 DEF Smooth, ill, Mishap

\* A night starts with its whole budget, and a pass of none ends it.
LEMMA BudgetRenewed ==
    ASSUME SheetInv, phase' # "create",
           left' = left \/ left' = NightBudget, pass' = pass \/ pass' = NoPass
    PROVE  Budgets'
BY SweepConstants DEF SheetInv, Budgets, NoPass

\* A sheet whose line, visits and budget are in order is in order after a step that
\* leaves the gate alone.
LEMMA SheetStep ==
    ASSUME SweepInv, SheetInv, line' \in Lineups, todo' \in Seq(Shops), Visiting',
           Budgets', gated' = gated,
           Smooth \/ Mishap \/ \E os \in SUBSET Missing : MishapFor(os)
    PROVE  SheetInv'
<1>1. mishaps' \in 0..MaxMishaps /\ excused' \subseteq Orders
      BY IllsTyped DEF SweepInv
<1>2. QED
      BY <1>1 DEF SheetInv, Lineups

LEMMA DayStep ==
    ASSUME SweepInv, SheetInv,
           \/ \E o \in Orders : Drop(o)
           \/ \E s \in Shops : Subscribe(s)
    PROVE  SheetInv'
<1>1. line' = line /\ todo' = todo /\ left' = left /\ pass' = pass /\ phase' = phase /\ mishaps' = mishaps
      BY DEF Drop, Subscribe, run, ill
<1>2. gated' \subseteq Shops /\ excused' \subseteq Orders
      BY DEF SheetInv, Drop, Subscribe, ill
<1>3. QED
      BY <1>1, <1>2 DEF SheetInv, Visiting, Budgets, Lineups

LEMMA NightStep ==
    ASSUME SweepInv, SheetInv, StartNight \/ SkipRest \/ Unreadable \/ Report \/ Die
    PROVE  SheetInv'
<1>1. line' = line /\ gated' = gated
      BY DEF StartNight, SkipRest, Unreadable, Report, Die, fleet, run
<1>2. todo' \in Seq(Shops)
  <2>1. CASE StartNight
        BY <2>1, LaidOut DEF StartNight, Served, SheetInv, Lineups
  <2>2. CASE SkipRest \/ Die
    <3>1. todo' = <<>>
          BY <2>2 DEF SkipRest, Die
    <3>2. QED
          BY <3>1
  <2>3. CASE Unreadable
        BY <2>3, Onward DEF Unreadable, SheetInv
  <2>4. CASE Report
        BY <2>4 DEF Report, SheetInv
  <2>5. QED
        BY <2>1, <2>2, <2>3, <2>4
<1>3. Budgets' /\ Visiting'
  <2>1. /\ phase' \notin {"create", "mark"}
        /\ (left' = left \/ left' = NightBudget) /\ (pass' = pass \/ pass' = NoPass)
        BY DEF StartNight, SkipRest, Unreadable, Report, Die
  <2>2. QED
        BY <2>1, BudgetRenewed DEF Visiting
<1>4. Smooth \/ Mishap \/ \E os \in SUBSET Missing : MishapFor(os)
  <2>1. CASE StartNight
    <3>1. {} \in SUBSET Missing
          OBVIOUS
    <3>2. QED
          BY <2>1, <3>1 DEF StartNight
  <2>2. CASE SkipRest \/ Unreadable \/ Report \/ Die
        BY <2>2 DEF SkipRest, Unreadable, Report, Die
  <2>3. QED
        BY <2>1, <2>2
<1>5. QED
      BY <1>1, <1>2, <1>3, <1>4, SheetStep DEF SheetInv

LEMMA ShopStep ==
    ASSUME SweepInv, SheetInv, Refuse \/ Close
    PROVE  SheetInv'
<1>1. todo # <<>>
      BY DEF Refuse, Close, SheetInv, Visiting
<1>2. here \in Shops /\ todo' \in Seq(Shops) /\ gated' = gated
      BY <1>1, Onward DEF Refuse, Close, fleet, SheetInv
<1>3. PICK verdict \in Verdicts : Marked(here, verdict) \/ UNCHANGED run
  <2>1. "gated" \in Verdicts /\ Verdict \in Verdicts
        BY DEF Verdicts, Verdict
  <2>2. QED
        BY <2>1 DEF Refuse, Close, Mark
<1>4. line' \in Lineups
      BY <1>2, <1>3, LineKept
<1>5. phase' = "shops" /\ left' = left /\ pass' \in {pass, NoPass}
      BY DEF Refuse, Close
<1>6. Budgets' /\ Visiting'
      BY <1>5, BudgetRenewed DEF Visiting
<1>7. Smooth \/ Mishap \/ \E os \in SUBSET Missing : MishapFor(os)
  <2>1. MissingOf({here}) \in SUBSET Missing
        BY DEF MissingOf
  <2>2. QED
        BY <2>1 DEF Refuse, Close, Mark
<1>8. QED
      BY <1>2, <1>4, <1>6, <1>7, SheetStep

\* What a pass may take beyond what is left of the night.
LEMMA WithinOwn ==
    ASSUME NEW l \in Int, NEW d \in Nat, l >= -1
    PROVE  d <= l + d + 1 /\ l <= l + d + 1
OBVIOUS

LEMMA PassStep ==
    ASSUME SweepInv, SheetInv, Visit \/ (\E o \in Orders : Attempt(o)) \/ EndPass
    PROVE  SheetInv'
<1>1. line' = line /\ todo' = todo /\ gated' = gated /\ mishaps' = mishaps /\ excused' = excused
      BY DEF Visit, Attempt, EndPass, fleet, run, ill
<1>2. /\ NightBudget \in Nat /\ DefaultBudget \in Nat /\ NightBudget > 0 /\ DefaultBudget > 0
      /\ left \in -(DefaultBudget + 2)..NightBudget
      /\ pass.budget \in -1..NightBudget + DefaultBudget
      /\ phase = "create" => pass.budget <= left + DefaultBudget + 1
      BY SweepConstants DEF SheetInv, Budgets
<1>3. pass \in [orders : SUBSET Orders, budget : Int, deferred : BOOLEAN, errors : BOOLEAN]
      BY DEF SweepInv, Types
<1>4. Budgets'
  <2>1. CASE Visit
    <3>1. PICK spent \in 0..1 :
             /\ left' = left - spent
             /\ \/ /\ phase' = "create"
                   /\ \E b \in Batches(MissingOf({here})) :
                         pass' = [orders |-> b, budget |-> PassBudget(left - spent),
                                  deferred |-> b # MissingOf({here}), errors |-> FALSE]
                \/ phase' = "mark" /\ pass' = [NoPass EXCEPT !.errors = TRUE]
          BY <2>1 DEF Visit
    <3>2. left >= 0 /\ left' \in -(DefaultBudget + 2)..NightBudget /\ left' >= -1
          BY <1>2, <2>1, <3>1 DEF Visit
    <3>3. CASE phase' = "mark"
      <4>1. pass'.budget = 0
            BY <3>1, <3>3 DEF NoPass
      <4>2. QED
            BY <1>2, <3>2, <3>3, <4>1 DEF Budgets
    <3>4. CASE phase' = "create"
      <4>1. pass'.budget = IF left' > 0 THEN left' ELSE DefaultBudget
            BY <3>1, <3>4 DEF PassBudget
      <4>2. pass'.budget \in -1..NightBudget + DefaultBudget
            BY <1>2, <3>2, <4>1
      <4>3. pass'.budget <= left' + DefaultBudget + 1
        <5>1. left' \in Int /\ left' >= -1 /\ DefaultBudget \in Nat
              BY <1>2, <3>2
        <5>2. DefaultBudget <= left' + DefaultBudget + 1
              BY <5>1, WithinOwn
        <5>3. left' <= left' + DefaultBudget + 1
              BY <5>1, WithinOwn
        <5>4. QED
              BY <4>1, <5>2, <5>3
      <4>4. QED
            BY <3>2, <4>2, <4>3 DEF Budgets
    <3>5. QED
          BY <3>1, <3>3, <3>4
  <2>2. CASE \E o \in Orders : Attempt(o)
    <3>1. /\ phase = "create" /\ phase' = "create" /\ ~(pass.budget < 0) /\ left' = left - 1
          BY <2>2 DEF Attempt, PassOver
    <3>2. PICK o \in Orders, outcome \in {"billed", "skipped", "error", "late"} :
             pass' = [pass EXCEPT !.orders = @ \ {o}, !.budget = @ - 1,
                                  !.errors = @ \/ outcome \in {"error", "late"}]
          BY <2>2 DEF Attempt
    <3>3. pass'.budget = pass.budget - 1
          BY <1>3, <3>2
    <3>4. QED
          BY <1>2, <3>1, <3>3 DEF Budgets
  <2>3. CASE EndPass
    <3>1. PICK failed \in BOOLEAN, spent \in 0..1 :
            /\ failed \/ spent > 0 => left > 0
            /\ left' = left - spent
            /\ pass' = [pass EXCEPT !.deferred = @ \/ pass.orders # {}, !.errors = @ \/ failed]
          BY <2>3 DEF EndPass
    <3>2. pass'.budget = pass.budget /\ phase' = "mark"
          BY <1>3, <2>3, <3>1 DEF EndPass
    <3>3. spent = 0 \/ left > 0
          BY <3>1
    <3>4. left' \in -(DefaultBudget + 2)..NightBudget
          BY <1>2, <3>1, <3>3
    <3>5. QED
          BY <1>2, <3>2, <3>4 DEF Budgets
  <2>4. QED
        BY <2>1, <2>2, <2>3
<1>5. todo # <<>>
      BY DEF Visit, Attempt, EndPass, SheetInv, Visiting
<1>6. QED
      BY <1>1, <1>4, <1>5 DEF SheetInv, Visiting, Lineups

LEMMA SheetNext == SweepInv /\ SheetInv /\ [SweepNext]_sweepVars => SheetInv'
<1> SUFFICES ASSUME SweepInv, SheetInv, [SweepNext]_sweepVars PROVE SheetInv'
    OBVIOUS
<1>1. CASE UNCHANGED sweepVars
      BY <1>1 DEF sweepVars, SheetInv, Visiting, Budgets, Lineups
<1>2. CASE SweepNext
      BY <1>2, DayStep, NightStep, ShopStep, PassStep DEF SweepNext, Invocation
<1>3. QED
      BY <1>1, <1>2

\* Every variable of NightlySweep keeps to its type: the line is always all the shops,
\* each once, whatever marks are lost, and one night overruns its budget by no more
\* than the two orders and the default budget that a last pass may take.
THEOREM SweepTypes == SweepSpec => []SweepTypeOK
<1>1. SweepInv /\ SheetInv => SweepTypeOK
  <2> SUFFICES ASSUME SweepInv, SheetInv PROVE SweepTypeOK
      OBVIOUS
  <2>1. Range(line) = Shops /\ Len(line) = Cardinality(Shops)
    <3>1. /\ line \in Seq(Shops) /\ Len(line) = Cardinality(Shops)
          /\ \A s \in Shops : \E i \in 1..Len(line) : line[i] = s
          BY DEF SheetInv, Lineups
    <3>2. QED
          BY <3>1 DEF Range
  <2>2. Range(todo) \subseteq Shops
        BY DEF SheetInv, Range
  <2>3. pass \in [orders : SUBSET Orders, budget : -1..NightBudget + DefaultBudget,
                  deferred : BOOLEAN, errors : BOOLEAN]
        BY DEF SweepInv, Types, SheetInv, Budgets
  <2>4. QED
        BY <2>1, <2>2, <2>3 DEF SweepTypeOK, SweepInv, Types, SheetInv, Budgets, Verdicts
<1>2. QED
      BY SweepInvInit, SweepInvNext, SheetInit, SheetNext, <1>1, PTL DEF SweepSpec

-----------------------------------------------------------------------------
(* Deferred reverse charge.                                                *)

\* The deliveries that can still park their work are those not yet past it.
Past == {d \in Deliveries : pc[d] \in {"row", "acked"}}

RowFields ==
    /\ row.status \in Statuses /\ row.attempts \in Nat
    /\ row.due \in BOOLEAN /\ row.incident \in BOOLEAN /\ row.refund \in BOOLEAN
    /\ row = [status |-> row.status, attempts |-> row.attempts, due |-> row.due,
              incident |-> row.incident, refund |-> row.refund]

DeferTypes ==
    /\ pc \in [Deliveries -> {"queued", "claim", "build", "create", "save", "row", "acked"}]
    /\ claim \in Deliveries \cup {"nobody"}
    /\ sub \in [Submitters -> {"idle", "ask", "check", "submit", "save", "resolve", "alert"}]
    /\ held \in [Submitters \cup Deliveries -> [attempts : 0..Exhausted - 1, doc : 0..Len(docs)]]
    /\ RowFields
    /\ processed \in 0..Len(docs)
    /\ docs \in Seq({"draft", "final"})
    /\ credited \in BOOLEAN

\* A webhook adds its attempt once, a retry counts from fewer than Exhausted.
AttemptsBounded == row.attempts <= Exhausted + Cardinality(Past)

\* Who has submitted has a document to show for it.
SubmittedIsInvoiced == \A x \in Submitters : sub[x] \in {"save", "resolve"} => docs # << >>

DeferInv == DeferTypes /\ AttemptsBounded /\ SubmittedIsInvoiced /\ DecidedIsInvoiced

StaysDecided == row.status \in Decided => row'.status \in Decided

\* Of a delivery that moves on, those past it stay past it.
LEMMA PastGrows ==
    ASSUME DeferTypes, AttemptsBounded, NEW d \in Deliveries, NEW label,
           pc' = [pc EXCEPT ![d] = label], pc[d] \in {"row", "acked"} => label \in {"row", "acked"},
           row'.attempts = row.attempts
           \/ (row'.attempts = row.attempts + 1 /\ d \notin Past /\ label \in {"row", "acked"})
    PROVE  AttemptsBounded'
<1> DEFINE N == Past'
<1>1. IsFiniteSet(Deliveries)
      BY ConstantsOK
<1>2. IsFiniteSet(Past) /\ IsFiniteSet(Past')
  <2>1. Past \subseteq Deliveries /\ Past' \subseteq Deliveries
        BY DEF Past
  <2>2. QED
        BY <1>1, <2>1, FS_Subset
<1>3. Past \subseteq Past'
      BY DEF Past, DeferTypes
<1>4. /\ Cardinality(Past) \in Nat /\ Cardinality(Past') \in Nat
      /\ Cardinality(Past) <= Cardinality(Past')
      BY <1>2, <1>3, FS_CardinalityType, FS_Subset
<1>5. row.attempts \in Nat /\ Exhausted = 3
      BY DEF DeferTypes, RowFields, Exhausted
<1>6. CASE row'.attempts = row.attempts
  <2>1. QED
        BY <1>4, <1>5, <1>6 DEF AttemptsBounded, Exhausted
<1>7. CASE row'.attempts = row.attempts + 1 /\ d \notin Past /\ label \in {"row", "acked"}
  <2>1. Past' = Past \cup {d}
        BY <1>7 DEF Past, DeferTypes
  <2>2. Cardinality(Past') = Cardinality(Past) + 1
        BY <1>2, <1>7, <2>1, FS_AddElement
  <2>3. QED
        BY <1>4, <1>5, <1>7, <2>2 DEF AttemptsBounded, Exhausted
<1>8. QED
      BY <1>6, <1>7

LEMMA DeferInvInit == Init => DeferInv
<1> SUFFICES ASSUME Init PROVE DeferInv
    OBVIOUS
<1>1. Past = {}
      BY DEF Past, Init
<1>2. Cardinality(Past) = 0
      BY <1>1, FS_EmptySet
<1>3. AttemptsBounded
      BY <1>2 DEF AttemptsBounded, Init, NoRow, Exhausted
<1>4. RowFields
      BY DEF RowFields, Init, NoRow, Statuses
<1>5. Nothing \in [attempts : 0..Exhausted - 1, doc : 0..Len(docs)]
      BY DEF Nothing, Init, Exhausted
<1>6. DeferTypes
  <2>1. docs \in Seq({"draft", "final"}) /\ Len(docs) = 0
        BY DEF Init
  <2>2. processed \in 0..Len(docs)
        BY <2>1 DEF Init
  <2>3. held \in [Submitters \cup Deliveries -> [attempts : 0..Exhausted - 1, doc : 0..Len(docs)]]
        BY <1>5 DEF Init
  <2>4. QED
        BY <1>4, <2>1, <2>2, <2>3 DEF DeferTypes, Init
<1>7. QED
      BY <1>3, <1>6 DEF DeferInv, SubmittedIsInvoiced, DecidedIsInvoiced, Init, NoRow, Decided

-----------------------------------------------------------------------------
(* The row.                                                                *)

\* A row written field by field keeps its fields.
LEMMA Parked ==
    ASSUME DeferTypes, NEW t \in Topics, row' = Enqueued(t)
    PROVE  /\ RowFields' /\ row'.attempts = row.attempts + 1
           /\ row.status \in Decided => row'.status \in Decided
           /\ row'.status \in Decided => row.status \in Decided
<1> DEFINE st == IF row.status = "none" THEN "pending" ELSE row.status
           n  == row.attempts + 1
           ps == row.refund \/ t = "refund"
           inc == row.incident
<1>1. /\ st \in Statuses /\ n \in Nat /\ ps \in BOOLEAN /\ inc \in BOOLEAN
      /\ row.status \in Decided => st \in Decided
      /\ st \in Decided => row.status \in Decided
      BY DEF DeferTypes, RowFields, Statuses, Decided
<1>2. row' = [status |-> st, attempts |-> n, due |-> FALSE, incident |-> inc, refund |-> ps]
      BY DEF Enqueued
<1> HIDE DEF st, ps, inc, n
<1>3. /\ row'.status = st /\ row'.attempts = n /\ row'.due = FALSE /\ row'.incident = inc
      /\ row'.refund = ps
      BY <1>2
<1>4. RowFields'
      BY <1>1, <1>2, <1>3 DEF RowFields
<1>5. QED
      BY <1>1, <1>3, <1>4 DEF n

\* Only the attempts and the due date of a row are counted down to what was read.
LEMMA BackedOff ==
    ASSUME DeferTypes, NEW x \in Submitters, Backoff(x)
    PROVE  /\ RowFields' /\ row'.attempts <= Exhausted /\ row'.status = row.status
<1> DEFINE n == held[x].attempts + 1
<1>1. n \in Nat /\ n <= Exhausted
  <2>1. held[x] \in [attempts : 0..Exhausted - 1, doc : 0..Len(docs)]
        BY DEF DeferTypes
  <2>2. held[x].attempts \in 0..2
        BY <2>1 DEF Exhausted
  <2>3. QED
        BY <2>2 DEF Exhausted
<1>2. row' = [status |-> row.status, attempts |-> n, due |-> FALSE,
              incident |-> row.incident, refund |-> row.refund]
      BY DEF Backoff, DeferTypes, RowFields
<1> HIDE DEF n
<1>3. /\ row'.status = row.status /\ row'.attempts = n /\ row'.due = FALSE
      /\ row'.incident = row.incident /\ row'.refund = row.refund
      BY <1>2
<1>4. QED
      BY <1>1, <1>2, <1>3 DEF RowFields, DeferTypes

\* A row is decided, falls due or is reported: one field of it changes.
LEMMA Touched ==
    ASSUME DeferTypes,
           \/ \E s \in Statuses : row' = [row EXCEPT !.status = s]
           \/ row' = [row EXCEPT !.due = TRUE]
           \/ row' = [row EXCEPT !.incident = TRUE]
    PROVE  RowFields' /\ row'.attempts = row.attempts
<1>1. CASE \E s \in Statuses : row' = [row EXCEPT !.status = s]
      BY <1>1 DEF DeferTypes, RowFields
<1>2. CASE row' = [row EXCEPT !.due = TRUE]
      BY <1>2 DEF DeferTypes, RowFields
<1>3. CASE row' = [row EXCEPT !.incident = TRUE]
      BY <1>3 DEF DeferTypes, RowFields
<1>4. QED
      BY <1>1, <1>2, <1>3

LEMMA RowKept == ASSUME DeferTypes, row' = row PROVE RowFields' /\ row'.attempts = row.attempts
BY DEF DeferTypes, RowFields

-----------------------------------------------------------------------------
(* The steps.                                                              *)

\* A document more: what was held stays within bounds.
LEMMA Documented ==
    ASSUME DeferTypes, docs' = Append(docs, "draft"),
           NEW x \in Submitters \cup Deliveries,
           held' = held \/ held' = [held EXCEPT ![x].doc = Len(docs) + 1]
                        \/ held' = [held EXCEPT ![x] = Nothing]
    PROVE  /\ docs' \in Seq({"draft", "final"}) /\ docs' # << >> /\ Len(docs') = Len(docs) + 1
           /\ held' \in [Submitters \cup Deliveries -> [attempts : 0..Exhausted - 1, doc : 0..Len(docs')]]
           /\ processed \in 0..Len(docs')
<1>1. docs \in Seq({"draft", "final"}) /\ "draft" \in {"draft", "final"}
      BY DEF DeferTypes
<1>2. docs' \in Seq({"draft", "final"}) /\ Len(docs') = Len(docs) + 1 /\ Len(docs) \in Nat
      BY <1>1
<1>3. docs' # << >>
      BY <1>2
<1>4. ASSUME NEW y \in Submitters \cup Deliveries
      PROVE held'[y] \in [attempts : 0..Exhausted - 1, doc : 0..Len(docs')]
  <2>1. /\ held[y] \in [attempts : 0..Exhausted - 1, doc : 0..Len(docs)]
        /\ held[x] \in [attempts : 0..Exhausted - 1, doc : 0..Len(docs)]
        BY DEF DeferTypes
  <2>2. /\ held[y] \in [attempts : 0..Exhausted - 1, doc : 0..Len(docs')]
        /\ held[x] \in [attempts : 0..Exhausted - 1, doc : 0..Len(docs')]
        BY <1>2, <2>1
  <2>3. Nothing \in [attempts : 0..Exhausted - 1, doc : 0..Len(docs')]
        BY <1>2 DEF Nothing, Exhausted
  <2>4. [held[x] EXCEPT !.doc = Len(docs) + 1] \in [attempts : 0..Exhausted - 1, doc : 0..Len(docs')]
        BY <1>2, <2>2
  <2>5. held'[y] \in {held[y], [held[x] EXCEPT !.doc = Len(docs) + 1], Nothing}
        BY DEF DeferTypes
  <2>6. QED
        BY <2>2, <2>3, <2>4, <2>5
<1>5. held' = [y \in Submitters \cup Deliveries |-> held'[y]]
      BY DEF DeferTypes
<1>6. held' \in [Submitters \cup Deliveries -> [attempts : 0..Exhausted - 1, doc : 0..Len(docs')]]
      BY <1>4, <1>5
<1>7. processed \in 0..Len(docs')
      BY <1>2 DEF DeferTypes
<1>8. QED
      BY <1>2, <1>3, <1>6, <1>7

\* Forgetting what was held keeps the types.
LEMMA Forgotten ==
    ASSUME DeferTypes, NEW x \in Submitters \cup Deliveries,
           held' = held \/ held' = [held EXCEPT ![x] = Nothing], Len(docs') = Len(docs)
    PROVE  held' \in [Submitters \cup Deliveries -> [attempts : 0..Exhausted - 1, doc : 0..Len(docs')]]
<1>1. Nothing \in [attempts : 0..Exhausted - 1, doc : 0..Len(docs)]
  <2>1. docs \in Seq({"draft", "final"})
        BY DEF DeferTypes
  <2>2. Len(docs) \in Nat
        BY <2>1
  <2>3. QED
        BY <2>2 DEF Nothing, Exhausted
<1>2. QED
      BY <1>1 DEF DeferTypes

\* Of a row whose attempts were counted down or left, the bound stays.
LEMMA BoundKept ==
    ASSUME DeferTypes, AttemptsBounded, RowFields', pc' = pc,
           row'.attempts = row.attempts \/ row'.attempts <= Exhausted
    PROVE  AttemptsBounded'
<1>1. IsFiniteSet(Past) /\ Past' = Past
  <2>1. Past \subseteq Deliveries
        BY DEF Past
  <2>2. QED
        BY <2>1, FS_Subset, ConstantsOK DEF Past
<1>2. Cardinality(Past) \in Nat
      BY <1>1, FS_CardinalityType
<1>3. CASE row'.attempts = row.attempts
      BY <1>1, <1>3 DEF AttemptsBounded
<1>4. CASE row'.attempts <= Exhausted
      BY <1>1, <1>2, <1>4 DEF AttemptsBounded, Exhausted, RowFields
<1>5. QED
      BY <1>3, <1>4

\* A webhook is at most done with the order once: what it leaves to the row is
\* either nothing or one attempt.
LEMMA Moved ==
    ASSUME DeferInv, NEW d \in Deliveries,
           NEW label \in {"queued", "claim", "build", "create", "save", "row", "acked"},
           Goto(d, label), pc[d] \in {"row", "acked"} => label \in {"row", "acked"},
           \/ row' = row
           \/ d \notin Past /\ label \in {"row", "acked"} /\ \E t \in Topics : row' = Enqueued(t)
    PROVE  /\ pc' \in [Deliveries -> {"queued", "claim", "build", "create", "save", "row", "acked"}]
           /\ RowFields' /\ AttemptsBounded' /\ StaysDecided
           /\ row'.status \in Decided => row.status \in Decided
<1>1. pc' = [pc EXCEPT ![d] = label]
      BY DEF Goto
<1>2. /\ RowFields'
      /\ row'.attempts = row.attempts
         \/ (row'.attempts = row.attempts + 1 /\ d \notin Past /\ label \in {"row", "acked"})
      /\ StaysDecided
      /\ row'.status \in Decided => row.status \in Decided
  <2>1. CASE row' = row
        BY <2>1, RowKept DEF DeferInv, StaysDecided
  <2>2. CASE d \notin Past /\ label \in {"row", "acked"} /\ \E t \in Topics : row' = Enqueued(t)
        BY <2>2, Parked DEF DeferInv, StaysDecided
  <2>3. QED
        BY <2>1, <2>2
<1>3. AttemptsBounded'
      BY <1>1, <1>2, PastGrows DEF DeferInv
<1>4. pc' \in [Deliveries -> {"queued", "claim", "build", "create", "save", "row", "acked"}]
      BY <1>1 DEF DeferInv, DeferTypes
<1>5. QED
      BY <1>2, <1>3, <1>4

LEMMA DocsTyped == ASSUME DeferTypes PROVE Len(docs) \in Nat /\ (processed # 0 => docs # << >>)
<1>1. docs \in Seq({"draft", "final"}) /\ processed \in 0..Len(docs)
      BY DEF DeferTypes
<1>2. QED
      BY <1>1

\* A delivery that writes at most the row of processed_orders, the claim and the row.
LEMMA WebhookStep ==
    ASSUME DeferInv, NEW d \in Deliveries,
           NEW label \in {"queued", "claim", "build", "create", "save", "row", "acked"},
           Goto(d, label), pc[d] \in {"row", "acked"} => label \in {"row", "acked"},
           \/ row' = row
           \/ d \notin Past /\ label \in {"row", "acked"} /\ \E t \in Topics : row' = Enqueued(t),
           claim' \in Deliveries \cup {"nobody"}, processed' \in 0..Len(docs),
           Len(docs') = Len(docs), docs' \in Seq({"draft", "final"}), docs # << >> => docs' # << >>,
           sub' = sub, held' = held \/ held' = [held EXCEPT ![d] = Nothing], credited' \in BOOLEAN
    PROVE  DeferInv' /\ StaysDecided
<1>1. /\ pc' \in [Deliveries -> {"queued", "claim", "build", "create", "save", "row", "acked"}]
      /\ RowFields' /\ AttemptsBounded' /\ StaysDecided
      /\ row'.status \in Decided => row.status \in Decided
      BY Moved
<1>2. held' \in [Submitters \cup Deliveries -> [attempts : 0..Exhausted - 1, doc : 0..Len(docs')]]
      BY Forgotten DEF DeferInv
<1>3. DeferTypes'
      BY <1>1, <1>2 DEF DeferInv, DeferTypes
<1>4. QED
      BY <1>1, <1>3 DEF DeferInv, SubmittedIsInvoiced, DecidedIsInvoiced

LEMMA DeliverStep == ASSUME DeferInv, NEW d \in Deliveries, Deliver(d) PROVE DeferInv' /\ StaysDecided
<1>1. /\ DeferTypes /\ docs \in Seq({"draft", "final"}) /\ credited \in BOOLEAN
      /\ processed \in 0..Len(docs) /\ claim \in Deliveries \cup {"nobody"}
      /\ TopicOf[d] \in Topics
      BY ConstantsOK DEF DeferInv, DeferTypes
<1>2. Len(docs) \in Nat /\ (processed # 0 => docs # << >>)
      BY <1>1, DocsTyped
<1>3. Returned(d) \in {"row", "acked"}
      BY DEF Returned
<1>4. CASE Start(d)
  <2>1. PICK label \in {"claim", "row", "acked"} : Goto(d, label)
        BY <1>4 DEF Start
  <2>2. QED
        BY <1>1, <1>4, <2>1, WebhookStep DEF Start, submitting
<1>5. CASE Claim(d)
  <2>1. PICK label \in {"build", "queued"} : Goto(d, label)
        BY <1>5 DEF Claim
  <2>2. claim' \in Deliveries \cup {"nobody"}
        BY <1>1, <1>5 DEF Claim
  <2>3. QED
        BY <1>1, <1>5, <2>1, <2>2, WebhookStep DEF Claim, submitting
<1>6. CASE Build(d)
  <2>1. d \notin Past /\ pc[d] = "build" /\ docs' = docs /\ sub' = sub /\ held' = held /\ credited' = credited
        BY <1>6 DEF Build, Past, submitting
  <2>2. \A i \in DOMAIN docs : i \in 0..Len(docs)
        BY <1>1
  <2>3. processed' \in 0..Len(docs)
        BY <1>1, <1>6, <2>2 DEF Build, Saved
  <2>4. claim' \in Deliveries \cup {"nobody"}
        BY <1>1, <1>6 DEF Build
  <2>5. \/ Goto(d, "create") /\ row' = row
        \/ Goto(d, Returned(d)) /\ (row' = row \/ row' = Enqueued(TopicOf[d]))
        BY <1>6 DEF Build
  <2>6. CASE Goto(d, "create") /\ row' = row
        BY <1>1, <2>1, <2>3, <2>4, <2>6, WebhookStep
  <2>7. CASE Goto(d, Returned(d)) /\ (row' = row \/ row' = Enqueued(TopicOf[d]))
        BY <1>1, <1>3, <2>1, <2>3, <2>4, <2>7, WebhookStep
  <2>8. QED
        BY <2>5, <2>6, <2>7
<1>7. CASE Create(d)
  <2>1. /\ docs' = Append(docs, "draft") /\ held' = [held EXCEPT ![d].doc = Len(docs) + 1]
        /\ Goto(d, "save") /\ pc[d] = "create" /\ row' = row
        /\ claim' = claim /\ sub' = sub /\ processed' = processed /\ credited' = credited
        BY <1>7 DEF Create
  <2>2. /\ docs' \in Seq({"draft", "final"}) /\ docs' # << >>
        /\ held' \in [Submitters \cup Deliveries -> [attempts : 0..Exhausted - 1, doc : 0..Len(docs')]]
        /\ processed \in 0..Len(docs')
        BY <1>1, <2>1, Documented
  <2>3. /\ pc' \in [Deliveries -> {"queued", "claim", "build", "create", "save", "row", "acked"}]
        /\ RowFields' /\ AttemptsBounded' /\ StaysDecided
        BY <2>1, Moved
  <2>4. DeferTypes'
        BY <1>1, <2>1, <2>2, <2>3 DEF DeferTypes
  <2>5. QED
        BY <2>1, <2>2, <2>3, <2>4 DEF DeferInv, SubmittedIsInvoiced, DecidedIsInvoiced
<1>8. CASE Save(d)
  <2>1. held[d].doc \in 0..Len(docs)
        BY <1>1 DEF DeferTypes
  <2>2. processed' \in 0..Len(docs)
        BY <1>1, <1>8, <2>1 DEF Save, Saved
  <2>3. QED
        BY <1>1, <1>3, <1>8, <2>2, WebhookStep DEF Save
<1>9. CASE Row(d)
  <2>1. docs' \in Seq({"draft", "final"}) /\ Len(docs') = Len(docs)
    <3>1. CASE processed = 0
          BY <1>1, <1>9, <3>1 DEF Row
    <3>2. CASE processed # 0
          BY <1>1, <1>9, <3>2 DEF Row
    <3>3. QED
          BY <3>1, <3>2
  <2>2. docs # << >> => docs' # << >>
        BY <1>1, <2>1
  <2>3. QED
        BY <1>1, <1>9, <2>1, <2>2, WebhookStep DEF Row, submitting
<1>10. CASE Update(d)
  <2>1. d \notin Past /\ "updated" \in Topics
        BY <1>10 DEF Update, Past, Topics
  <2>2. QED
        BY <1>1, <1>10, <2>1, WebhookStep DEF Update, submitting
<1>11. CASE Refund(d)
  <2>1. d \notin Past /\ "refund" \in Topics
        BY <1>11 DEF Refund, Past, Topics
  <2>2. credited' \in BOOLEAN /\ (row' = row \/ row' = Enqueued("refund"))
        BY <1>1, <1>11 DEF Refund
  <2>3. QED
        BY <1>1, <1>11, <2>1, <2>2, WebhookStep DEF Refund, submitting
<1>12. QED
       BY <1>4, <1>5, <1>6, <1>7, <1>8, <1>9, <1>10, <1>11 DEF Deliver

\* A submitter that creates nothing: it moves, forgets, and writes a row it may write.
LEMMA SubmitterStep ==
    ASSUME DeferInv, NEW x \in Submitters,
           sub' \in [Submitters -> {"idle", "ask", "check", "submit", "save", "resolve", "alert"}],
           \A y \in Submitters \ {x} : sub'[y] = sub[y],
           sub'[x] \in {"save", "resolve"} => docs # << >>,
           held' \in [Submitters \cup Deliveries -> [attempts : 0..Exhausted - 1, doc : 0..Len(docs)]],
           RowFields', row'.attempts = row.attempts \/ row'.attempts <= Exhausted,
           row'.status = row.status \/ (row'.status \in Decided /\ docs # << >>),
           processed' \in 0..Len(docs), docs' = docs, UNCHANGED <<pc, claim, credited>>
    PROVE  DeferInv' /\ StaysDecided
<1>1. AttemptsBounded'
      BY BoundKept DEF DeferInv
<1>2. DeferTypes'
      BY DEF DeferInv, DeferTypes
<1>3. StaysDecided
      BY DEF StaysDecided
<1>4. DecidedIsInvoiced'
      BY DEF DeferInv, DecidedIsInvoiced
<1>5. SubmittedIsInvoiced'
      BY DEF DeferInv, SubmittedIsInvoiced
<1>6. QED
      BY <1>1, <1>2, <1>3, <1>4, <1>5 DEF DeferInv

LEMMA RetryStep ==
    ASSUME DeferInv, NEW x \in Submitters, Retry(x) \/ Request(x) \/ Escalate(x)
    PROVE  DeferInv' /\ StaysDecided
<1>1. DeferTypes /\ docs' = docs /\ processed' = processed /\ processed \in 0..Len(docs)
      BY DEF DeferInv, DeferTypes, Retry, Request, Escalate
<1>2. CASE Retry(x)
  <2>1. row.attempts \in 0..Exhausted - 1
        BY <1>1, <1>2 DEF Retry, DeferTypes, RowFields, Exhausted
  <2>2. held' \in [Submitters \cup Deliveries -> [attempts : 0..Exhausted - 1, doc : 0..Len(docs)]]
    <3>1. held[x] \in [attempts : 0..Exhausted - 1, doc : 0..Len(docs)]
          BY <1>1 DEF DeferTypes
    <3>2. [held[x] EXCEPT !.attempts = row.attempts] \in [attempts : 0..Exhausted - 1, doc : 0..Len(docs)]
          BY <2>1, <3>1
    <3>3. held' = [held EXCEPT ![x] = [held[x] EXCEPT !.attempts = row.attempts]]
          BY <1>2 DEF Retry
    <3>4. QED
          BY <1>1, <3>2, <3>3 DEF DeferTypes
  <2>3. sub' = [sub EXCEPT ![x] = "ask"] /\ row' = row /\ UNCHANGED <<pc, claim, credited>>
        BY <1>2 DEF Retry, Turn, webhooks
  <2>4. QED
        BY <1>1, <2>2, <2>3, RowKept, SubmitterStep DEF DeferTypes
<1>3. CASE Request(x)
      BY <1>1, <1>3, RowKept, SubmitterStep DEF DeferTypes, Request, Turn, webhooks
<1>4. CASE Escalate(x)
      BY <1>1, <1>4, RowKept, SubmitterStep DEF DeferTypes, Escalate, Turn, webhooks
<1>5. QED
      BY <1>2, <1>3, <1>4

LEMMA WorkStep ==
    ASSUME DeferInv, NEW x \in Submitters, Work(x) \/ Crash(x)
    PROVE  DeferInv' /\ StaysDecided
<1>1. /\ DeferTypes /\ processed \in 0..Len(docs) /\ UNCHANGED <<pc, claim, credited>>
      /\ x \in Submitters \cup Deliveries
      BY DEF DeferInv, DeferTypes, Work, Crash, Ask, Check, Submit, Record, Resolve, Alert, webhooks
<1>2. Len(docs) \in Nat /\ (processed # 0 => docs # << >>)
      BY <1>1, DocsTyped
<1>3. ASSUME Rest(x)
      PROVE  /\ sub' \in [Submitters -> {"idle", "ask", "check", "submit", "save", "resolve", "alert"}]
             /\ \A y \in Submitters \ {x} : sub'[y] = sub[y]
             /\ sub'[x] = "idle"
             /\ held' = [held EXCEPT ![x] = Nothing]
      BY <1>1, <1>3 DEF Rest, Turn, DeferTypes
<1>4. ASSUME Rest(x), docs' = docs
      PROVE  held' \in [Submitters \cup Deliveries -> [attempts : 0..Exhausted - 1, doc : 0..Len(docs)]]
      BY <1>1, <1>3, <1>4, Forgotten
<1>5. ASSUME NEW label \in {"ask", "check", "submit", "save", "resolve", "alert"}, Turn(x, label)
      PROVE  /\ sub' \in [Submitters -> {"idle", "ask", "check", "submit", "save", "resolve", "alert"}]
             /\ \A y \in Submitters \ {x} : sub'[y] = sub[y]
             /\ sub'[x] = label
      BY <1>1, <1>5 DEF Turn, DeferTypes
<1>6. ASSUME NotSubmitted(x)
      PROVE  Rest(x) /\ RowFields' /\ row'.status = row.status
             /\ (row'.attempts = row.attempts \/ row'.attempts <= Exhausted)
      BY <1>1, <1>6, BackedOff, RowKept DEF NotSubmitted
<1>7. held \in [Submitters \cup Deliveries -> [attempts : 0..Exhausted - 1, doc : 0..Len(docs)]]
      BY <1>1 DEF DeferTypes
<1>8. CASE Ask(x)
  <2>1. docs' = docs /\ processed' = processed
        BY <1>8 DEF Ask
  <2>2. CASE Turn(x, "check") /\ UNCHANGED <<held, row>>
        BY <1>1, <1>5, <1>7, <2>1, <2>2, RowKept, SubmitterStep
  <2>3. CASE Rest(x) /\ Backoff(x)
        BY <1>1, <1>3, <1>4, <2>1, <2>3, BackedOff, SubmitterStep
  <2>4. QED
        BY <1>8, <2>2, <2>3 DEF Ask
<1>9. CASE Check(x)
  <2>1. docs' = docs /\ processed' = processed
        BY <1>9 DEF Check
  <2>2. CASE processed # 0 /\ row' = [row EXCEPT !.status = "resolved"] /\ Rest(x)
    <3>1. RowFields' /\ row'.attempts = row.attempts
          BY <1>1, <2>2, Touched DEF Statuses
    <3>2. row'.status = "resolved" /\ "resolved" \in Decided
          BY <1>1, <2>2 DEF DeferTypes, RowFields, Decided
    <3>3. QED
          BY <1>1, <1>2, <1>3, <1>4, <2>1, <2>2, <3>1, <3>2, SubmitterStep
  <2>3. CASE Turn(x, "submit") /\ UNCHANGED <<held, row>>
        BY <1>1, <1>5, <1>7, <2>1, <2>3, RowKept, SubmitterStep
  <2>4. CASE NotSubmitted(x)
        BY <1>1, <1>3, <1>4, <1>6, <2>1, <2>4, SubmitterStep
  <2>5. QED
        BY <1>9, <2>2, <2>3, <2>4 DEF Check
<1>10. CASE Submit(x)
  <2>1. processed' = processed
        BY <1>10 DEF Submit
  <2>2. CASE NotSubmitted(x) /\ docs' = docs
        BY <1>1, <1>3, <1>4, <1>6, <2>1, <2>2, SubmitterStep
  <2>3. CASE /\ docs' = Append(docs, "draft")
             /\ \/ NotSubmitted(x)
                \/ /\ held' = [held EXCEPT ![x].doc = Len(docs) + 1]
                   /\ Turn(x, "save") /\ row' = row
    <3>1. held' = [held EXCEPT ![x] = Nothing] \/ held' = [held EXCEPT ![x].doc = Len(docs) + 1]
          BY <1>3, <1>6, <2>3
    <3>2. /\ docs' \in Seq({"draft", "final"}) /\ docs' # << >>
          /\ held' \in [Submitters \cup Deliveries -> [attempts : 0..Exhausted - 1, doc : 0..Len(docs')]]
          /\ processed \in 0..Len(docs')
          BY <1>1, <2>3, <3>1, Documented
    <3>3. /\ sub' \in [Submitters -> {"idle", "ask", "check", "submit", "save", "resolve", "alert"}]
          /\ RowFields' /\ row'.status = row.status
          /\ (row'.attempts = row.attempts \/ row'.attempts <= Exhausted)
          BY <1>1, <1>3, <1>5, <1>6, <2>3, RowKept
    <3>4. AttemptsBounded'
          BY <1>1, <3>3, BoundKept DEF DeferInv
    <3>5. DeferTypes'
          BY <1>1, <2>1, <3>2, <3>3 DEF DeferTypes
    <3>6. QED
          BY <3>2, <3>3, <3>4, <3>5 DEF DeferInv, SubmittedIsInvoiced, DecidedIsInvoiced, StaysDecided
  <2>4. QED
        BY <1>10, <2>2, <2>3 DEF Submit
<1>11. CASE Record(x)
  <2>1. held[x].doc \in 0..Len(docs)
        BY <1>1, <1>7
  <2>2. processed' \in 0..Len(docs) /\ docs' = docs /\ held' = held /\ row' = row /\ Turn(x, "resolve")
        BY <1>1, <1>11, <2>1 DEF Record, Saved
  <2>3. docs # << >>
        BY <1>11 DEF Record, DeferInv, SubmittedIsInvoiced
  <2>4. QED
        BY <1>1, <1>5, <1>7, <2>2, <2>3, RowKept, SubmitterStep
<1>12. CASE Resolve(x)
  <2>1. docs' = docs /\ processed' = processed /\ Rest(x) /\ docs # << >>
        BY <1>12 DEF Resolve, DeferInv, SubmittedIsInvoiced
  <2>2. PICK s \in {"approved", "rejected"} : row' = [row EXCEPT !.status = s]
        BY <1>12 DEF Resolve
  <2>3. RowFields' /\ row'.attempts = row.attempts
        BY <1>1, <2>2, Touched DEF Statuses
  <2>4. row'.status = s /\ s \in Decided
        BY <1>1, <2>2 DEF DeferTypes, RowFields, Decided
  <2>5. QED
        BY <1>1, <1>3, <1>4, <2>1, <2>3, <2>4, SubmitterStep
<1>13. CASE Crash(x)
  <2>1. docs' = docs /\ processed' = processed /\ row' = row /\ Rest(x)
        BY <1>13 DEF Crash
  <2>2. QED
        BY <1>1, <1>3, <1>4, <2>1, RowKept, SubmitterStep
<1>14. CASE Alert(x)
  <2>1. docs' = docs /\ processed' = processed /\ Rest(x)
        BY <1>14 DEF Alert
  <2>2. row' = row \/ row' = [row EXCEPT !.incident = TRUE]
        BY <1>14 DEF Alert
  <2>3. RowFields' /\ row'.attempts = row.attempts /\ row'.status = row.status
        BY <1>1, <2>2, RowKept, Touched DEF DeferTypes, RowFields
  <2>4. QED
        BY <1>1, <1>3, <1>4, <2>1, <2>3, SubmitterStep
<1>15. QED
       BY <1>8, <1>9, <1>10, <1>11, <1>12, <1>13, <1>14 DEF Work

LEMMA FallDueStep == ASSUME DeferInv, FallDue PROVE DeferInv' /\ StaysDecided
<1>1. /\ RowFields' /\ row'.attempts = row.attempts /\ row'.status = row.status
      BY Touched DEF FallDue, DeferInv, DeferTypes, RowFields
<1>2. AttemptsBounded'
      BY <1>1, BoundKept DEF DeferInv, FallDue, webhooks
<1>3. DeferTypes'
      BY <1>1 DEF FallDue, DeferInv, DeferTypes, webhooks, submitting
<1>4. QED
      BY <1>1, <1>2, <1>3
      DEF DeferInv, FallDue, SubmittedIsInvoiced, DecidedIsInvoiced, StaysDecided, submitting

LEMMA ChangeStep == ASSUME DeferInv, Change PROVE DeferInv' /\ StaysDecided
BY DEF Change, webhooks, submitting, DeferInv, DeferTypes, RowFields, AttemptsBounded, Past,
       SubmittedIsInvoiced, DecidedIsInvoiced, StaysDecided

\* The two flags.
Watched == listed \in BOOLEAN /\ trouble \in BOOLEAN

LEMMA WatchedNext == Watched /\ [Next]_vars => Watched'
<1> SUFFICES ASSUME Watched, [Next]_vars PROVE Watched'
    OBVIOUS
<1>1. CASE UNCHANGED outside \/ UNCHANGED vars
      BY <1>1 DEF Watched, outside, vars
<1>2. CASE Change
      BY <1>2 DEF Watched, Change
<1>3. CASE \E x \in Submitters : Alert(x)
      BY <1>3 DEF Watched, Alert
<1>4. UNCHANGED outside \/ UNCHANGED vars \/ Change \/ \E x \in Submitters : Alert(x)
  <2>1. ASSUME NEW d \in Deliveries, Deliver(d) PROVE UNCHANGED outside
        BY <2>1 DEF Deliver, Start, Claim, Build, Create, Save, Row, Update, Refund
  <2>2. ASSUME NEW x \in Submitters,
               Retry(x) \/ Request(x) \/ Escalate(x) \/ Crash(x) \/ (Work(x) /\ ~Alert(x))
        PROVE  UNCHANGED outside
        BY <2>2 DEF Retry, Request, Escalate, Crash, Work, Ask, Check, Submit, Record, Resolve
  <2>3. FallDue => UNCHANGED outside
        BY DEF FallDue
  <2>4. QED
        BY <2>1, <2>2, <2>3 DEF Next
<1>5. QED
      BY <1>1, <1>2, <1>3, <1>4

LEMMA DeferInvNext == DeferInv /\ [Next]_vars => DeferInv' /\ StaysDecided
<1> SUFFICES ASSUME DeferInv, [Next]_vars PROVE DeferInv' /\ StaysDecided
    OBVIOUS
<1>1. CASE UNCHANGED vars
      BY <1>1 DEF vars, DeferInv, DeferTypes, RowFields, AttemptsBounded, Past, SubmittedIsInvoiced,
                  DecidedIsInvoiced, StaysDecided
<1>2. CASE FallDue \/ Change
      BY <1>2, FallDueStep, ChangeStep
<1>3. CASE \E d \in Deliveries : Deliver(d)
      BY <1>3, DeliverStep
<1>4. CASE \E x \in Submitters : Retry(x) \/ Request(x) \/ Work(x) \/ Escalate(x) \/ Crash(x)
      BY <1>4, RetryStep, WorkStep
<1>5. QED
      BY <1>1, <1>2, <1>3, <1>4 DEF Next

\* Every variable of PendingReverseCharge keeps to its type, the attempts of a row
\* to three and one for each webhook message, however many submitters run beside
\* one another.
THEOREM DeferredTypes == Spec => []TypeOK
<1>1. DeferInv /\ Watched => TypeOK
  <2> SUFFICES ASSUME DeferInv, Watched PROVE TypeOK
      OBVIOUS
  <2>1. Past \subseteq Deliveries /\ IsFiniteSet(Deliveries)
        BY ConstantsOK DEF Past
  <2>2. /\ Cardinality(Past) \in Nat /\ Cardinality(Deliveries) \in Nat
        /\ Cardinality(Past) <= Cardinality(Deliveries)
        BY <2>1, FS_Subset, FS_CardinalityType
  <2>3. row.attempts \in 0..(Exhausted + Cardinality(Deliveries))
        BY <2>2 DEF DeferInv, AttemptsBounded, DeferTypes, RowFields, Exhausted
  <2>4. row \in [status : Statuses, attempts : 0..(Exhausted + Cardinality(Deliveries)),
                 due : BOOLEAN, incident : BOOLEAN, refund : BOOLEAN]
        BY <2>3 DEF DeferInv, DeferTypes, RowFields
  <2>5. QED
        BY <2>4 DEF DeferInv, DeferTypes, Watched, TypeOK
<1>2. Init => Watched
      BY DEF Init, Watched
<1>3. QED
      BY DeferInvInit, DeferInvNext, WatchedNext, <1>1, <1>2, PTL DEF Spec

\* A deferred sale is not written off: a row of pending_reverse_charge is decided
\* only once the order has a document, however many crons and admins submit it,
\* whatever webhooks run beside them, and whatever is refused, lost or dies.
THEOREM DecidedAlwaysInvoiced == Spec => []DecidedIsInvoiced
<1>1. DeferInv => DecidedIsInvoiced
      BY DEF DeferInv
<1>2. QED
      BY DeferInvInit, DeferInvNext, <1>1, PTL DEF Spec

\* A decided row is never put back among the pending ones, by no webhook that parks
\* more work in it and by no cron that read it before it was decided.
THEOREM DecidedForGood == Spec => DecidedStaysDecided
<1>1. DeferInv /\ [Next]_vars => [row.status \in Decided => row'.status \in Decided]_vars
      BY DeferInvNext DEF StaysDecided
<1>2. QED
      BY DeferInvInit, DeferInvNext, <1>1, PTL DEF Spec, DecidedStaysDecided
=============================================================================
