---------------------------- MODULE LodgifyPass ----------------------------
(***************************************************************************)
(* One Lodgify booking on a connection in invoice_plus_receipts mode: the  *)
(* stay is invoiced in full as a Fatura at Moloni, every payment recorded  *)
(* in Lodgify is then receipted against it, and a cancelled stay has its   *)
(* drafts taken back.                                                      *)
(*                                                                         *)
(* The work is done by passes.  A poll pass (pollLodgifyBookings, from the *)
(* 30-minute cron or an admin) runs under the account's run lock: list the *)
(* bookings, bill or take back, settle.  A desk pass (POST                 *)
(* /admin/lodgify/settle-receipts) only settles, without that lock, on the *)
(* mirror.  What the two share is the settlement claim, the settlement     *)
(* row, and Moloni.  One action is the code between two awaits that others *)
(* can observe.                                                            *)
(*                                                                         *)
(* Amounts are whole units.  Total is what the stay costs.                 *)
(***************************************************************************)
EXTENDS Integers, Sequences, FiniteSets

CONSTANTS
    Polls,         \* who runs pollLodgifyBookings: the cron, an admin
    Desks,         \* who calls the admin route that only settles
    Total,         \* total_amount of the booking, and of its Fatura
    MaxDocs,       \* bound on the documents ever created for the booking
    MaxAttempts,   \* MISSING_MAX_ATTEMPTS
    MaxMoves,      \* bound on what happens to the booking in Lodgify
    MaxMishaps,    \* bound on failed calls, on invocations that die half way and
                   \* on locks lost to staleness by a live holder, together
    MissedLookups, \* the search by reference may miss a document that stands: not
                   \* indexed yet, or a search Moloni refused, which reads as "none"
    Overrun,       \* locks a live pass may hold past their window: "run", "settle"
    Unreconciled,  \* Moloni may accept a receipt and not reconcile it
    Forcing        \* the desk may set force on the booking it names

ASSUME PassConstants ==
    /\ IsFiniteSet(Polls) /\ IsFiniteSet(Desks)
    /\ "free" \notin Polls \cup Desks /\ "dead" \notin Polls \cup Desks
    /\ {Total, MaxDocs, MaxAttempts} \subseteq Nat \ {0}
    /\ {MaxMoves, MaxMishaps} \subseteq Nat
    /\ Overrun \subseteq {"run", "settle"}
    /\ {MissedLookups, Unreconciled, Forcing} \subseteq BOOLEAN

VARIABLES
    booking,       \* the booking in Lodgify: status and amount collected
    mirror,        \* its lodgify_bookings row
    fatura,        \* the booking's documents at Moloni, by id
    run_lock,      \* sweep_state row lodgify-run:<user>: "free", a pass, "dead"
    marker,        \* webhook_info state of lodgify/created
    sale_row,      \* invoice_id of the processed_orders row, 0 for none
    settle_claim,  \* order_claims rows in scope settle:<user>, by document
    settlements,   \* lodgify_settlements rows, by document
    stage,         \* where each pass stands
    item,          \* the booking as a pass read it
    target,        \* the document a pass works on, 0 for none
    known,         \* the settlement row as the pass read it at its start
    seen,          \* reconciled_value a pass read before its receipt
    outcome,       \* the settlement row a pass is about to write
    mishaps        \* how often each bounded circumstance has occurred

pass == <<stage, item, target, known, seen, outcome>>
passVars == <<booking, mirror, fatura, run_lock, marker, sale_row,
              settle_claim, settlements, pass, mishaps>>

Passes   == Polls \cup Desks
DocIds   == 1..MaxDocs
Null     == -1
Lesser(a, b) == IF a < b THEN a ELSE b

NoItem == [status |-> "none", collected |-> 0]
NoFact == [status |-> "none", collected |-> Null, settled |-> Null,
           human |-> FALSE, attempts |-> 0, cool |-> FALSE]

\* Faulty: what was paid, however much, is what is invoiced.
RawCollected(paid, due) == paid

\* bookingCollectedAmount: money recorded is the only signal, a balance of zero
\* only refines it.
Collected(paid, due) ==
    IF paid = 0 THEN 0 ELSE IF due = 0 THEN Total ELSE Lesser(paid, Total)

\* Faulty: the amount is what came in, whatever was settled before.
DeltaOfTotal(collected, settled) == Lesser(collected, Total)

\* receiptDelta.
ReceiptDelta(collected, settled) ==
    LET owed == Lesser(collected, Total) - settled IN IF owed > 0 THEN owed ELSE 0

\* Faulty: a closed document is not asked about again.
AskedOnce(row, collected) == row = NoFact \/ (row.status # "closed" /\ ~row.cool)

\* shouldAskDestination, over a cached answer.
ShouldAsk(row, collected) ==
    \/ row = NoFact
    \/ /\ ~row.human
       /\ \/ row.collected # collected
          \/ row.status # "closed" /\ ~row.cool
          \/ row.status = "closed" /\ row.settled < Lesser(collected, Total)

Standing(d) == fatura[d].state \in {"draft", "closed"}

Billing  == {"list", "bill", "lookup", "create", "save", "undo", "forget"}
Settling == {"ask", "insert", "verify", "write"}
Stages   == {"idle", "settle", "force", "claim", "done"} \cup Billing \cup Settling

PassInit ==
    /\ booking = [status |-> "booked", collected |-> 0]
    /\ mirror = NoItem
    /\ fatura = [d \in DocIds |-> [state |-> "none", reconciled |-> 0, issued |-> 0, suspect |-> FALSE]]
    /\ run_lock = "free"
    /\ marker = "none"
    /\ sale_row = 0
    /\ settle_claim = [d \in DocIds |-> "free"]
    /\ settlements = [d \in DocIds |-> NoFact]
    /\ stage = [p \in Passes |-> "idle"]
    /\ item = [p \in Passes |-> NoItem]
    /\ target = [p \in Passes |-> 0]
    /\ known = [p \in Passes |-> NoFact]
    /\ seen = [p \in Passes |-> 0]
    /\ outcome = [p \in Passes |-> NoFact]
    /\ mishaps = [moves |-> 0, faults |-> 0, outlived |-> 0]

\* A call fails or an invocation dies; a live holder loses its lock.
Spare   == mishaps.faults + mishaps.outlived < MaxMishaps
Fault   == Spare /\ mishaps' = [mishaps EXCEPT !.faults = @ + 1]
Outlive == Spare /\ mishaps' = [mishaps EXCEPT !.outlived = @ + 1]
NoFault == UNCHANGED mishaps
ByHand  == mishaps.moves < MaxMoves /\ mishaps' = [mishaps EXCEPT !.moves = @ + 1]

Go(p, next) == stage' = [stage EXCEPT ![p] = next]

\* Faulty: a lock is taken whoever holds it.
TakeableByAnyone(lock, holder, p) == NoFault

\* A lock is free, or taken from a holder that outlived its staleness window.
Takeable(lock, holder, p) ==
    \/ holder = "free" /\ NoFault
    \/ lock \in Overrun /\ holder \in Passes \ {p} /\ Outlive

\* Faulty: the release does not look whose lock it is.
ReleasedBlindly(holder, p) == "free"

\* A release names its token.
Released(holder, p) == IF holder = p THEN "free" ELSE holder

records == <<marker, sale_row>>
locals  == <<item, target, known, seen, outcome>>

\* What a pass no longer needs is forgotten at once.
Drop(p)  == known' = [known EXCEPT ![p] = NoFact] /\ seen' = [seen EXCEPT ![p] = 0]
Close(p) == Drop(p) /\ item' = [item EXCEPT ![p] = NoItem]
                    /\ outcome' = [outcome EXCEPT ![p] = NoFact]
Reset(p) == Close(p) /\ target' = [target EXCEPT ![p] = 0]

-----------------------------------------------------------------------------
(* Lodgify and the merchant.                                               *)

\* A payment is recorded, corrected or refunded, the stay is cancelled or
\* reinstated.
Move ==
    /\ ByHand
    /\ \/ \E paid \in 0..(Total + 1), due \in {0, 1} :
            booking' = [booking EXCEPT !.collected = Collected(paid, due)]
       \/ \E status \in {"booked", "cancelled"} : booking' = [booking EXCEPT !.status = status]
    /\ booking' # booking
    /\ UNCHANGED <<mirror, fatura, run_lock, records, settle_claim, settlements, pass>>

\* The draft is closed, by auto_finalize or by the merchant, or deleted by hand.
Approve(d) ==
    /\ fatura[d].state = "draft"
    /\ \/ fatura' = [fatura EXCEPT ![d].state = "closed"] /\ NoFault
       \/ fatura' = [fatura EXCEPT ![d].state = "gone"] /\ ByHand
    /\ UNCHANGED <<booking, mirror, run_lock, records, settle_claim, settlements, pass>>

\* DRAFT_COOLDOWN_MS goes by.
CooldownOver(d) ==
    /\ settlements[d].cool
    /\ settlements' = [settlements EXCEPT ![d].cool = FALSE]
    /\ UNCHANGED <<booking, mirror, fatura, run_lock, records, settle_claim, pass, mishaps>>

\* The staleness window of a lock whose holder is no more goes by: a quarter of an
\* hour for the run lock, ten minutes for a settlement claim.
Lapse ==
    /\ \/ run_lock = "dead" /\ run_lock' = "free" /\ UNCHANGED settle_claim
       \/ \E d \in DocIds : /\ settle_claim[d] = "dead"
                            /\ settle_claim' = [settle_claim EXCEPT ![d] = "free"]
                            /\ UNCHANGED run_lock
    /\ UNCHANGED <<booking, mirror, fatura, records, settlements, pass, mishaps>>

-----------------------------------------------------------------------------
(* A poll pass: the run lock, the list, and one booking of the loop.       *)

\* claimRunLock; a pass that finds the account busy, or the table unreachable,
\* skips it and stays idle.
Start(p) ==
    /\ stage[p] = "idle"
    /\ Takeable("run", run_lock, p)
    /\ run_lock' = p
    /\ Go(p, "list")
    /\ UNCHANGED <<booking, mirror, fatura, records, settle_claim, settlements, locals>>

\* listLodgifyBookings throws on anything but a full list, which ends the pass;
\* the mirror is written best effort.
List(p) ==
    /\ stage[p] = "list"
    /\ \/ /\ item' = [item EXCEPT ![p] = booking]
          /\ \/ mirror' = booking /\ NoFault
             \/ UNCHANGED mirror /\ Fault
          /\ Go(p, "bill")
       \/ /\ Fault /\ Go(p, "done")
          /\ UNCHANGED <<item, mirror>>
    /\ UNCHANGED <<booking, fatura, run_lock, records, settle_claim, settlements,
                   target, known, seen, outcome>>

\* isWebhookProcessed: a row left processing counts for ten minutes.
SeenDone == marker \in {"success", "processing"}
SeenNew  == marker # "success"

\* Faulty: a booking already dealt with is not looked at again.
CancelledAnew(p) == item[p].status = "cancelled" /\ ~SeenDone

\* Which stays are taken back.
Reversed(p) == item[p].status = "cancelled"

\* The loop body up to the pipeline: cancelled stays are reversed, money recorded
\* is what bills one, the marker and then the sale row stop a second document.
Bill(p) ==
    /\ stage[p] = "bill"
    /\ \/ /\ Reversed(p)
          /\ Go(p, "undo")
          /\ UNCHANGED marker
       \/ /\ ~Reversed(p) /\ item[p].collected > 0
          /\ SeenNew /\ sale_row = 0
          /\ marker' = "processing"
          /\ Go(p, "lookup")
       \/ /\ ~Reversed(p)
          /\ Go(p, "settle")
          /\ \/ item[p].collected = 0 /\ UNCHANGED marker
             \/ item[p].collected > 0 /\ SeenDone /\ UNCHANGED marker
             \/ item[p].collected > 0 /\ SeenNew /\ sale_row # 0 /\ marker' = "success"
    /\ UNCHANGED <<booking, mirror, fatura, run_lock, sale_row, settle_claim,
                   settlements, locals, mishaps>>

\* findByReference: a document of this sale ends the pipeline, which records
\* nothing, and the pass marks a success.  A search that fails for the moment is a
\* failure of the pipeline, one that Moloni refuses a miss.
Lookup(p) ==
    /\ stage[p] = "lookup"
    /\ \/ /\ \E d \in DocIds : Standing(d)
          /\ marker' = "success" /\ Go(p, "settle") /\ NoFault
       \/ /\ MissedLookups \/ \A d \in DocIds : ~Standing(d)
          /\ Go(p, "create") /\ UNCHANGED marker /\ NoFault
       \/ marker' = "failed" /\ Go(p, "settle") /\ Fault
    /\ UNCHANGED <<booking, mirror, fatura, run_lock, sale_row, settle_claim,
                   settlements, locals>>

NextDoc == CHOOSE d \in DocIds :
             fatura[d].state = "none" /\ \A e \in DocIds : e < d => fatura[e].state # "none"

Create(p) ==
    /\ stage[p] = "create"
    /\ \/ /\ \E d \in DocIds : fatura[d].state = "none"
          /\ fatura' = [fatura EXCEPT ![NextDoc].state = "draft"]
          /\ \/ /\ target' = [target EXCEPT ![p] = NextDoc]
                /\ Go(p, "save") /\ UNCHANGED marker /\ NoFault
             \/ marker' = "failed" /\ Go(p, "settle") /\ Fault /\ UNCHANGED target
       \/ /\ marker' = "failed" /\ Go(p, "settle") /\ Fault
          /\ UNCHANGED <<fatura, target>>
    /\ UNCHANGED <<booking, mirror, run_lock, sale_row, settle_claim, settlements,
                   item, known, seen, outcome>>

\* saveProcessedInvoice swallows a failed write; what follows in the pipeline may
\* still throw (a refused finalize), with the row written.
Save(p) ==
    /\ stage[p] = "save"
    /\ \/ sale_row' = target[p] /\ marker' = "success" /\ NoFault
       \/ UNCHANGED sale_row /\ marker' = "success" /\ Fault
       \/ sale_row' = target[p] /\ marker' = "failed" /\ Fault
    /\ target' = [target EXCEPT ![p] = 0]
    /\ Go(p, "settle")
    /\ UNCHANGED <<booking, mirror, fatura, run_lock, settle_claim, settlements,
                   item, known, seen, outcome>>

\* takeBackLodgifyDocuments: a draft is deleted, a closed document left standing
\* with an incident.  The lookup of deleteDraft takes silence for absence.
Undo(p) ==
    /\ stage[p] = "undo"
    /\ \/ /\ sale_row = 0
          /\ Go(p, "settle") /\ NoFault
          /\ UNCHANGED <<fatura, target>>
       \/ /\ sale_row # 0
          /\ fatura' = IF fatura[sale_row].state = "draft"
                       THEN [fatura EXCEPT ![sale_row].state = "gone"] ELSE fatura
          /\ NoFault
          /\ IF fatura'[sale_row].state = "gone"
             THEN Go(p, "forget") /\ target' = [target EXCEPT ![p] = sale_row]
             ELSE Go(p, "settle") /\ UNCHANGED target
       \/ /\ sale_row # 0 /\ Fault
          /\ \/ Go(p, "forget") /\ target' = [target EXCEPT ![p] = sale_row]
             \/ Go(p, "settle") /\ UNCHANGED target
          /\ UNCHANGED fatura
    /\ UNCHANGED <<booking, mirror, run_lock, records, settle_claim, settlements,
                   item, known, seen, outcome>>

\* resetWebhookInfo deletes the marker and the processed_orders row.
Forget(p) ==
    /\ stage[p] = "forget"
    /\ \/ marker' = "none" /\ sale_row' = 0 /\ NoFault
       \/ marker' = "none" /\ UNCHANGED sale_row /\ Fault
       \/ UNCHANGED marker /\ sale_row' = 0 /\ Fault
    /\ target' = [target EXCEPT ![p] = 0]
    /\ Go(p, "settle")
    /\ UNCHANGED <<booking, mirror, fatura, run_lock, settle_claim, settlements,
                   item, known, seen, outcome>>

-----------------------------------------------------------------------------
(* settleLodgifyReceipts, called by a poll pass or by the desk.            *)

\* The admin route, on a mirror row younger than six hours, forced or not.
Call(p) ==
    /\ stage[p] = "idle"
    /\ mirror # NoItem
    /\ item' = [item EXCEPT ![p] = mirror]
    /\ \/ Go(p, "settle")
       \/ Forcing /\ Go(p, "force")
    /\ UNCHANGED <<booking, mirror, fatura, run_lock, records, settle_claim,
                   settlements, target, known, seen, outcome, mishaps>>

\* Which rows are candidates.  The settlement rows are read here, once, for the
\* whole pass; unreadable ones stop it.  Only a forced call asks about a document
\* parked for a human.
Gate(p) ==
    LET due == /\ sale_row # 0 /\ item[p].status = "booked"
               /\ stage[p] = "force" \/ ShouldAsk(settlements[sale_row], item[p].collected)
    IN /\ stage[p] \in {"settle", "force"}
       /\ \/ /\ due /\ NoFault
             /\ target' = [target EXCEPT ![p] = sale_row]
             /\ known' = [known EXCEPT ![p] = settlements[sale_row]]
             /\ Go(p, "claim")
             /\ UNCHANGED item
          \/ /\ (~due /\ NoFault) \/ Fault
             /\ item' = [item EXCEPT ![p] = NoItem]
             /\ Go(p, "done")
             /\ UNCHANGED <<target, known>>
       /\ UNCHANGED <<booking, mirror, fatura, run_lock, records, settle_claim,
                      settlements, seen, outcome>>

\* Faulty: a claim that cannot be taken is settled without.
FailOpen(p) == Go(p, "ask") /\ UNCHANGED <<settle_claim, locals>>

\* claimSettlement answered no, or did not answer.
FailClosed(p) == Go(p, "done") /\ Reset(p) /\ UNCHANGED settle_claim

Claim(p) ==
    /\ stage[p] = "claim"
    /\ \/ /\ Takeable("settle", settle_claim[target[p]], p)
          /\ settle_claim' = [settle_claim EXCEPT ![target[p]] = p]
          /\ Go(p, "ask") /\ UNCHANGED locals
       \/ settle_claim[target[p]] # "free" /\ FailClosed(p) /\ NoFault
       \/ settle_claim[target[p]] = "free" /\ FailClosed(p) /\ Fault
    /\ UNCHANGED <<booking, mirror, fatura, run_lock, records, settlements>>

\* The row of a typed outcome: what the destination said, unlatched.
Answered(p, status, settled) ==
    [status |-> status, collected |-> item[p].collected, settled |-> settled,
     human |-> FALSE, attempts |-> 0, cool |-> status = "draft"]

\* The row of an outcome that was thrown: the old answer, one attempt more.
Thrown(p) ==
    [known[p] EXCEPT !.attempts = @ + 1, !.cool = FALSE,
                     !.human = known[p].attempts + 1 >= MaxAttempts]

Verdict(p, row) == outcome' = [outcome EXCEPT ![p] = row] /\ Drop(p) /\ Go(p, "write")

\* settleDocument up to its insert: the live document decides the amount.
Ask(p) ==
    /\ stage[p] = "ask"
    /\ LET d == fatura[target[p]]
           value == ReceiptDelta(item[p].collected, d.reconciled)
       IN \/ /\ d.state = "gone"  /\ Verdict(p, Answered(p, "unknown", Null))
             /\ NoFault
          \/ /\ d.state = "draft" /\ Verdict(p, Answered(p, "draft", 0))
             /\ NoFault
          \/ /\ d.state = "closed" /\ value = 0
             /\ Verdict(p, Answered(p, "closed", d.reconciled))
             /\ NoFault
          \/ /\ d.state = "closed" /\ value > 0
             /\ seen' = [seen EXCEPT ![p] = d.reconciled]
             /\ Go(p, "insert") /\ NoFault /\ UNCHANGED <<outcome, known>>
          \/ /\ d.state = "closed" /\ value > 0
             /\ Verdict(p, Answered(p, "closed", d.reconciled))
             /\ Fault
          \/ Verdict(p, Thrown(p)) /\ Fault
    /\ UNCHANGED <<booking, mirror, fatura, run_lock, records, settle_claim,
                   settlements, item, target>>

Value(p) == ReceiptDelta(item[p].collected, seen[p])

\* The receipt: Moloni refuses one above what is outstanding, may take it without
\* reconciling the document, may answer without an id, or not at all.
Insert(p) ==
    /\ stage[p] = "insert"
    /\ LET d == target[p]
           Accepted(by) == fatura' = [fatura EXCEPT ![d].issued = @ + Value(p),
                                                    ![d].reconciled = @ + by]
       IN \/ /\ fatura[d].reconciled + Value(p) <= Total
             /\ Accepted(Value(p))
             /\ \/ Go(p, "verify") /\ UNCHANGED <<outcome, known, seen>> /\ NoFault
                \/ Verdict(p, Answered(p, "closed", seen[p])) /\ Fault
                \/ Verdict(p, Thrown(p)) /\ Fault
          \/ /\ Unreconciled /\ Accepted(0)
             /\ Go(p, "verify") /\ UNCHANGED <<outcome, known, seen>> /\ Fault
          \/ /\ fatura[d].reconciled + Value(p) > Total
             /\ Verdict(p, Thrown(p)) /\ UNCHANGED fatura /\ NoFault
          \/ Verdict(p, Thrown(p)) /\ UNCHANGED fatura /\ Fault
    /\ UNCHANGED <<booking, mirror, run_lock, records, settle_claim, settlements,
                   item, target>>

\* The read-back.  A document that did not reconcile is not_reconciled, and from
\* here on the code knows that another receipt would be a second one.
Verify(p) ==
    /\ stage[p] = "verify"
    /\ LET d == target[p] IN
       \/ /\ Verdict(p, Answered(p, "closed", fatura[d].reconciled))
          /\ fatura' = [fatura EXCEPT ![d].suspect =
                            @ \/ fatura[d].reconciled < seen[p] + Value(p)]
          /\ NoFault
       \/ Verdict(p, Answered(p, "closed", seen[p])) /\ UNCHANGED fatura /\ Fault
    /\ UNCHANGED <<booking, mirror, run_lock, records, settle_claim, settlements,
                   item, target>>

\* The row reaches D1 unlatched, before the branch that decides to park the
\* document: needsHuman and attempts are then set on a local nobody writes again.
\* Only the cooldown of a draft is written a second time.
Write(p) ==
    /\ stage[p] = "write"
    /\ \/ settlements' = [settlements EXCEPT ![target[p]] = outcome[p]] /\ NoFault
       \/ /\ outcome[p].cool /\ Fault
          /\ settlements' = [settlements EXCEPT ![target[p]] = [outcome[p] EXCEPT !.cool = FALSE]]
       \/ UNCHANGED settlements /\ Fault
    /\ Go(p, "done") /\ Close(p)
    /\ UNCHANGED <<booking, mirror, fatura, run_lock, records, settle_claim, target>>

\* releaseSettlementClaim, then releaseRunLock; the desk took no run lock.  A
\* release that fails leaves what a crash here leaves.
Finish(p) ==
    /\ stage[p] = "done"
    /\ settle_claim' = [d \in DocIds |-> IF d = target[p] THEN Released(settle_claim[d], p)
                                                         ELSE settle_claim[d]]
    /\ run_lock' = IF p \in Polls THEN Released(run_lock, p) ELSE run_lock
    /\ Go(p, "idle") /\ Reset(p)
    /\ UNCHANGED <<booking, mirror, fatura, records, settlements, mishaps>>

\* The invocation dies; what it holds goes stale.
Crash(p) ==
    /\ stage[p] # "idle"
    /\ Fault
    /\ Go(p, "idle") /\ Reset(p)
    /\ run_lock' = IF run_lock = p THEN "dead" ELSE run_lock
    /\ settle_claim' = [d \in DocIds |-> IF settle_claim[d] = p THEN "dead" ELSE settle_claim[d]]
    /\ UNCHANGED <<booking, mirror, fatura, records, settlements>>

Bills(p)   == Start(p) \/ List(p) \/ Bill(p) \/ Lookup(p) \/ Create(p) \/ Save(p)
              \/ Undo(p) \/ Forget(p)
Settles(p) == Gate(p) \/ Claim(p) \/ Ask(p) \/ Insert(p) \/ Verify(p) \/ Write(p) \/ Finish(p)

PassNext ==
    \/ Move \/ Lapse
    \/ \E d \in DocIds : Approve(d) \/ CooldownOver(d)
    \/ \E p \in Polls : Bills(p)
    \/ \E p \in Desks : Call(p)
    \/ \E p \in Passes : Settles(p) \/ Crash(p)

PassSpec == PassInit /\ [][PassNext]_passVars

-----------------------------------------------------------------------------
(* Properties.                                                             *)

\* Every variable keeps to its type.
PassTypeOK ==
    LET Booking == [status : {"booked", "cancelled"}, collected : 0..Total]
        Row == [status : {"none", "unknown", "draft", "closed"},
                collected : {Null} \cup 0..Total, settled : {Null} \cup 0..Total,
                human : BOOLEAN, attempts : Nat, cool : BOOLEAN]
    IN /\ booking \in Booking
       /\ mirror \in Booking \cup {NoItem}
       /\ fatura \in [DocIds -> [state : {"none", "draft", "closed", "gone"},
                                 reconciled : 0..Total, issued : Nat, suspect : BOOLEAN]]
       /\ run_lock \in Polls \cup {"free", "dead"}
       /\ marker \in {"none", "processing", "success", "failed"}
       /\ sale_row \in {0} \cup DocIds
       /\ settle_claim \in [DocIds -> Passes \cup {"free", "dead"}]
       /\ settlements \in [DocIds -> Row]
       /\ stage \in [Passes -> Stages]
       /\ item \in [Passes -> Booking \cup {NoItem}]
       /\ target \in [Passes -> {0} \cup DocIds]
       /\ known \in [Passes -> Row] /\ outcome \in [Passes -> Row]
       /\ seen \in [Passes -> 0..Total]
       /\ mishaps \in [{"moves", "faults", "outlived"} -> Nat]

Outlived == mishaps.outlived > 0

\* One Fatura stands per booking at a time, however passes, crashes, lost answers
\* and lost rows interleave, as long as no pass outlives its lock and the search misses
\* no document (MissedLookups).
OneFatura == ~Outlived => Cardinality({d \in DocIds : Standing(d)}) <= 1

\* Whoever issues a receipt has seen all the receipts of the document covered by
\* money collected, the new one included.
ReceiptsCovered ==
    [][\A d \in DocIds : fatura'[d].issued > fatura[d].issued /\ ~Outlived =>
          \E p \in Passes : /\ stage[p] = "insert" /\ target[p] = d
                            /\ fatura'[d].issued <= item[p].collected]_passVars

\* Two settlements never work on one document, a poll and the desk included.
OneSettler ==
    ~Outlived => \A p, q \in Passes :
        stage[p] \in Settling /\ stage[q] \in Settling /\ target[p] = target[q] => p = q

\* A lock a live pass holds is given back by that pass, or taken from it once it
\* has gone stale; a pass that lost its lock gives nothing back.
ReleaseIsOwn ==
    [][\A p \in Passes :
          /\ run_lock = p /\ run_lock' \in {"free", "dead"} => stage[p] # "idle" /\ stage'[p] = "idle"
          /\ \A d \in DocIds :
                settle_claim[d] = p /\ settle_claim'[d] \in {"free", "dead"}
                   => target[p] = d /\ stage[p] # "idle" /\ stage'[p] = "idle"]_passVars

\* A document whose receipt was accepted and not reconciled takes no second one.
NoSecondReceipt ==
    [][\A d \in DocIds : fatura[d].suspect => fatura'[d].issued = fatura[d].issued]_passVars

\* Fairness: a poll comes back (the cron, every half hour), an invocation that has
\* started goes on, and time passes.
Proceeds(p) == stage[p] # "idle" /\ ((p \in Polls /\ Bills(p)) \/ Settles(p))

PassFairness ==
    /\ WF_passVars(\E p \in Polls : Start(p))
    /\ \A p \in Passes : WF_passVars(Proceeds(p))
    /\ WF_passVars(Lapse)
    /\ WF_passVars(\E d \in DocIds : CooldownOver(d))

PassFairSpec == PassSpec /\ PassFairness

Owed ==
    /\ sale_row # 0
    /\ fatura[sale_row].state = "closed" /\ booking.status = "booked"
    /\ fatura[sale_row].reconciled < Lesser(booking.collected, Total)
    /\ ~settlements[sale_row].human

\* Money collected on a certified document on record is eventually receipted, or
\* a person is asked to look.
MoneyRecorded == Owed ~> ~Owed

Stray == sale_row # 0 /\ booking.status = "cancelled" /\ fatura[sale_row].state = "draft"

\* A cancelled stay does not keep a draft we have on record.
DraftTakenBack == Stray ~> ~Stray
=============================================================================
