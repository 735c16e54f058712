------------------------ MODULE PendingReverseCharge ------------------------
(***************************************************************************)
(* Sales to a business in another member state, when VIES does not answer  *)
(* in time: the work is parked in pending_reverse_charge, one row per      *)
(* order, and the daily cron or an admin takes it up again                 *)
(* (runViesRetry, submitInvoiceForPendingRow, the approve and reject       *)
(* routes).                                                                *)
(*                                                                         *)
(* Four webhooks park their work in the same row: orders/created and       *)
(* orders/paid an invoice to issue, orders/updated an edit to send,        *)
(* refunds/create a credit note.  They run under the order's claim or      *)
(* under none; whoever submits a row takes no claim at all.                *)
(*                                                                         *)
(* One order of one Shopify shop on InvoiceXpress.  What ShopifyLegacy     *)
(* says of claims, retries and failures is reduced here to its result.  The *)
(* writes to the row itself, which the code lets fail in silence, succeed.  *)
(***************************************************************************)
EXTENDS Naturals, Sequences, FiniteSets

CONSTANTS
    Deliveries,   \* the order's webhook messages
    TopicOf,      \* what each is
    Crons,        \* overlapping invocations of the daily cron
    Admins,       \* approve or reject requests under way at one time
    Refusals,     \* InvoiceXpress may refuse the deferred document
    LostAnswers,  \* it may create it and the answer be lost
    SaveFaults,   \* the write to processed_orders may fail, unnoticed
    LostReports,  \* reportIncident may store nothing, unnoticed
    MaxDocs       \* bound on the documents ever created for the order

Topics     == {"created", "paid", "updated", "refund"}
Submitters == Crons \cup Admins

ASSUME ConstantsOK ==
    /\ IsFiniteSet(Deliveries)
    /\ TopicOf \in [Deliveries -> Topics]
    /\ Crons \cap Admins = {}
    /\ {Refusals, LostAnswers, SaveFaults, LostReports} \subseteq BOOLEAN
    /\ MaxDocs \in Nat

VARIABLES
    pc,         \* where each webhook message stands
    claim,      \* the delivery that holds the order's claim, or "nobody"
    sub,        \* where each submitter stands
    held,       \* in locals: the attempts that were read, the document created
    row,        \* the pending_reverse_charge row
    processed,  \* the document processed_orders names, 0 for none
    docs,       \* the states of the order's documents at InvoiceXpress, by id
    credited,   \* the refund has its credit note
    listed,     \* an incident about the row is stored, for people to see
    trouble     \* the shop may have no integrations row, and runs may end early

vars == <<pc, claim, sub, held, row, processed, docs, credited, listed, trouble>>

NoRow   == [status |-> "none", attempts |-> 0, due |-> FALSE, incident |-> FALSE,
            refund |-> FALSE]
Nothing == [attempts |-> 0, doc |-> 0]

\* getPendingForRetry retries below it, getPendingNeedingIncident reports from it.
Exhausted == 3

Init ==
    /\ pc = [d \in Deliveries |-> "queued"]
    /\ claim = "nobody"
    /\ sub = [x \in Submitters |-> "idle"]
    /\ held = [x \in Submitters \cup Deliveries |-> Nothing]
    /\ row = NoRow
    /\ processed = 0
    /\ docs = << >>
    /\ credited = FALSE
    /\ listed = FALSE
    /\ trouble \in BOOLEAN

Goto(d, label) == pc' = [pc EXCEPT ![d] = label]
Turn(x, label) == sub' = [sub EXCEPT ![x] = label]
Rest(x)        == Turn(x, "idle") /\ held' = [held EXCEPT ![x] = Nothing]

webhooks   == <<pc, claim>>
submitting == <<sub, held>>
outside    == <<listed, trouble>>

-----------------------------------------------------------------------------
(* The webhooks.                                                           *)

\* Faulty variants, one at a time put in the place of the operator they precede,
\* show that the properties notice: here, ON CONFLICT without its status CASE.
EnqueuedAnew(t) ==
    [status   |-> "pending", attempts |-> row.attempts + 1, due |-> FALSE,
     incident |-> row.incident, refund |-> row.refund \/ t = "refund"]

\* enqueuePendingReverseCharge: a new row, or one attempt more on the row that is
\* there; a decided row stays decided.
Enqueued(t) ==
    [status   |-> IF row.status = "none" THEN "pending" ELSE row.status,
     attempts |-> row.attempts + 1,
     due      |-> FALSE,
     incident |-> row.incident,
     refund   |-> row.refund \/ t = "refund"]

\* orders/created and orders/paid, up to the claim: an order recorded already is
\* left alone, or certified.
Start(d) ==
    /\ pc[d] = "queued" /\ TopicOf[d] \in {"created", "paid"}
    /\ Goto(d, IF processed = 0 THEN "claim"
               ELSE IF TopicOf[d] = "paid" THEN "row" ELSE "acked")
    /\ UNCHANGED <<claim, submitting, row, processed, docs, credited, outside>>

\* claimOrder; the loser is thrown back to the queue.
Claim(d) ==
    /\ pc[d] = "claim"
    /\ \/ claim = "nobody" /\ claim' = d /\ Goto(d, "build")
       \/ claim # "nobody" /\ Goto(d, "queued") /\ UNCHANGED claim
    /\ UNCHANGED <<submitting, row, processed, docs, credited, outside>>

\* saveProcessedInvoice, whose D1 error is swallowed.
Saved(doc) == processed' = doc \/ (SaveFaults /\ UNCHANGED processed)

\* Where a delivery goes that leaves the create flow.
Returned(d) == IF TopicOf[d] = "paid" THEN "row" ELSE "acked"

\* The search by reference, then the build that asks VIES: link, defer, create,
\* or throw back an order InvoiceXpress refused.
Build(d) ==
    /\ pc[d] = "build"
    /\ \/ /\ docs # << >>
          /\ \E i \in DOMAIN docs : Saved(i)
          /\ Goto(d, Returned(d)) /\ claim' = "nobody"
          /\ UNCHANGED <<row, docs>>
       \/ /\ docs = << >>
          /\ row' = Enqueued(TopicOf[d])
          /\ Goto(d, Returned(d)) /\ claim' = "nobody"
          /\ UNCHANGED <<processed, docs>>
       \/ /\ docs = << >>
          /\ Goto(d, "create")
          /\ UNCHANGED <<claim, row, processed, docs>>
    /\ UNCHANGED <<submitting, credited, outside>>

Create(d) ==
    /\ pc[d] = "create" /\ Len(docs) < MaxDocs
    /\ docs' = Append(docs, "draft")
    /\ held' = [held EXCEPT ![d].doc = Len(docs) + 1]
    /\ Goto(d, "save")
    /\ UNCHANGED <<claim, sub, row, processed, credited, outside>>

\* The document is recorded and the claim released.
Save(d) ==
    /\ pc[d] = "save"
    /\ Saved(held[d].doc)
    /\ held' = [held EXCEPT ![d] = Nothing]
    /\ Goto(d, Returned(d)) /\ claim' = "nobody"
    /\ UNCHANGED <<sub, row, docs, credited, outside>>

\* orders/paid: certify what the row names, or "no invoice after self-heal".
Row(d) ==
    /\ pc[d] = "row"
    /\ docs' = IF processed = 0 THEN docs ELSE [docs EXCEPT ![processed] = "final"]
    /\ Goto(d, "acked")
    /\ UNCHANGED <<claim, submitting, row, processed, credited, outside>>

\* orders/updated: without a document it is thrown back; then VIES is asked again,
\* and the edit is parked or sent.
Update(d) ==
    /\ pc[d] = "queued" /\ TopicOf[d] = "updated" /\ processed # 0
    /\ row' \in {row, Enqueued("updated")}
    /\ Goto(d, "acked")
    /\ UNCHANGED <<claim, submitting, processed, docs, credited, outside>>

\* refunds/create: without a document it is thrown back, on a draft reported; on a
\* certified one VIES is asked again, and the credit note is parked or issued.
Refund(d) ==
    /\ pc[d] = "queued" /\ TopicOf[d] = "refund" /\ processed # 0
    /\ \/ docs[processed] = "draft" /\ UNCHANGED <<row, credited>>
       \/ docs[processed] = "final" /\ row' = Enqueued("refund") /\ UNCHANGED credited
       \/ docs[processed] = "final" /\ credited' = TRUE /\ UNCHANGED row
    /\ Goto(d, "acked")
    /\ UNCHANGED <<claim, submitting, processed, docs, outside>>

-----------------------------------------------------------------------------
(* runViesRetry and the admin routes.                                      *)

\* next_retry_at passes.
FallDue ==
    /\ row.status = "pending" /\ ~row.due
    /\ row' = [row EXCEPT !.due = TRUE]
    /\ UNCHANGED <<webhooks, submitting, processed, docs, credited, outside>>

\* Faulty: getPendingForRetry without attempts < 3.
RetryForever(x) ==
    /\ x \in Crons /\ sub[x] = "idle"
    /\ row.status = "pending" /\ row.due
    /\ held' = [held EXCEPT ![x].attempts = row.attempts]
    /\ Turn(x, "ask")
    /\ UNCHANGED <<webhooks, row, processed, docs, credited, outside>>

\* Pass 1 reads the rows to retry before it asks VIES about any of them.
Retry(x) ==
    /\ x \in Crons /\ sub[x] = "idle"
    /\ row.status = "pending" /\ row.attempts < Exhausted /\ row.due
    /\ held' = [held EXCEPT ![x].attempts = row.attempts]
    /\ Turn(x, "ask")
    /\ UNCHANGED <<webhooks, row, processed, docs, credited, outside>>

\* markPendingAttempt writes the attempts that were read, plus one.
Backoff(x) == row' = [row EXCEPT !.attempts = held[x].attempts + 1, !.due = FALSE]

\* VIES says yes or no, or still nothing.
Ask(x) ==
    /\ sub[x] = "ask"
    /\ \/ Turn(x, "check") /\ UNCHANGED <<held, row>>
       \/ Rest(x) /\ Backoff(x)
    /\ UNCHANGED <<webhooks, processed, docs, credited, outside>>

\* Approve or reject: a pending row is submitted, a decided one left alone.
Request(x) ==
    /\ x \in Admins /\ sub[x] = "idle"
    /\ row.status = "pending"
    /\ Turn(x, "check")
    /\ UNCHANGED <<webhooks, held, row, processed, docs, credited, outside>>

\* A submission that did not return an id: the cron counts it as an attempt
\* (markRowError), the admin gets an error.
NotSubmitted(x) ==
    /\ Rest(x)
    /\ IF x \in Crons THEN Backoff(x) ELSE UNCHANGED row

\* "If some other path already created the invoice, just resolve."  Without a config
\* nothing is submitted.
Check(x) ==
    /\ sub[x] = "check"
    /\ \/ /\ processed # 0
          /\ row' = [row EXCEPT !.status = "resolved"]
          /\ Rest(x)
       \/ /\ processed = 0
          /\ Turn(x, "submit")
          /\ UNCHANGED <<held, row>>
       \/ trouble /\ NotSubmitted(x)
    /\ UNCHANGED <<webhooks, processed, docs, credited, outside>>

\* Faulty: the id in the response is not looked at.
SubmitUnread(x) ==
    /\ sub[x] = "submit"
    /\ \/ /\ Len(docs) < MaxDocs
          /\ docs' = Append(docs, "draft")
          /\ held' = [held EXCEPT ![x].doc = Len(docs) + 1]
       \/ Refusals /\ UNCHANGED <<docs, held>>
    /\ Turn(x, "save")
    /\ UNCHANGED <<webhooks, row, processed, credited, outside>>

\* documents.post, with neither a claim nor a search by reference before it.
Submit(x) ==
    /\ sub[x] = "submit"
    /\ \/ /\ Len(docs) < MaxDocs
          /\ docs' = Append(docs, "draft")
          /\ \/ /\ held' = [held EXCEPT ![x].doc = Len(docs) + 1]
                /\ Turn(x, "save")
                /\ UNCHANGED row
             \/ LostAnswers /\ NotSubmitted(x)
       \/ Refusals /\ NotSubmitted(x) /\ UNCHANGED docs
    /\ UNCHANGED <<webhooks, processed, credited, outside>>

Record(x) ==
    /\ sub[x] = "save"
    /\ Saved(held[x].doc)
    /\ Turn(x, "resolve")
    /\ UNCHANGED <<webhooks, held, row, docs, credited, outside>>

\* resolvePending, which asks nothing of the status it overwrites.
Resolve(x) ==
    /\ sub[x] = "resolve"
    /\ \E s \in {"approved", "rejected"} : row' = [row EXCEPT !.status = s]
    /\ Rest(x)
    /\ UNCHANGED <<webhooks, processed, docs, credited, outside>>

\* Faulty: a row is reported when it has been tried more than three times.
EscalateLate(x) ==
    /\ x \in Crons /\ sub[x] = "idle"
    /\ row.status = "pending" /\ row.attempts > Exhausted /\ ~row.incident
    /\ Turn(x, "alert")
    /\ UNCHANGED <<webhooks, held, row, processed, docs, credited, outside>>

\* Pass 2 reads the exhausted rows that have no incident.
Escalate(x) ==
    /\ x \in Crons /\ sub[x] = "idle"
    /\ row.status = "pending" /\ row.attempts >= Exhausted /\ ~row.incident
    /\ Turn(x, "alert")
    /\ UNCHANGED <<webhooks, held, row, processed, docs, credited, outside>>

\* Without a config the row is passed over.  attachPendingIncident follows whether or
\* not reportIncident stored anything.
Alert(x) ==
    /\ sub[x] = "alert" /\ Rest(x)
    /\ \/ /\ row' = [row EXCEPT !.incident = TRUE]
          /\ listed' = TRUE \/ (LostReports /\ UNCHANGED listed)
       \/ trouble /\ UNCHANGED <<row, listed>>
    /\ UNCHANGED <<webhooks, processed, docs, credited, trouble>>

\* An account is deleted or connected again, a row that cannot be built comes or goes.
Change ==
    /\ trouble' = ~trouble
    /\ UNCHANGED <<webhooks, submitting, row, processed, docs, credited, listed>>

\* A run or a request ends where it stands, without a word on the row: the builder throws,
\* on this row or on another of the batch, or the invocation dies.  Nothing takes it up
\* but the next cron.
Crash(x) ==
    /\ trouble /\ sub[x] # "idle"
    /\ Rest(x)
    /\ UNCHANGED <<webhooks, row, processed, docs, credited, outside>>

Deliver(d) ==
    \/ Start(d) \/ Claim(d) \/ Build(d) \/ Create(d) \/ Save(d) \/ Row(d)
    \/ Update(d) \/ Refund(d)

Work(x) ==
    \/ Ask(x) \/ Check(x) \/ Submit(x) \/ Record(x) \/ Resolve(x) \/ Alert(x)

Next ==
    \/ FallDue \/ Change
    \/ \E d \in Deliveries : Deliver(d)
    \/ \E x \in Submitters : Retry(x) \/ Request(x) \/ Work(x) \/ Escalate(x) \/ Crash(x)

Spec == Init /\ [][Next]_vars

\* The cron comes back every day and, while it is not cut short, to every row; a
\* request that was made goes on.  No admin is obliged to look, no webhook to arrive.
Fairness ==
    /\ WF_vars(FallDue)
    /\ \A x \in Submitters : WF_vars(Work(x))
    /\ \A x \in Crons : WF_vars(~trouble /\ Retry(x)) /\ WF_vars(~trouble /\ Escalate(x))

FairSpec == Spec /\ Fairness

-----------------------------------------------------------------------------
(* Properties.                                                             *)

Statuses == {"none", "pending", "approved", "rejected", "resolved"}
Decided  == {"approved", "rejected", "resolved"}

TypeOK ==
    /\ pc \in [Deliveries -> {"queued", "claim", "build", "create", "save", "row", "acked"}]
    /\ claim \in Deliveries \cup {"nobody"}
    /\ sub \in [Submitters -> {"idle", "ask", "check", "submit", "save", "resolve", "alert"}]
    /\ held \in [Submitters \cup Deliveries -> [attempts : 0..Exhausted - 1, doc : 0..Len(docs)]]
    /\ row \in [status : Statuses, attempts : 0..(Exhausted + Cardinality(Deliveries)),
                due : BOOLEAN, incident : BOOLEAN,
                refund : BOOLEAN]
    /\ processed \in 0..Len(docs)
    /\ docs \in Seq({"draft", "final"})
    /\ credited \in BOOLEAN /\ listed \in BOOLEAN /\ trouble \in BOOLEAN

\* A deferred sale is not written off: a row is decided only once the order has a
\* document at InvoiceXpress, whoever decided it and whatever failed, died or ran
\* beside it.
DecidedIsInvoiced == row.status \in Decided => docs # << >>

\* A decision is final: no later webhook puts the row back among the pending ones
\* (the CASE of ON CONFLICT), no cron that read it earlier counts it down to them.
DecidedStaysDecided == [][row.status \in Decided => row'.status \in Decided]_vars

\* A deferred sale does not wait for ever unseen: its row is decided in the end, or an
\* incident that asks a human is stored, however often VIES stays silent, InvoiceXpress
\* refuses, runs end early and webhooks add attempts of their own; provided that from some
\* time on the shop is configured and no run is cut short (runViesRetry,
\* submitInvoiceForPendingRow), and that no report is lost (~LostReports).
DeferredSaleSurfaces ==
    <>[]~trouble => (row.status = "pending" ~> row.status \in Decided \/ listed)

\* "The cron + manual approval will eventually issue the credit note via a
\* follow-up path" (refunds-create.ts:299): once the row a refund is parked in has
\* been decided, the refund has its credit note.
ParkedRefundCredited ==
    row.status \in Decided /\ row.refund => credited
=============================================================================
