--------------------------- MODULE ShopifyLegacy ---------------------------
(***************************************************************************)
(* The path every Shopify shop on InvoiceXpress takes: the queue consumer  *)
(* processShopifyBatch, handleOrderCreated and handleOrderPaid.            *)
(*                                                                         *)
(* It differs from AdapterPipeline where it matters.  orders/created asks  *)
(* "already processed?" BEFORE it claims the order; a document found by    *)
(* reference is linked, its row written again without hold or route; the   *)
(* certification belongs to orders/paid, which claims nothing and issues   *)
(* the document itself when it finds no row; a message is given up after   *)
(* GiveUp attempts.  One action is the code between two awaits on state    *)
(* other deliveries see.                                                   *)
(***************************************************************************)
EXTENDS Naturals, Sequences, FiniteSets

CONSTANTS
    Orders,           \* orders of one shop
    Deliveries,       \* queue messages
    OrderOf, TopicOf, \* what each message is about
    Kinds,            \* which sorts of order occur, a subset of AllKinds
    MaxAttempts,      \* 1 + max_retries: hand-overs before the dead-letter queue
    GiveUp,           \* TRANSIENT_GIVEUP_ATTEMPTS
    MaxCrashes,       \* bound on Worker invocations that die half way
    GateStops,        \* the pause or the subscription gate may close
    Failures,         \* how a call may fail: "permanent", "stuck", "reject"
    LostAnswers,      \* InvoiceXpress may act and its answer be lost
    MissedLookups,    \* the reference search may miss a document: it is not
                      \* indexed yet, or the failed search reads as "none"
    ClaimFaults,      \* the claim table may be unreachable
    SaveFaults,       \* stores a saveProcessedInvoice may miss
    ReadFaults        \* sets of stores one idempotency read may miss

\* hold: an invalid NIF keeps the draft for a human.  routedDraft: a tag rule
\* says not to finalize.  onCredit: billed before payment.  unpaid: not paid at
\* orders/created in a shop that only invoices paid orders.  zero: nothing to
\* invoice.  vies: VIES may not answer in time.
AllKinds == {"clean", "hold", "routedDraft", "onCredit", "unpaid", "zero", "vies"}
Stores   == {"d1", "kv"}

ASSUME ConstantsOK ==
    /\ OrderOf \in [Deliveries -> Orders]
    /\ TopicOf \in [Deliveries -> {"created", "paid"}]
    /\ Kinds \subseteq AllKinds
    /\ MaxAttempts \in Nat \ {0}
    /\ GiveUp \in Nat \ {0}
    /\ MaxCrashes \in Nat
    /\ {GateStops, LostAnswers, MissedLookups, ClaimFaults} \subseteq BOOLEAN
    /\ Failures \subseteq {"permanent", "stuck", "reject"}
    /\ SaveFaults \subseteq Stores
    /\ ReadFaults \subseteq SUBSET Stores

VARIABLES
    pc,                \* where each delivery stands
    attempts,          \* message.attempts
    healed,            \* orders/paid has run the create flow itself
    outcome,           \* how the work under the claim ended
    found,             \* the document a delivery holds in a local, 0 for none
    order_claims,      \* the claim row of each order
    processed_orders,  \* the D1 row of each order
    kv,                \* does KV hold the order's fast-path key
    docs,              \* the documents InvoiceXpress holds, by id
    order_kind,        \* what the order's own payload and settings decide
    noted,             \* an incident or a document event explains the order
    crashes            \* invocations that died so far

local == <<attempts, healed, outcome, found>>
rows  == <<order_claims, processed_orders, kv>>
vars  == <<pc, local, rows, docs, order_kind, noted, crashes>>

NoRow == [invoice |-> 0, hold |-> FALSE, finalize |-> FALSE]

Claiming == {"lookup", "link", "linkKv", "create", "save", "saveKv", "tell",
             "certifyCredit", "release"}
Working  == Claiming \cup {"check", "claim", "row", "certify"}
Ended    == {"acked", "dead"}
Outcomes == {"done", "permanent", "stuck", "reject"}

Inside(d)  == pc[d] \in Claiming
IsHeld(o)  == \E d \in Deliveries : OrderOf[d] = o /\ Inside(d)
DocsOf(o)  == {i \in DOMAIN docs : docs[i].order = o}

Init ==
    /\ pc = [d \in Deliveries |-> "queued"]
    /\ attempts = [d \in Deliveries |-> 0]
    /\ healed = [d \in Deliveries |-> FALSE]
    /\ outcome = [d \in Deliveries |-> "done"]
    /\ found = [d \in Deliveries |-> 0]
    /\ order_claims = [o \in Orders |-> "none"]
    /\ processed_orders = [o \in Orders |-> NoRow]
    /\ kv = [o \in Orders |-> FALSE]
    /\ docs = << >>
    /\ order_kind \in [Orders -> Kinds]
    /\ noted = [o \in Orders |-> FALSE]
    /\ crashes = 0

-----------------------------------------------------------------------------
(* processShopifyBatch.                                                    *)

Goto(d, label) == pc' = [pc EXCEPT ![d] = label]
Note(d)        == noted' = [noted EXCEPT ![OrderOf[d]] = TRUE]
Kind(d)        == order_kind[OrderOf[d]]

Receive(d) ==
    /\ pc[d] = "queued"
    /\ attempts' = [attempts EXCEPT ![d] = @ + 1]
    /\ healed' = [healed EXCEPT ![d] = FALSE]
    /\ outcome' = [outcome EXCEPT ![d] = "done"]
    /\ found' = [found EXCEPT ![d] = 0]
    /\ Goto(d, IF TopicOf[d] = "created" THEN "check" ELSE "row")
    /\ UNCHANGED <<rows, docs, order_kind, noted, crashes>>

\* Faulty variants, one at a time put in the place of the operator they precede,
\* show that the properties notice: here, redelivery without max_retries.
BounceForever(d) == IF attempts[d] > MaxAttempts THEN "dlq" ELSE "queued"

Bounce(d) == IF attempts[d] < MaxAttempts THEN "queued" ELSE "dlq"

GivesUp(d, kind) ==
    \/ kind = "permanent"
    \/ kind = "stuck" /\ attempts[d] >= GiveUp

\* The catch of the queue consumer: an error that cannot heal, or that used up
\* its attempts, raises an incident and is acknowledged; the rest come back.
Throw(d, kind) ==
    /\ Goto(d, IF GivesUp(d, kind) THEN "acked" ELSE Bounce(d))
    /\ noted' = IF GivesUp(d, kind)
                THEN [noted EXCEPT ![OrderOf[d]] = TRUE] ELSE noted

\* The dead-letter consumer raises a critical incident and acknowledges.
DeadLetter(d) ==
    /\ pc[d] = "dlq"
    /\ Goto(d, "dead")
    /\ Note(d)
    /\ UNCHANGED <<local, rows, docs, order_kind, crashes>>

-----------------------------------------------------------------------------
(* handleOrderCreated, as a message's handler or called by handleOrderPaid.*)

\* Where a normal return of handleOrderCreated goes.
Returned(d) == IF TopicOf[d] = "created" THEN "acked" ELSE "row"

\* isIntegrationPaused or a refusing subscription gate: recorded, and the
\* handler returns.
StopAtGate(d) ==
    /\ GateStops
    /\ \/ pc[d] = "check" /\ Goto(d, Returned(d))
       \/ pc[d] = "row" /\ ~healed[d] /\ Goto(d, "acked")
    /\ Note(d)
    /\ UNCHANGED <<local, rows, docs, order_kind, crashes>>

\* isInvoiceAlreadyProcessed when the stores in R do not answer.
Recorded(o, R) ==
    \/ "d1" \notin R /\ processed_orders[o].invoice # 0
    \/ "kv" \notin R /\ kv[o]

Check(d) ==
    /\ pc[d] = "check"
    /\ \E R \in ReadFaults :
         Goto(d, IF Recorded(OrderOf[d], R) THEN Returned(d) ELSE "claim")
    /\ UNCHANGED <<local, rows, docs, order_kind, noted, crashes>>

\* claimOrder, won, or taken for won because the table did not answer; nothing
\* is read again after it.
Claim(d) ==
    /\ pc[d] = "claim"
    /\ \/ /\ order_claims[OrderOf[d]] \in {"none", "stale"}
          /\ order_claims' = [order_claims EXCEPT ![OrderOf[d]] = "fresh"]
       \/ ClaimFaults /\ UNCHANGED order_claims
    /\ Goto(d, "lookup")
    /\ UNCHANGED <<local, processed_orders, kv, docs, order_kind, noted, crashes>>

\* claimOrder, lost: thrown, an error the consumer never gives up on.
ClaimRefused(d) ==
    /\ pc[d] = "claim"
    /\ order_claims[OrderOf[d]] = "fresh"
    /\ Throw(d, "reject")
    /\ UNCHANGED <<local, rows, docs, order_kind, crashes>>

\* No document is due on this payload: a zero total, or a payment still pending.
NotDue(d) ==
    \/ Kind(d) = "zero"
    \/ Kind(d) = "unpaid" /\ TopicOf[d] = "created"

\* Faulty: the reference search is not made.
LookupSkipped(d) ==
    /\ pc[d] = "lookup"
    /\ Goto(d, IF NotDue(d) THEN "release" ELSE "create")
    /\ UNCHANGED <<local, rows, docs, order_kind, noted, crashes>>

\* The zero and the payment gate, the search by reference, the build that VIES
\* may defer: skip, link what InvoiceXpress already has, defer, or create.
Lookup(d) ==
    /\ pc[d] = "lookup"
    /\ LET hits == DocsOf(OrderOf[d])
           miss == hits = {} \/ MissedLookups
       IN \/ /\ NotDue(d)
             /\ Goto(d, "release")
             /\ Note(d)
             /\ UNCHANGED found
          \/ /\ ~NotDue(d)
             /\ \E i \in hits : found' = [found EXCEPT ![d] = i]
             /\ Goto(d, "link")
             /\ UNCHANGED noted
          \/ /\ ~NotDue(d) /\ miss /\ Kind(d) = "vies"
             /\ Goto(d, "release")
             /\ Note(d)
             /\ UNCHANGED found
          \/ /\ ~NotDue(d) /\ miss
             /\ Goto(d, "create")
             /\ UNCHANGED <<found, noted>>
    /\ UNCHANGED <<attempts, healed, outcome, rows, docs, order_kind, crashes>>

\* What handleOrderCreated does once the new document is recorded.
AfterSave(d) ==
    IF Kind(d) = "hold" THEN "tell"
    ELSE IF Kind(d) = "onCredit" /\ TopicOf[d] = "created" THEN "certifyCredit"
    ELSE "release"

\* saveProcessedInvoice is two awaited writes that both swallow their error:
\* first INSERT OR REPLACE in D1,
SaveRow(o, row) ==
    \/ processed_orders' = [processed_orders EXCEPT ![o] = row]
    \/ "d1" \in SaveFaults /\ UNCHANGED processed_orders

\* then the copy in KV, for a linked document and for a new one.  An invocation
\* may die between the two, and before it has told of a hold.
PutKv(d) ==
    /\ pc[d] \in {"linkKv", "saveKv"}
    /\ \/ kv' = [kv EXCEPT ![OrderOf[d]] = TRUE]
       \/ "kv" \in SaveFaults /\ UNCHANGED kv
    /\ Goto(d, IF pc[d] = "saveKv" THEN AfterSave(d) ELSE "release")
    /\ UNCHANGED <<local, order_claims, processed_orders, docs, order_kind, noted, crashes>>

\* Faulty: the mapping of a document found at InvoiceXpress is not persisted.
LinkNothing(d) ==
    /\ pc[d] = "link"
    /\ Goto(d, "release")
    /\ UNCHANGED <<local, rows, docs, order_kind, noted, crashes>>

\* "Persist the mapping": no hold reason and no route are passed, and the REPLACE
\* forgets those of a row that was there.
Link(d) ==
    /\ pc[d] = "link"
    /\ SaveRow(OrderOf[d], [invoice |-> found[d], hold |-> FALSE, finalize |-> TRUE])
    /\ Goto(d, "linkKv")
    /\ UNCHANGED <<local, order_claims, kv, docs, order_kind, noted, crashes>>

\* createIxInvoiceWithFallback.
Create(d) ==
    /\ pc[d] = "create"
    /\ docs' = Append(docs, [order |-> OrderOf[d], state |-> "draft"])
    /\ \/ /\ found' = [found EXCEPT ![d] = Len(docs) + 1]
          /\ Goto(d, "save")
          /\ UNCHANGED outcome
       \/ /\ LostAnswers
          /\ outcome' = [outcome EXCEPT ![d] = "reject"]
          /\ Goto(d, "release")
          /\ UNCHANGED found
    /\ UNCHANGED <<attempts, healed, rows, order_kind, noted, crashes>>

\* The row keeps what orders/paid must know: the hold and the route.
Save(d) ==
    /\ pc[d] = "save"
    /\ SaveRow(OrderOf[d], [invoice  |-> found[d],
                            hold     |-> Kind(d) = "hold",
                            finalize |-> Kind(d) # "routedDraft"])
    /\ Goto(d, "saveKv")
    /\ UNCHANGED <<local, order_claims, kv, docs, order_kind, noted, crashes>>

\* notifyNifHold and its event: a held draft is announced to the merchant.
Tell(d) ==
    /\ pc[d] = "tell"
    /\ Note(d)
    /\ Goto(d, "release")
    /\ UNCHANGED <<local, rows, docs, order_kind, crashes>>

\* A sale on credit is certified at once; a refusal is an incident, not a throw.
CertifyCredit(d) ==
    /\ pc[d] = "certifyCredit"
    /\ \/ /\ docs' = [docs EXCEPT ![found[d]].state = "final"]
          /\ IF LostAnswers THEN UNCHANGED noted \/ Note(d) ELSE UNCHANGED noted
       \/ /\ Failures # {}
          /\ Note(d)
          /\ UNCHANGED docs
    /\ Goto(d, "release")
    /\ UNCHANGED <<local, rows, order_kind, crashes>>

\* The finally block: the claim row goes, whoever holds it by now, or is left to
\* expire when the table does not answer.
Release(d) ==
    /\ pc[d] = "release"
    /\ \/ order_claims' = [order_claims EXCEPT ![OrderOf[d]] = "none"]
       \/ ClaimFaults /\ UNCHANGED order_claims
    /\ \/ /\ outcome[d] = "done"
          /\ Goto(d, Returned(d))
          /\ UNCHANGED noted
       \/ /\ outcome[d] # "done"
          /\ Throw(d, outcome[d])
    /\ UNCHANGED <<local, processed_orders, kv, docs, order_kind, crashes>>

-----------------------------------------------------------------------------
(* handleOrderPaid.                                                        *)

\* Faulty: no self-heal, a missing row is "nothing to finalize" at once.
RowNoHeal(d) ==
    /\ pc[d] = "row"
    /\ LET row == processed_orders[OrderOf[d]]
       IN \/ /\ row.invoice = 0 \/ row.hold \/ ~row.finalize
             /\ Goto(d, "acked")
             /\ UNCHANGED found
          \/ /\ row.invoice # 0 /\ ~row.hold /\ row.finalize
             /\ Goto(d, "certify")
             /\ found' = [found EXCEPT ![d] = row.invoice]
    /\ UNCHANGED <<attempts, healed, outcome, rows, docs, order_kind, noted, crashes>>

\* getInvoiceByOrderId, which turns a D1 error into "none": the create flow runs
\* here when there is no row, and when there is still none nothing is finalized;
\* a held row or a route that keeps its draft ends the delivery.
Row(d) ==
    /\ pc[d] = "row"
    /\ \E R \in ReadFaults :
         LET row    == IF "d1" \in R THEN NoRow ELSE processed_orders[OrderOf[d]]
             exists == row.invoice # 0
         IN \/ /\ ~exists /\ ~healed[d]
               /\ healed' = [healed EXCEPT ![d] = TRUE]
               /\ Goto(d, "check")
               /\ UNCHANGED found
            \/ /\ \/ ~exists /\ healed[d]
                  \/ exists /\ (row.hold \/ ~row.finalize)
               /\ Goto(d, "acked")
               /\ UNCHANGED <<healed, found>>
            \/ /\ exists /\ ~row.hold /\ row.finalize
               /\ Goto(d, "certify")
               /\ found' = [found EXCEPT ![d] = row.invoice]
               /\ UNCHANGED healed
    /\ UNCHANGED <<attempts, outcome, rows, docs, order_kind, noted, crashes>>

\* The finalize; "already finalized" (isAlreadyFinalizedIxError) counts as done.
Certify(d) ==
    /\ pc[d] = "certify"
    /\ docs' = [docs EXCEPT ![found[d]].state = "final"]
    /\ \/ Goto(d, "acked") /\ UNCHANGED noted
       \/ LostAnswers /\ Throw(d, "reject")
    /\ UNCHANGED <<local, rows, order_kind, crashes>>

-----------------------------------------------------------------------------
(* What goes wrong, and what happens around the deliveries.                *)

\* The normalize service ("stuck") or InvoiceXpress throws, with nothing done.
Fail(d) ==
    /\ \E kind \in Failures :
         \/ /\ pc[d] \in {"lookup", "create"}
            /\ outcome' = [outcome EXCEPT ![d] = kind]
            /\ Goto(d, "release")
            /\ UNCHANGED noted
         \/ /\ pc[d] = "certify" /\ kind # "stuck"
            /\ Throw(d, kind)
            /\ UNCHANGED outcome
    /\ UNCHANGED <<attempts, healed, found, rows, docs, order_kind, crashes>>

\* The invocation dies; its claim stays and the queue redelivers its message.
Crash(d) ==
    /\ crashes < MaxCrashes
    /\ pc[d] \in Working
    /\ crashes' = crashes + 1
    /\ Goto(d, Bounce(d))
    /\ UNCHANGED <<local, rows, docs, order_kind, noted>>

\* A claim passes staleAfterMs (three minutes, a live holder is done).  Who works
\* on the order without holding its claim does not keep it fresh.
Age(o) ==
    /\ order_claims[o] = "fresh"
    /\ ~IsHeld(o) \/ ClaimFaults
    /\ order_claims' = [order_claims EXCEPT ![o] = "stale"]
    /\ UNCHANGED <<pc, local, processed_orders, kv, docs, order_kind, noted, crashes>>

Step(d) ==
    \/ Check(d) \/ Claim(d) \/ ClaimRefused(d) \/ Lookup(d) \/ Link(d)
    \/ PutKv(d) \/ Create(d) \/ Save(d) \/ Tell(d) \/ CertifyCredit(d) \/ Release(d)
    \/ Row(d) \/ Certify(d)

Next ==
    \/ \E d \in Deliveries :
          \/ Receive(d) \/ StopAtGate(d) \/ Step(d)
          \/ Fail(d) \/ Crash(d) \/ DeadLetter(d)
    \/ \E o \in Orders : Age(o)

Spec == Init /\ [][Next]_vars

-----------------------------------------------------------------------------
(* Properties.                                                             *)

TypeOK ==
    /\ pc \in [Deliveries -> Working \cup Ended \cup {"queued", "dlq"}]
    /\ attempts \in [Deliveries -> 0..MaxAttempts]
    /\ healed \in [Deliveries -> BOOLEAN]
    /\ outcome \in [Deliveries -> Outcomes]
    /\ found \in [Deliveries -> 0..Len(docs)]
    /\ order_claims \in [Orders -> {"none", "fresh", "stale"}]
    /\ processed_orders \in [Orders -> [invoice : 0..Len(docs), hold : BOOLEAN,
                                        finalize : BOOLEAN]]
    /\ kv \in [Orders -> BOOLEAN]
    /\ docs \in Seq([order : Orders, state : {"draft", "final"}])
    /\ order_kind \in [Orders -> Kinds]
    /\ noted \in [Orders -> BOOLEAN]
    /\ crashes \in 0..MaxCrashes

\* One document per order: "claimOrder is a compare-and-swap, so exactly one
\* delivery gets through" (orders-created.ts:150).
OneDocument ==
    \A i, j \in DOMAIN docs : docs[i].order = docs[j].order => i = j

Settled(o)   == \A d \in Deliveries : OrderOf[d] = o => pc[d] \in Ended
Paid(o)      == \E d \in Deliveries : OrderOf[d] = o /\ TopicOf[d] = "paid"
Certified(o) == \E i \in DocsOf(o) : docs[i].state = "final"

\* An order whose payment was announced ends up certified, or routed to stay a
\* draft, or explained by an incident or event: whichever of orders/created and
\* orders/paid came first, died, was given up or was dead-lettered.  A held draft is
\* announced, unless an invocation died before it could.
PaidOrderAccounted ==
    \A o \in Orders :
        Settled(o) /\ Paid(o) =>
            \/ Certified(o)
            \/ noted[o]
            \/ /\ DocsOf(o) # {}
               /\ \/ order_kind[o] = "routedDraft"
                  \/ order_kind[o] = "hold" /\ crashes > 0

\* When everything about an order is settled with a document and nothing reported,
\* the row names a document of that order, whatever died between its creation and
\* its record; and KV agrees, unless an invocation died (between the two writes).
RowNamesDocument ==
    \A o \in Orders :
        Settled(o) /\ ~noted[o] /\ DocsOf(o) # {} =>
            /\ processed_orders[o].invoice \in DocsOf(o)
            /\ kv[o] \/ crashes > 0

\* "A hold_reason parks the document as a draft: orders/paid will skip finalize"
\* (orders-created.ts:436): a document built with a hold is never certified.
HeldStaysDraft ==
    \A i \in DOMAIN docs :
        docs[i].state = "final" => order_kind[docs[i].order] # "hold"

\* The path implements the ledger: documents are issued once and certified once.
Ledger == INSTANCE SaleLedger WITH
    Sales  <- Orders,
    ledger <- [i \in DOMAIN docs |-> [sale |-> docs[i].order, state |-> docs[i].state]]

LedgerSpec == Ledger!Spec
=============================================================================
