-------------------------- MODULE AdapterPipeline --------------------------
(***************************************************************************)
(* The adapter pipeline of the worker: what happens to the queue messages  *)
(* ("deliveries") that announce a sale, from the moment the queue hands    *)
(* one over until it is acknowledged or dead-lettered.                     *)
(*                                                                         *)
(* Several deliveries describe one sale (a Stripe payment fires            *)
(* payment_intent.succeeded, charge.succeeded, invoice.paid ...) and each  *)
(* runs runAdapterPipeline in a Worker invocation of its own, so all of    *)
(* their steps interleave.  One action is the code between two awaits on   *)
(* state that others can see: the claim row, the processed_orders row, its *)
(* KV copy, the documents the destination holds.                           *)
(*                                                                         *)
(* Topics "created" and "paid" are here; "refund" is CreditLedger.         *)
(***************************************************************************)
EXTENDS Naturals, Sequences, FiniteSets

CONSTANTS
    Sales,            \* sales of one merchant connection
    Deliveries,       \* queue messages
    SaleOf, TopicOf,  \* what each message is about
    Kinds,            \* which sorts of sale occur, a subset of AllKinds
    MaxAttempts,      \* 1 + max_retries: hand-overs before the dead-letter queue
    MaxCrashes,       \* bound on Worker invocations that die half way
    \* ---- the connection -------------------------------------------------
    Claimed,          \* claimScopeFor(source) is not null
    SeparatePaid,     \* capabilities.emitsSeparatePaidEvent of the source
    TestConnection,   \* sourceConfig.livemode = false
    RunIn,            \* the connection starts in its supervised run-in
    GateStops,        \* the pause or the subscription gate may close
    \* ---- what the environment may do ------------------------------------
    Failures,         \* how a source or destination call may fail
    LostAnswers,      \* a destination call may succeed and its answer be lost
    IndexLag,         \* how long a new document stays out of findByReference
    SlowHolders,      \* a claim may go stale while its holder still works
    ClaimFaults,      \* the claim table may be unreachable
    SaveFaults,       \* sets of stores one saveProcessedInvoice may miss
    ReadFaults        \* sets of stores one idempotency read may miss

AllKinds == {"clean", "hold", "draftOnly", "notInvoiced", "foreign"}
Stores   == {"d1", "kv"}

ASSUME ConstantsOK ==
    /\ SaleOf \in [Deliveries -> Sales]
    /\ TopicOf \in [Deliveries -> {"created", "paid"}]
    /\ Kinds \subseteq AllKinds
    /\ MaxAttempts \in Nat \ {0}
    /\ MaxCrashes \in Nat
    /\ {Claimed, SeparatePaid, TestConnection, RunIn, GateStops,
        LostAnswers, SlowHolders, ClaimFaults} \subseteq BOOLEAN
    /\ Failures \subseteq {"transient", "permanent"}
    /\ IndexLag \in {"none", "short", "long"}
    /\ SaveFaults \subseteq SUBSET Stores
    /\ ReadFaults \subseteq SUBSET Stores

VARIABLES
    pc,                \* where each delivery stands
    attempts,          \* message.attempts
    flow,              \* the topic runPipelineCore works on; paid may turn into created
    found,             \* the document a delivery holds in a local, 0 for none
    order_claims,      \* the claim row of each sale: absent, fresh, older than staleAfterMs
    processed_orders,  \* the D1 row of each sale
    kv,                \* does KV hold the sale's fast-path key
    docs,              \* the documents the destination holds, by id
    sale_kind,         \* what the sale's own payload decides
    run_in,            \* the run-in holds: an active connection, its runin_answer not "yes"
    lifted,            \* deliveries at work that were without that hold at some moment of it
    noted,             \* an incident, a document event or a log row explains the sale
    crashes            \* invocations that died so far

vars == <<pc, attempts, flow, found, order_claims, processed_orders, kv, docs,
          sale_kind, run_in, lifted, noted, crashes>>

NoRow == [invoice |-> 0, hold |-> FALSE, finalize |-> FALSE]

\* Between winning the claim and the end of the finally block.
Working == {"check", "lookup", "create", "save", "decide", "row", "read",
            "certify", "leaveAck", "leaveRetry"}
Waiting == {"queued", "delayed"}
Ended   == {"acked", "dead"}

Inside(d) == pc[d] \in Working
IsHeld(s) == \E d \in Deliveries : SaleOf[d] = s /\ Inside(d)

DocsOf(s)  == {i \in DOMAIN docs : docs[i].sale = s}
Visible(s) == {i \in DocsOf(s) : docs[i].visible}

Init ==
    /\ pc = [d \in Deliveries |-> "queued"]
    /\ attempts = [d \in Deliveries |-> 0]
    /\ flow = TopicOf
    /\ found = [d \in Deliveries |-> 0]
    /\ order_claims = [s \in Sales |-> "none"]
    /\ processed_orders = [s \in Sales |-> NoRow]
    /\ kv = [s \in Sales |-> FALSE]
    /\ docs = << >>
    /\ sale_kind \in [Sales -> Kinds]
    /\ run_in = RunIn
    /\ lifted = {}
    /\ noted = [s \in Sales |-> FALSE]
    /\ crashes = 0

-----------------------------------------------------------------------------
(* The queue and the gates.                                                *)

Goto(d, label) == pc' = [pc EXCEPT ![d] = label]
Note(d)        == noted' = [noted EXCEPT ![SaleOf[d]] = TRUE]

\* Where a message goes that is not acknowledged.
Bounce(d) == IF attempts[d] < MaxAttempts THEN "queued" ELSE "dlq"

stores == <<order_claims, processed_orders, kv, docs>>
world  == <<sale_kind, run_in, lifted, crashes>>

Away(d) == lifted' = lifted \ {d}

Receive(d) ==
    /\ pc[d] = "queued"
    /\ attempts' = [attempts EXCEPT ![d] = @ + 1]
    /\ flow' = [flow EXCEPT ![d] = TopicOf[d]]
    /\ found' = [found EXCEPT ![d] = 0]
    /\ lifted' = IF run_in THEN lifted ELSE lifted \cup {d}
    /\ Goto(d, "claim")
    /\ UNCHANGED <<stores, sale_kind, run_in, crashes, noted>>

\* isIntegrationPaused or a refusing subscription gate: recorded and acknowledged.
StopAtGate(d) ==
    /\ GateStops
    /\ pc[d] = "claim"
    /\ Goto(d, "acked")
    /\ Note(d)
    /\ Away(d)
    /\ UNCHANGED <<attempts, flow, found, stores, sale_kind, run_in, crashes>>

\* Faulty: the takeover UPDATE without its claimed_at < cutoff.
ClaimAnyRow(d) ==
    /\ pc[d] = "claim"
    /\ order_claims' = [order_claims EXCEPT ![SaleOf[d]] = "fresh"]
    /\ Goto(d, "check")
    /\ UNCHANGED <<attempts, flow, found, processed_orders, kv, docs, world, noted>>

\* claimOrder, won: by the insert, by the takeover of a stale row, or because
\* the table did not answer.  An unclaimed source goes straight on.
Claim(d) ==
    /\ pc[d] = "claim"
    /\ IF Claimed
       THEN \/ /\ order_claims[SaleOf[d]] \in {"none", "stale"}
               /\ order_claims' = [order_claims EXCEPT ![SaleOf[d]] = "fresh"]
            \/ ClaimFaults /\ UNCHANGED order_claims
       ELSE UNCHANGED order_claims
    /\ Goto(d, "check")
    /\ UNCHANGED <<attempts, flow, found, processed_orders, kv, docs, world, noted>>

\* Faulty: the loser of the claim is acknowledged.
ClaimRefusedAck(d) ==
    /\ Claimed
    /\ pc[d] = "claim"
    /\ order_claims[SaleOf[d]] = "fresh"
    /\ Goto(d, "acked")
    /\ Away(d)
    /\ UNCHANGED <<attempts, flow, found, stores, sale_kind, run_in, crashes, noted>>

\* claimOrder, lost: thrown, never acknowledged.  The retry delay (360 s)
\* outlasts the age at which a claim goes stale (180 s), so the message comes
\* back only after the claim it lost to was released or went stale.
ClaimRefused(d) ==
    /\ Claimed
    /\ pc[d] = "claim"
    /\ order_claims[SaleOf[d]] = "fresh"
    /\ Goto(d, IF attempts[d] < MaxAttempts THEN "delayed" ELSE "dlq")
    /\ Away(d)
    /\ UNCHANGED <<attempts, flow, found, stores, sale_kind, run_in, crashes, noted>>

\* Deliveries that were waiting for the claim of s to go.
Wake(s, p) == [d \in Deliveries |->
                  IF SaleOf[d] = s /\ p[d] = "delayed" THEN "queued" ELSE p[d]]

\* The finally block, then the queue handler's ack or retry.  The DELETE names
\* the sale and nothing else; when it fails the row is left to expire.
Release(d) ==
    /\ pc[d] \in {"leaveAck", "leaveRetry"}
    /\ LET p == [pc EXCEPT ![d] = IF pc[d] = "leaveAck" THEN "acked" ELSE Bounce(d)]
       IN \/ /\ Claimed
             /\ order_claims' = [order_claims EXCEPT ![SaleOf[d]] = "none"]
             /\ pc' = Wake(SaleOf[d], p)
          \/ /\ ~Claimed \/ ClaimFaults
             /\ pc' = p
             /\ UNCHANGED order_claims
    /\ Away(d)
    /\ UNCHANGED <<attempts, flow, found, processed_orders, kv, docs, noted>>
    /\ UNCHANGED <<sale_kind, run_in, crashes>>

\* The dead-letter consumer raises a critical incident and acknowledges.
DeadLetter(d) ==
    /\ pc[d] = "dlq"
    /\ Goto(d, "dead")
    /\ Note(d)
    /\ UNCHANGED <<attempts, flow, found, stores, world>>

-----------------------------------------------------------------------------
(* runPipelineCore, topic created.                                         *)

\* Faulty: the KV copy is not asked.
RecordedRowOnly(s, R) == "d1" \notin R /\ processed_orders[s].invoice # 0

\* isInvoiceAlreadyProcessed when the stores in R do not answer.
Recorded(s, R) ==
    \/ "d1" \notin R /\ processed_orders[s].invoice # 0
    \/ "kv" \notin R /\ kv[s]

\* The sale is settled, is another system's, or goes on to its topic.
Check(d) ==
    /\ pc[d] = "check"
    /\ \E R \in ReadFaults :
         LET s    == SaleOf[d]
             ours == Recorded(s, R)
         IN \/ /\ ~ours /\ sale_kind[s] = "foreign"
               /\ Goto(d, "leaveAck")
               /\ Note(d)
            \/ /\ ours /\ flow[d] = "created"
               /\ Goto(d, "leaveAck")
               /\ UNCHANGED noted
            \/ /\ ~ours /\ sale_kind[s] # "foreign" /\ flow[d] = "created"
               /\ Goto(d, "lookup")
               /\ UNCHANGED noted
            \/ /\ ours \/ sale_kind[s] # "foreign"
               /\ flow[d] = "paid"
               /\ Goto(d, "row")
               /\ UNCHANGED noted
    /\ UNCHANGED <<attempts, flow, found, stores, world>>

\* Faulty: createDraft without the reference search.
LookupSkipped(d) ==
    /\ pc[d] = "lookup"
    /\ Goto(d, "create")
    /\ UNCHANGED <<attempts, flow, found, stores, world, noted>>

\* findByReference, then the currency and the zero-total guard.  A document
\* found at the destination ends the delivery and leaves no processed_orders row.
Lookup(d) ==
    /\ pc[d] = "lookup"
    /\ LET skip == Visible(SaleOf[d]) # {} \/ sale_kind[SaleOf[d]] = "notInvoiced"
       IN \/ skip /\ Goto(d, "leaveAck") /\ Note(d)
          \/ ~skip /\ Goto(d, "create") /\ UNCHANGED noted
    /\ UNCHANGED <<attempts, flow, found, stores, world>>

NewDocument(s) == [sale |-> s, state |-> "draft", visible |-> IndexLag = "none"]

\* createDraft; when the answer is lost the document exists and the call throws.
Create(d) ==
    /\ pc[d] = "create"
    /\ docs' = Append(docs, NewDocument(SaleOf[d]))
    /\ \/ /\ found' = [found EXCEPT ![d] = Len(docs) + 1]
          /\ Goto(d, "save")
          /\ UNCHANGED noted
       \/ /\ LostAnswers
          /\ Goto(d, "leaveRetry")
          /\ Note(d)
          /\ UNCHANGED found
    /\ UNCHANGED <<attempts, flow, order_claims, processed_orders, kv, world>>

RowFor(d) == [invoice  |-> found[d],
              hold     |-> sale_kind[SaleOf[d]] = "hold",
              finalize |-> sale_kind[SaleOf[d]] # "draftOnly"]

\* saveProcessedInvoice: both writes are attempted and both swallow their error.
\* A held draft also raises its incident.
Save(d) ==
    /\ pc[d] = "save"
    /\ LET s == SaleOf[d]
       IN \E W \in SaveFaults :
            /\ processed_orders' = IF "d1" \in W THEN processed_orders
                                   ELSE [processed_orders EXCEPT ![s] = RowFor(d)]
            /\ kv' = IF "kv" \in W THEN kv ELSE [kv EXCEPT ![s] = TRUE]
    /\ noted' = IF sale_kind[SaleOf[d]] = "hold"
                THEN [noted EXCEPT ![SaleOf[d]] = TRUE] ELSE noted
    /\ Goto(d, "decide")
    /\ UNCHANGED <<attempts, flow, found, order_claims, docs, world>>

\* runInHoldsFinalize: asked when it is needed, and a row it cannot read holds.
RunInHolds(R) == RunIn /\ (run_in \/ "d1" \in R)

\* finalizeInSameFlow; a draft kept for the run-in says so in its log row.
Decide(d) ==
    /\ pc[d] = "decide"
    /\ \E R \in ReadFaults :
         /\ LET same == /\ ~SeparatePaid /\ ~TestConnection /\ ~RunInHolds(R)
                        /\ sale_kind[SaleOf[d]] \notin {"hold", "draftOnly"}
            IN Goto(d, IF same THEN "certify" ELSE "leaveAck")
         /\ noted' = IF RunInHolds(R) THEN [noted EXCEPT ![SaleOf[d]] = TRUE] ELSE noted
    /\ UNCHANGED <<attempts, flow, found, stores, world>>

-----------------------------------------------------------------------------
(* runPipelineCore, topic paid.                                            *)

\* Faulty: the run-in is asked about on the created branch alone.
KeptDraftNoRunIn(row, R) == row.hold \/ ~row.finalize \/ TestConnection

\* hold_reason, the stored route, livemode and the run-in.
KeptDraft(row, R) == row.hold \/ ~row.finalize \/ TestConnection \/ RunInHolds(R)

\* Faulty: a payment for a sale nobody has seen is acknowledged.
UnmatchedAck == "leaveAck"

\* "Invoice not found" is thrown, for the queue to bring the payment back.
Unmatched == "leaveRetry"

\* getInvoiceByOrderId, which reads D1 alone and turns an error into "none": the
\* sale is issued now, or what keeps its draft is logged, or the draft is closed.
Row(d) ==
    /\ pc[d] = "row"
    /\ \E R, Q \in ReadFaults :
         LET row     == IF "d1" \in R THEN NoRow ELSE processed_orders[SaleOf[d]]
             exists  == row.invoice # 0
         IN \/ /\ ~exists /\ SeparatePaid
               /\ Goto(d, Unmatched)
               /\ UNCHANGED <<flow, found, noted>>
            \/ /\ ~exists /\ ~SeparatePaid
               /\ Goto(d, "check")
               /\ flow' = [flow EXCEPT ![d] = "created"]
               /\ UNCHANGED <<found, noted>>
            \/ /\ exists /\ KeptDraft(row, Q)
               /\ Goto(d, "leaveAck")
               /\ Note(d)
               /\ UNCHANGED <<flow, found>>
            \/ /\ exists /\ ~KeptDraft(row, Q)
               /\ Goto(d, "read")
               /\ found' = [found EXCEPT ![d] = row.invoice]
               /\ UNCHANGED <<flow, noted>>
    /\ UNCHANGED <<attempts, stores, world>>

\* getDocument: an already certified document ends the delivery.
Read(d) ==
    /\ pc[d] = "read"
    /\ Goto(d, IF docs[found[d]].state = "final" THEN "leaveAck" ELSE "certify")
    /\ UNCHANGED <<attempts, flow, found, stores, world, noted>>

\* finalize, from either topic; refused on a document that is final already.
Certify(d) ==
    /\ pc[d] = "certify"
    /\ \/ /\ docs[found[d]].state = "draft"
          /\ docs' = [docs EXCEPT ![found[d]].state = "final"]
          /\ \/ Goto(d, "leaveAck") /\ UNCHANGED noted
             \/ LostAnswers /\ Goto(d, "leaveRetry") /\ Note(d)
       \/ /\ docs[found[d]].state = "final"
          /\ Goto(d, "leaveRetry")
          /\ Note(d)
          /\ UNCHANGED docs
    /\ UNCHANGED <<attempts, flow, found, order_claims, processed_orders, kv, world>>

-----------------------------------------------------------------------------
(* What goes wrong, and what happens around the deliveries.                *)

\* Faulty: a permanent error is acknowledged without its incident.
FailSilent(d) ==
    /\ pc[d] \in {"check", "lookup", "create", "row", "read", "certify"}
    /\ \E kind \in Failures :
         Goto(d, IF kind = "permanent" THEN "leaveAck" ELSE "leaveRetry")
    /\ UNCHANGED <<attempts, flow, found, stores, world, noted>>

\* A call throws with nothing done: the catch of runAdapterPipeline reports an
\* incident, acknowledges a permanent error and rethrows a transient one.
Fail(d) ==
    /\ pc[d] \in {"check", "lookup", "create", "row", "read", "certify"}
    /\ \E kind \in Failures :
         Goto(d, IF kind = "permanent" THEN "leaveAck" ELSE "leaveRetry")
    /\ Note(d)
    /\ UNCHANGED <<attempts, flow, found, stores, world>>

\* The invocation dies; its claim stays and the queue redelivers its message.
Crash(d) ==
    /\ crashes < MaxCrashes
    /\ Inside(d) \/ pc[d] = "claim"
    /\ crashes' = crashes + 1
    /\ Goto(d, Bounce(d))
    /\ Away(d)
    /\ UNCHANGED <<attempts, flow, found, stores, sale_kind, run_in, noted>>

\* Faulty: a claim never expires.
AgeNever(s) == order_claims[s] = "lost" /\ UNCHANGED vars

\* A claim passes staleAfterMs.  Unless holders are slow it belongs to a dead
\* one; unless the index lag is long what the dead one issued is findable by now.
Age(s) ==
    /\ order_claims[s] = "fresh"
    /\ SlowHolders \/ ~IsHeld(s)
    /\ IndexLag = "long" \/ Visible(s) = DocsOf(s)
    /\ order_claims' = [order_claims EXCEPT ![s] = "stale"]
    /\ pc' = Wake(s, pc)
    /\ UNCHANGED <<attempts, flow, found, processed_orders, kv, docs, world, noted>>

\* The destination's reference search catches up with a document.
Surface(i) ==
    /\ ~docs[i].visible
    /\ docs' = [docs EXCEPT ![i].visible = TRUE]
    /\ UNCHANGED <<pc, attempts, flow, found, order_claims, processed_orders, kv, world, noted>>

\* The merchant answers "yes" to the run-in question (or the connection's row is
\* not active any more, which holds nothing).
ConfirmRunIn ==
    /\ run_in
    /\ run_in' = FALSE
    /\ lifted' = lifted \cup {d \in Deliveries : pc[d] = "claim" \/ Inside(d)}
    /\ UNCHANGED <<pc, attempts, flow, found, stores, sale_kind, noted, crashes>>

\* The answer becomes "no": its token lives on after a "yes", and the UPDATE asks
\* nothing.  A delivery that has read "yes" by then goes on.
WithdrawRunIn ==
    /\ RunIn
    /\ ~run_in
    /\ run_in' = TRUE
    /\ UNCHANGED <<pc, attempts, flow, found, stores, sale_kind, lifted, noted, crashes>>

Step(d) ==
    \/ Claim(d) \/ ClaimRefused(d) \/ Release(d)
    \/ Check(d) \/ Lookup(d) \/ Create(d) \/ Save(d) \/ Decide(d)
    \/ Row(d) \/ Read(d) \/ Certify(d)

Next ==
    \/ \E d \in Deliveries :
          \/ Receive(d) \/ StopAtGate(d) \/ Step(d)
          \/ Fail(d) \/ Crash(d) \/ DeadLetter(d)
    \/ \E s \in Sales : Age(s)
    \/ \E i \in DOMAIN docs : Surface(i)
    \/ ConfirmRunIn
    \/ WithdrawRunIn

Spec == Init /\ [][Next]_vars

\* The queue hands messages over and redelivers them, an invocation that is not
\* killed goes on, the dead-letter consumer runs, a claim grows old, the index
\* catches up.  Nobody is obliged to answer the run-in question, either way.
Fairness ==
    /\ \A d \in Deliveries :
          WF_vars(Receive(d)) /\ WF_vars(Step(d)) /\ WF_vars(DeadLetter(d))
    /\ \A s \in Sales : WF_vars(Age(s))
    /\ WF_vars(\E i \in DOMAIN docs : Surface(i))

FairSpec == Spec /\ Fairness

-----------------------------------------------------------------------------
(* Properties.                                                             *)

DocStates == {"draft", "final"}

TypeOK ==
    /\ pc \in [Deliveries -> Waiting \cup Working \cup Ended \cup {"claim", "dlq"}]
    /\ attempts \in [Deliveries -> 0..MaxAttempts]
    /\ flow \in [Deliveries -> {"created", "paid"}]
    /\ found \in [Deliveries -> Nat]
    /\ order_claims \in [Sales -> {"none", "fresh", "stale"}]
    /\ processed_orders \in [Sales -> [invoice : Nat, hold : BOOLEAN, finalize : BOOLEAN]]
    /\ kv \in [Sales -> BOOLEAN]
    /\ docs \in Seq([sale : Sales, state : DocStates, visible : BOOLEAN])
    /\ sale_kind \in [Sales -> Kinds]
    /\ run_in \in BOOLEAN
    /\ lifted \subseteq Deliveries
    /\ noted \in [Sales -> BOOLEAN]
    /\ crashes \in 0..MaxCrashes

(***************************************************************************)
(* The circumstances in which one document per sale is promised: the       *)
(* source is claimed, the claim table answers, a claim outlives its        *)
(* holder's work, the destination's search catches up within the age at    *)
(* which a claim goes stale (at once, where answers may be lost), and no   *)
(* two of the stores that say "processed" fail for one sale.               *)
(***************************************************************************)
Tolerated ==
    /\ Claimed
    /\ ~ClaimFaults
    /\ ~SlowHolders
    /\ IndexLag # "long"
    /\ LostAnswers => IndexLag = "none"
    /\ \A W \in SaveFaults, R \in ReadFaults : W \cup R # Stores

\* However many deliveries describe a sale and however often they are retried
\* after a crash, a lost answer or a failed write, the destination holds one
\* document for it (claimOrder, isInvoiceAlreadyProcessed, findByReference).
OneDocument ==
    \A i, j \in DOMAIN docs : docs[i].sale = docs[j].sale => i = j

\* Two deliveries are never inside the claimed region for the same sale, a dead
\* holder's claim being taken over at most once (claimOrder's compare-and-swap).
ClaimExclusion ==
    \A d, e \in Deliveries : SaleOf[d] = SaleOf[e] /\ Inside(d) /\ Inside(e) => d = e

\* A document becomes fiscal only if nothing holds it back, on the created AND on
\* the paid branch, after any redelivery: not held for a human, not routed to
\* stay a draft, not of a test connection; and a run-in that held when the message
\* was handed over was lifted while it was worked on.  An answer withdrawn after
\* the delivery read it does not stop that delivery, and stops every later one.
CertifiedOnlyWhenCleared ==
    [][\A i \in DOMAIN docs :
          docs[i].state = "draft" /\ docs'[i].state = "final"
          => /\ sale_kind[docs[i].sale] = "clean"
             /\ ~TestConnection
             /\ RunIn => \E d \in lifted : pc[d] = "certify" /\ found[d] = i]_vars

Settled(s) == \A d \in Deliveries : SaleOf[d] = s => pc[d] \in Ended
Issued(s)  == DocsOf(s) # {}
Certified(s) == \E i \in DocsOf(s) : docs[i].state = "final"

\* No payment vanishes: once every message about a sale is acknowledged or
\* dead-lettered, the sale has a certified document, or a draft that its route or
\* its test connection keeps a draft, or an incident, event or log row that says
\* why not.  A dead invocation may leave the draft with nothing said.
EverySaleAccounted ==
    \A s \in Sales :
        Settled(s) => \/ noted[s]
                      \/ Certified(s)
                      \/ /\ Issued(s)
                         /\ \/ sale_kind[s] = "draftOnly"
                            \/ TestConnection
                            \/ crashes > 0

\* Every message is in the end acknowledged or dead-lettered, whoever holds the
\* claim it waits for and whether or not that holder is alive (staleAfterMs).
EveryDeliveryEnds == \A d \in Deliveries : <>(pc[d] \in Ended)

\* A sale Rioko should invoice gets its document although the invocation that
\* held its claim died: the losers of the claim are retried, never acknowledged.
SaleEventuallyInvoiced ==
    \A s \in Sales : sale_kind[s] \in {"clean", "hold", "draftOnly"} => <>Issued(s)

\* The pipeline implements the abstract ledger: every step of it issues a first
\* document, certifies a draft, or leaves the merchant's documents as they were.
Ledger == INSTANCE SaleLedger WITH
    ledger <- [i \in DOMAIN docs |-> [sale |-> docs[i].sale, state |-> docs[i].state]]

LedgerSpec == Ledger!Spec
=============================================================================
