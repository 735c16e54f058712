# A verification of the invoicing worker

Rioko's Cloudflare Worker turns sales into fiscal documents. Webhooks of Shopify and
Stripe are put on queues, those of Eupago and the bookings polled from Lodgify run
directly; the handlers build an
invoice, create it as a draft at InvoiceXpress, Moloni or Vendus, record it in D1
and KV, and certify it. A certified document cannot be taken back: a second one for
the same sale, one certified while a human was asked to look, or a payment nobody
invoices are the failures the code is written against. Nothing in the system is
transactional across the database, the KV copy and the destination, every consumer
invocation may die between two awaits, every message may come twice, and the
deliveries of one sale run at once. That is what these modules are about.

Paths below are relative to `src/`, where the repository is.

## 1. Inventory

| component | code | state | operations | what is hard |
|---|---|---|---|---|
| Webhook intake | `src/index.ts` (fetch), `src/security.ts` | `webhook_info` rows | verify, mark processing, send to a queue or run | a row written before the send, an order of writes that differs by route, rows that go stale |
| Queue consumers, dead-letter consumer | `src/index.ts` (`queue`, `processShopifyBatch`, `processStripeBatch`), `wrangler.jsonc` | `message.attempts`, acknowledgements, incidents | ack, retry with a delay, give up after six attempts, dead-letter | at-least-once delivery, retries that outlive claims |
| Adapter pipeline | `src/handlers/generic-pipeline.ts`, `src/services/run-in.ts` | `order_claims`, `processed_orders`, KV, the destination | created, paid, refund, and the gates before them | interleaved deliveries, crashes, lost answers, lagging search |
| Shopify orders on InvoiceXpress | `src/handlers/orders-created.ts`, `orders-paid.ts` | the same tables | create, link what is found, certify, self-heal | check before claim, rows rewritten, orders/paid unclaimed |
| Shopify refunds on InvoiceXpress, and refunds of the pipeline | `src/handlers/refunds-create.ts`, the refund topic of `generic-pipeline.ts` | `credit_notes`, one row per refund | claim, find a leftover, create, finalize, withdraw, record | two messages that each work through both refunds |
| Deferred reverse charge | `src/handlers/pending-reverse-charge.ts`, `orders-updated.ts`, routes in `src/index.ts` | `pending_reverse_charge`, one row per order | enqueue, retry, submit, approve, reject, escalate | four webhooks, a cron and an admin on one row |
| D1 and KV storage | `src/storage.ts` | all of the above | claim, takeover, save, upsert | failures that are swallowed, two copies of one fact |
| Destinations | `src/adapters/destinations/*`, `src/services/ix-find-reference.ts` | documents | create, find by reference, finalize, credit, delete | an answer lost after the act, a search that lags |
| Lodgify settlement, billing, poll | `src/handlers/lodgify-*.ts`, `src/services/lodgify-poll.ts`, `run-lock.ts` | `lodgify_settlements`, `lodgify_bookings`, `order_claims`, `sweep_state` | bill a stay, take it back, receipt each payment; poll under a lock | an admin's route beside the poll, a booking that moves while it is worked on, a latch written too early, locks that go stale |
| Reconciliation and sweeps | `src/handlers/reconciliation*.ts`, `admin.ts`, `document-verify-sweep.ts` | `sweep_state` | find what is missing, re-emit, report shops never reached | one budget for the fleet, orders that age out of the window |
| Moloni OAuth | `src/services/moloni-oauth.ts`, `src/handlers/moloni-token-refresh.ts`, `backoffice/src/lib/moloni-oauth.ts` | the token pair of a connection | refresh, compare-and-set, reload, consent anew | rotating tokens spent twice |
| Incidents | `src/services/incidents.ts`, `connection-health.ts` | `incidents` | raise, close on evidence, on silence, by the digest, by hand | rows read, then closed, while failures are added to them |
| Referral rewards | backoffice `src/lib/referral-reward.ts`, `src/app/api/webhooks/stripe`, `api/admin/referrals`, `api/referral/claim`, `api/billing/checkout` | `referrals` rows, `billing_events`, the inviter's `trial_end` at Stripe | claim, count, retrieve, push, write, park; retry and void by hand | events side by side and again, a push nobody recorded, a retry beside another |
| Source adapters, builder, VIES client | `src/adapters/sources/*`, `src/ix/*` | none | normalise, build, ask | pure mapping |
| Rest of the backoffice, proxy, relay, scripts | `backoffice/`, `ix-proxy/`, `lodgify-relay/` | none of the worker's | pages, forwarding | not part of the invoicing state |

How they interact: intake → queue → consumer → handler; handlers share the tables
through `AppStorage` and the destination through an adapter; crons (nightly, daily,
half-hourly, weekly) work on the same tables beside the consumers; incidents are
where everything that stops ends up. No component calls another one back: all
coordination is by rows, which is why one action of these modules is *the code
between two awaits on a row or a document others can see*.

What makes each correct:

* **pipelines** — one document per sale; nothing certified that is held back; no
  payment without a certified document or an explanation; every message ends;
* **refunds** — one credit note per refund; the ledger row tells the truth; a closed
  row stays closed; no refund lost;
* **deferred sales** — decided means invoiced; a decision stands; nothing waits
  unseen;
* **Lodgify** — one Fatura stands per stay, receipts never exceed what was
  collected, collected money is receipted in the end, a cancelled stay keeps no draft;
* **tokens** — no rotation leaves a dead refresh token behind;
* **intake** — an event answered with 200 is not lost, and *success* means what it says;
* **sweep** — what it cannot reach is served another night or known to a human;
* **incidents** — nothing unrepaired is closed, everything repaired is;
* **rewards** — the months of an invitee are given once, a reward that is owed stays
  within somebody's reach, the terms are kept.

`PROJECT.json` lists every hazard at its line with the properties that would
notice it, or why none does.

## 2. Modules and how they correspond to the code

| module | models |
|---|---|
| `SaleLedger` | the abstract promise: a sale gets at most one document, born a draft, certified once |
| `AdapterPipeline` | `runAdapterPipeline` and `runPipelineCore`, topics created and paid; claim, processed row and KV; the Stripe consumer's ack and retry; the dead-letter consumer |
| `AdapterPipelineProofs` | its theorems |
| `ShopifyLegacy` | `handleOrderCreated`, `handleOrderPaid` and `processShopifyBatch` |
| `CreditLedger` | `handleRefundCreate` and the refund topic of `runPipelineCore`, over `claimCreditNote` and its siblings |
| `PendingReverseCharge` | enqueue, `runViesRetry`, `submitInvoiceForPendingRow`, the approve and reject routes, and what the four webhooks do with a deferred answer |
| `LodgifyPass` | `pollLodgifyBookings` for one booking, `settleLodgifyReceipts`, Moloni's `settleDocument`, `takeBackLodgifyDocuments`, `claimRunLock`, `claimSettlement` |
| `MoloniGrant` | `createMoloniTokenProvider` with its compare-and-set, the nightly refresh, `exchangeMoloniCode` |
| `WebhookIntake` | the Shopify, Stripe and EuPago routes, `webhook_info`, queue, consumer, DLQ, for one event |
| `NightlySweep` | `runReconciliationSweep` over a fleet, `processOrders`, `sweep_state`, `reportStarvedShops` |
| `Incidents` | `reportIncident`, `resolveIncidentsOnEvidence`, `autoResolveStaleIncidents`, the credential check, the weekly digest, the backoffice's PATCH |
| `ReferralRewards` | `rewardInviter` and its `park`, the Stripe webhook of the backoffice around it, the admin's retry and void, the invitee's claim and Checkout, for one inviter |
| `ShopifyLegacyProofs`, `CreditLedgerProofs`, `WebhookIntakeProofs`, `IncidentsProofs`, `ReferralRewardsProofs` | the theorems of the module each is named after |
| `DailyJobsProofs` | the theorems of `PendingReverseCharge` and `NightlySweep` |
| `LodgifyMoloniProofs` | the theorems of `LodgifyPass` and `MoloniGrant` |
| `MC…` | instances for TLC: the topic of each message, the fault sets, and which parts share a run |

`AdapterPipeline` and `ShopifyLegacy` are both instantiated against `SaleLedger`
(`Ledger == INSTANCE SaleLedger WITH ledger <- …`, forgetting everything but which
sale a document is of and whether it is certified).

### AdapterPipeline

Variables: `order_claims` (the claim row: none, fresh, stale by `staleAfterMs`),
`processed_orders` (document, hold, stored route), `kv` (the fast-path key), `docs`
(what the destination holds and whether its search sees it), `sale_kind` (what the
payload decides: clean, held, routed to stay a draft, not invoiced, another
system's), `run_in` (the connection's hold, which the merchant's answers lift and
restore) with `lifted` (the messages at work that were without it at some moment),
`noted` (an incident, event or log row explains the sale), and per message `pc`, `attempts`, `flow`, `found`.

| action | code |
|---|---|
| `Receive`, `Release`, `DeadLetter` | the queue hands over; `finally` releases, then ack or retry; the DLQ consumer's incident |
| `StopAtGate`, `Claim`, `ClaimRefused` | pause and subscription gates; `claimOrder` won, taken over, or failed open; lost, thrown, retried after the claim |
| `Check`, `Lookup` | `isInvoiceAlreadyProcessed` with stores that may not answer; `findByReference`, currency and zero guard |
| `Create`, `Save`, `Decide` | `createDraft` (the answer may be lost); `saveProcessedInvoice`, either write may fail unseen; `finalizeInSameFlow` |
| `Row`, `Read`, `Certify` | the paid branch: the row, kept drafts, the fall back to create, `getDocument`, `finalize` |
| `Fail`, `Crash`, `Age`, `Surface` | a call throws, an invocation dies, a claim goes stale, the search catches up |
| `ConfirmRunIn`, `WithdrawRunIn` | the merchant's "yes" and "no", each possible after the other: the token outlives both |

The sources differ by constants: `Claimed` (Stripe, Stripe Connect and Eupago
against Shopify on Moloni or Vendus, and Lodgify), `SeparatePaid`, `TestConnection`, `RunIn`.

### ShopifyLegacy

The same tables, but the idempotency check is an action *before* `Claim`, a found
document is linked by `Link`, which rewrites the row, `CertifyCredit` certifies what
is billed before payment, `Save` and `PutKv` are the two writes of
`saveProcessedInvoice` with room for a crash between them, `Tell` announces a held
draft, `Claim` may fail open (`ClaimFaults`), orders/paid claims nothing (`Row`, `Certify`) and runs the
create flow itself when it finds no row (`healed`), and `GivesUp` ends a message
after `GiveUp` attempts unless the destination rejected it.

### CreditLedger

`credit_notes` is the ledger row (none, issuing, issued, refused; the document it
names; older than the takeover age), `notes` the credit notes at the destination,
`path` the code that handles the order. A message reads (`Read`), works through
`todo`, and for each refund claims (`Claim`), looks for a leftover by reference
(`Lookup`, adapter path, which may miss one), creates (`Issue`), finalizes (`Finalize`), withdraws a
draft that could not be finalized (`Withdraw`) and records (`Write`). `Invoice`
moves the order's own document; `Age` lets the row of a dead holder be taken.

### PendingReverseCharge

One row for the order (`status`, `attempts`, `due`, `incident`, and the ghost
`refund`: a refund left its work in it). `Build` / `Create` / `Save` / `Update` /
`Refund` are the webhooks; `Retry` / `Ask` / `Check` / `Submit` / `Record` / `Resolve`
pass 1 of the cron, `Escalate` and `Alert` pass 2; `Request` an admin's approve or
reject, which then shares the submission. `row.incident` is the mark on the row, `listed`
whether an incident was really stored: `Alert` sets the mark either way, as
`attachPendingIncident` does. While `trouble` lasts, a run may be cut short wherever it
stands (`Crash`: the builder throws on this row or another of the batch, outside any try,
or the invocation dies), and the shop may have no config, so that nothing is submitted and
pass 2 goes past the row. The claims and retries of `ShopifyLegacy` appear only by their
result.

### LodgifyPass

One booking on a connection in `invoice_plus_receipts`. A *pass* is an invocation:
`Polls` run the whole of `pollLodgifyBookings` under `run_lock`, `Desks` call
`/admin/lodgify/settle-receipts`, which only settles and takes no run lock. `stage`
is where a pass stands, and `item`, `target`, `known`, `seen`, `outcome` are the
locals it carries over an await. `Start`, `List`, `Bill`, `Lookup`, `Create`, `Save`
bill the stay; `Undo` and `Forget` take a cancelled one back; `Gate` (with
`ShouldAsk`), `Claim`, `Ask`, `Insert`, `Verify`, `Write` are `settleLodgifyReceipts`
around `settleDocument`; `Finish` releases both locks by token; `Crash` leaves them
to go stale (`Lapse`). `Move` and `Approve` are what the merchant does meanwhile.
`fatura` counts what was receipted (`issued`) apart from what Moloni reconciled.

### MoloniGrant

A pair is named by the number of its grant. A worker loads the connection
(`LoadConnection`), refreshes when its access token expired (`GetToken`, `AskGrant`),
stores what it won by compare-and-set (`PersistRotation`, `StillStored`), or reloads
what a rival stored (`ReloadTokens`) and otherwise marks the connection
(`MarkReauthRequired`). `Authorise` and `StoreConsent` are the merchant's new consent.

### WebhookIntake

One event of one route. Shopify's marks, then sends; Stripe's sends, then marks;
EuPago's marks and runs the pipeline in the request (`FirstStep`, `RunDirectly`).
`Check` is `isWebhookProcessed` with its ten-minute net (`TurnStale`), `Consume`,
`Acknowledge` and `RetryOrGiveUp` the consumer, which drops an event whose
connection is gone by then (`Disconnect`). What the pipeline does with the sale is one
step, with all its ways out: `Issues`, `Refuses` (with an incident, which the database
may not take: `Report`), `Pauses`, `NotDue` (another system's event, or a total of zero), `Throws`;
`Block` is the subscription gate of Shopify's handlers, which marks before it reports
(`Explain`, the dead-letter consumer's report too).

### NightlySweep

`StartNight` orders the shops by `last_completed_at`; `Visit`, `Attempt`, `EndPass`,
`Close` are one shop: a capped batch, one attempt per order, the finalize pass,
`reportIncident` and `markSweep`. `SkipRest` is the budget running out, `Refuse` the
subscription gate, `Report` the starvation alert, `Die` a killed invocation. Time and
budget are counted in orders' worth. `excused` names the orders a mishap hid.

### Incidents

`alarm` is the row of each bucket (an hour, or a day for standing conditions, times
the topic). `ReadRows`, `ReadEvidence` and `CloseOnEvidence` are the three awaits of
the evidence pass; failures (`ReportFailure`, `ReportStanding`), documents and credit
notes arrive between them. A failure is a sale's, a refund's, or that of a refund the
subscription gate refused (`"gated"`), which is filed under the sale (`FiledAs`).
`FallSilent`, `Configured`, `DigestRead` / `DigestClose` and `Patch` are the other ways a
row is closed. `told` remembers what was reported.

### ReferralRewards

One inviter, the rows of the accounts the link brought (`referral`, `named`,
`rewardedAt`), and the inviter's subscription at Stripe (`inviter`, `pushes`). A
*call* is an invocation of the webhook (`Deliver`, `DeliverInVain`, `Record`) or of the
admin's retry (`Retry`, `Reset`); both go through `ClaimReward`, `CountRewards`,
`Retrieve`, `Push`, `WriteReward`, `WriteLabel` and `Park`, the awaits of
`rewardInviter`, any of which may be refused or the last (`Die`). `ClaimLink`,
`OpenCheckout` and `Subscribe` are the invitee, `Void` the admin, `SubscriptionTurns` the
inviter. A date is a number of months from the end of the period the inviter has paid
for. Stripe's idempotency key is the invitee with the date asked for (`Key`): a push
repeated with the same date does nothing.

Definitions marked *Faulty* are variants of the definition that follows them, each a
plausible mistake in that code (a dropped guard, an acknowledged loser, a reset that
is missing). No specification uses them; put in the place of the original, each
makes a property fail, which is how the properties are known to say something.

## 3. Runs

| run | instance | shows |
|---|---|---|
| `adapter_safety` | one sale, two created and one paid message, 3 hand-overs, 1 crash, D1 reads and writes lost, transient and permanent failures, a search that lags less than the stale age, a run-in the merchant may lift and restore at any moment | `OneDocument`, `ClaimExclusion`, `EverySaleAccounted`, `CertifiedOnlyWhenCleared`, and `LedgerSpec` (refinement) |
| `adapter_liveness` | one created, one paid, lost answers, claim table unreachable, 1 crash, a run-in nobody need lift; fairness | `EveryDeliveryEnds`, `SaleEventuallyInvoiced` |
| `shopify_incidents` | two parts. Deliveries: unclaimed source with separate paid event, every store failing, search arbitrarily late. Incidents: two sales, two failures, one pass, one digest or click or failed pass, across the end of a bucket; or a standing alarm over bucket and silence | without a claim, still `EverySaleAccounted`; `UnrepairedIsListed`, `SilenceOutlastsBucket`, `RepairedCloses` |
| `legacy_safety` | one order, two created and one paid, 1 crash, lost answers, give-ups, a claim table that answers, a search that sees what was issued | `PaidOrderAccounted`, `RowNamesDocument`, `LedgerSpec` |
| `legacy_duplicate` | two created, nothing failing, a search that may miss a new document | **violates** `OneDocument` |
| `legacy_held` | one created, one paid, a held order, nothing failing | **violates** `HeldStaysDraft` |
| `credit_safety` | two parts. Credit notes: two refunds of one order, either path, ledger faults, 1 crash, a search that sees what was issued. Rewards: three invitees, two calls, a ceiling of two, 1 click of the admin, 1 mishap | `NoTwin`, `RowTellsTruth`, `RefundTraceable`, `ClosedStaysClosed`; `PaidOnce`, `OwedIsWithinReach`, `WithinTerms` |
| `credit_lost` | one refund, 1 crash | **violates** `RefundNotLost` |
| `daily_jobs` | two parts. Deferred sales: four webhooks, a cron and an admin, refusals, lost answers, lost writes, runs cut short and a shop without a config for as long as a trouble lasts. Sweep: two shops, two missing orders, a cap and a budget of one order, a window of two nights, 1 mishap; fairness | `DecidedIsInvoiced`, `DecidedStaysDecided`, `DeferredSaleSurfaces`; `LeftBehindIsKnown`, `BudgetRotates` |
| `vies_refund` | three webhooks and a cron, nothing failing | **violates** `ParkedRefundCredited` |
| `background` | four parts. Lodgify, twice: a cron and an admin who may poll or settle, a stay of two units whose money moves twice, 1 mishap or outlived settlement claim; and two polls of a stay moved three times, all of its money or none, 2 mishaps. Grant: two workers, three pairs, 1 loss. Intake: each route, two open requests, three deliveries, two tries, 2 failures; fairness of the passes | `OneFatura`, `OneSettler`, `ReceiptsCovered`, `ReleaseIsOwn`, `MoneyRecorded`, `DraftTakenBack`; `NotStranded`; `AnsweredIsCarried`, `SuccessIsResolved` |
| `settle_latch` | one poll, one desk, a receipt accepted and not reconciled | **violates** `NoSecondReceipt` |

A run with parts picks one of them in its initial state (the variable `part` of its
MC module) and leaves the others at rest: the parts share no state in these models,
so their behaviours are added up and not multiplied.

The type invariants of `ShopifyLegacy`, `CreditLedger`, `PendingReverseCharge`,
`LodgifyPass` and `NightlySweep` are checked by the run of their module as well; all
are proved, like those of the other modules.
Deadlock checking is off everywhere: a finite set of messages is worked off and the
system then rests.

### Bounds, and why they are enough

* **One sale (order).** Claims, rows and documents are per sale, and no action reads
  the row of another one. The theorems hold for any number.
* **Two created and one paid message.** Two are needed for a race; a third adds the
  observer that reads what one of them left while the other is still at it. The
  adapter refund and the legacy refund need two refunds for two messages to compete.
* **`MaxAttempts` 2 or 3** where the queues allow eleven: enough for a redelivery
  after a crash and one after a lost claim, and for the last attempt to be
  dead-lettered. `GiveUp` 2 where the code has six, so that giving up happens.
* **`MaxCrashes` 1**: a crash leaves a claim and perhaps a document behind, and
  everything that has to cope with that comes after it; a second one repeats it.
* **`MaxDocs`, `MaxNotes` 2**: a second document is already the violation.
* **A stay of two units**: in one part its money moves twice, a first receipt and a
  payment more or a correction, the sequences `ShouldAsk` and `ReceiptDelta` tell apart;
  in the other it is paid, cancelled and reinstated, three moves, with nobody at the
  desk. Faults, crashes and outlived claims together are one there and two here, as
  many as a lost answer and a crash after it; `MaxAttempts` 2 makes a document that keeps throwing get parked.
* **Three deliveries, two tries, two failures of an event**: a delivery, a redelivery
  that overlaps it and one after the row went stale, while a send and a mark fail.
* **Two shops, two orders, a budget of one order**: the budget runs out before the
  second shop on a night the first has work, and the cap leaves an order over.
  `StaleNights` 1 of a `Window` of 2 has the code's shape (48 hours of seven days).
* **Two affected sales, two reports**: one sale joins a bucket while the other is
  judged, or one fails again; the sales are interchangeable, so the first failure is about
  the first of them. In the part about failures time moves over one bucket
  boundary; in the part about a standing alarm `LastTime` covers a bucket and the
  silence after it.
* **Three invitees, a ceiling of two (the code has three), two calls**: the third
  invitee is the one the ceiling refuses, and a race needs two calls. One click and
  one mishap: a retry after a push nobody recorded needs both. Invitees and calls are
  interchangeable, so the MC module numbers them in the order in which they turn up, lets
  the first invitee alone subscribe outside the referral and the second alone be refused by
  the terms, and leaves the third out where payments overlap.

### Circumstances

`Tolerated` (`AdapterPipeline`) names what one document per sale rests on, and
dropping any conjunct gives a counterexample: the source is claimed; the claim table
answers (it fails open on purpose); a holder is done before its claim is stale
("comfortably longer than a normalize plus an IX round trip", `storage.ts:425`); the search sees a new document
before that age, at once if answers may be lost; and no two stores of the "already
processed" fact fail for one sale. `legacy_safety` asks its `LedgerSpec` where
the claim table answers too (`ClaimFaults = FALSE`), and needs more, `MissedLookups =
FALSE`: the check under the claim that the adapter pipeline makes is not made there,
which is what `legacy_duplicate` shows. Its other properties are proved without
either. `RowNamesDocument` asks the KV copy only of orders no invocation died on: the
two writes of a save are two awaits. `credit_safety` excludes a related-documents
read that fails and answers lost by the create call: with either, `NoTwin` does not
hold on the legacy path (see the hazards). On the adapter path the claim has the
search by reference behind it, and `NoTwin` is proved with both as long as that search
misses no note that stands (`MissedLookups = FALSE`).

Every search by reference may miss a document: because
the destination has not indexed it, or because Moloni refused the search: only a 5xx, a
timeout and a network error are thrown, any other failure (429 among them) is answered
as *none* (`moloni-destination.ts:1939`). In `AdapterPipeline` both are a search that
does not see yet; in `ShopifyLegacy`, `CreditLedger` and `LodgifyPass` they are
`MissedLookups`, with which none of them promises a single document.

`CertifiedOnlyWhenCleared` says of the run-in what the code can promise: the answer is
read once (`services/run-in.ts:79`), so one that is withdrawn afterwards
(`handlers/run-in.ts:96`) does not stop the certification under way. A draft is certified
in a run-in only by a delivery at work during which the hold was lifted.

`EverySaleAccounted` rests on none of `Tolerated`: it is proved of claimed and
unclaimed sources alike, with a claim table that does not answer, claims that expire
under a live holder, and stores that miss any write and any read. What it needs is
that a message announced the sale and, where the source announces payments apart,
its payment: before that the draft simply waits.

* `AdapterPipeline`: an incident that is reported counts as an explanation (`noted`), though
  `reportIncident` swallows an upsert that fails (`incidents.ts:177`). So does `NightlySweep`
  count any incident about the shop as knowledge of what it leaves behind.
* `LodgifyPass`: `OneFatura`, `OneSettler` and `ReceiptsCovered` are asked as long as
  no *live* pass outlives its lock (a quarter of an hour for the run lock, ten
  minutes for a settlement claim), `OneFatura` also as long as the search misses no
  document (`MissedLookups = FALSE`); `ReleaseIsOwn` is asked always. `Unreconciled` is
  FALSE in `background`: with it, `settle_latch` shows what happens.
* `MoloniGrant`: only the token is judged, not the reauthorisation mark (section 5).
  `NotStranded` is asked while nothing is lost. An invocation that dies
  between Moloni's grant and the write of its pair leaves the connection with a dead
  token, and nothing but a new consent helps; the code cannot avoid that.
* `WebhookIntake`: on Shopify's and EuPago's routes `AnsweredIsCarried` is asked as
  long as nothing fails, since they mark first; on Stripe's whatever fails. It is asked
  while the connection is active: an event accepted before it was paused is dropped;
  `SuccessIsResolved` likewise. Both take an event for resolved that asks for no document,
  that the merchant's pause sets aside, or whose incident the database refused (`aside`).
* `PendingReverseCharge`: `DeferredSaleSurfaces` is asked of behaviours whose troubles end
  (`<>[]~trouble`) and with `LostReports` FALSE. Without the first, a connection whose
  account was deleted is passed over for ever (`pending-reverse-charge.ts:205`), and a row
  whose build throws every day, its own or another of the batch, keeps the cron from
  pass 2 (lines 60-66, 169-197). Without the second, a report that `reportIncident` could
  not store (`incidents.ts:177`) is marked as made and never made again; TLC shows both.
  The writes to `pending_reverse_charge` itself, which the code lets fail in silence, are
  taken to succeed. `DecidedIsInvoiced` and `DecidedStaysDecided` need none of this.
* `NightlySweep`: a failed D1 call, a lost incident or a killed night is a mishap, and
  the orders it hides are `excused`. `BudgetRotates` assumes that shops stop leaving
  orders over: a shop that never drains keeps its place at the head of the line, by
  design, and is what the starvation alert is for. A re-emission may be late
  (`Attempt`), so that an order counted as an error has its document.
* `Incidents`: `SecondRefundRaces` is FALSE: the same refund does not fail again
  between the pass's read and its UPDATE, which compares the list of sales and not
  when they failed last (`incidents.ts:866`). A refund the subscription gate refused
  counts as repaired with its sale, for nothing in its report says that it is a refund
  (section 5). The backoffice's PATCH could also set `auto_resolved`
  (`api/admin/incidents/route.ts:15`), which `Patch` does not. Rows closed by a person or by the weekly
  digest are excused: the digest closes by id, on *a row exists*. `RepairedCloses`
  leaves out refund rows that list two sales, which share one `last_seen_at`, so that
  the earlier credit note does not count.
* `ReferralRewards`: `RetryRaces` is FALSE in the run, and `PaidOnce` is proved under
  that alone: a retry puts the row back to pending whatever it is by then, so two
  overlapping calls about one invitee may both pay (section 5). `OwedIsWithinReach` and
  `WithinTerms` are proved without it. `PaidOnce` excuses an invitee whose push could not be recorded
  (`missed`), since nothing in the database tells the retry of it; `OwedIsWithinReach` one
  whose subscription or claim the database refused (`dropped`). `WithinTerms` is asked
  while no two payments overlap (`together`). The inviter's paid period does not end
  between the read and the push, and an invitee opens one Checkout.

### Fairness

* `AdapterPipeline`: Cloudflare Queues hand a message over until it is acknowledged
  or dead-lettered (`Receive`), an invocation that is not killed proceeds (`Step`,
  so it may fail but not stop for ever), the dead-letter consumer is an ordinary
  consumer, time passes (`Age`) and the destination indexes (`Surface`). Weak
  fairness of each is enough. Crashes, failures, gates and the merchant's answer to
  the run-in question are not obliged to happen.
* `PendingReverseCharge`: the crons of `wrangler.jsonc` come back and, while nothing cuts
  them short, come to every row; rows fall due, and what has begun goes on. No admin is obliged to look and no
  webhook to arrive.
* `LodgifyPass`: a poll comes back (the half-hourly cron), a pass that has started
  goes on unless it dies, stale locks and cooldowns run out. The desk is not obliged to
  do anything.
* `NightlySweep`: the cron comes every night and an invocation that is not killed
  goes on. `Incidents`: the evidence pass runs with the half-hourly cron, in its
  `finally`.

## 4. Proofs

`AdapterPipelineProofs` proves, for every set of sales, messages and every value of
the constants that `ConstantsOK` allows:

| theorem | assumes | states |
|---|---|---|
| `CoreInvariant`, `TypeCorrect` | nothing | `Spec => []Core`, `Spec => []TypeOK` |
| `Clearance` | nothing | `Spec => CertifiedOnlyWhenCleared`: claimed or not, whatever fails |
| `Exclusion` | claimed, claim table answers, holders not slow | `Spec => []ClaimExclusion` |
| `OneDocumentPerSale` | `Tolerated` | `Spec => []OneDocument` |
| `LedgerRefined` | `Tolerated` | `Spec => LedgerSpec` |
| `SalesAlwaysAccounted` | `Announced` | `Spec => []EverySaleAccounted` |

The argument is four inductive invariants, the first under each of the others and the
second under the third:

1. `Core`: besides the types, a message that may be handed over has an attempt left
   (else `attempts` could pass its bound); a local `found` and a `processed_orders`
   row name a document *of their own sale* and remember its hold and route; and how
   far a message got says what its sale let through (`ClearOK`). `LiftedOK` adds that who
   got past the run-in is in `lifted`. With it, `ClearOK` is
   what makes `Clearance` a one-step consequence: `Certify` is reached only through
   `Decide`, which asks everything, or `Row`, which asks the row, and `RowOK` says the
   row has not forgotten.
2. `Exclusive`: whoever is inside holds a *fresh* claim. `ClaimExclusion` alone is not
   inductive, since it does not say that the row refuses a second one.
3. `Ledgered`: `OneDocument` needs that nobody at `create` overlooks a document. Every
   document is `Findable`: the search sees it, or every read of the record says
   "processed", or its creator is about to save it, or its creator is dead and the
   claim has not gone stale. Whoever is inside and past `Check` can therefore only
   be ignorant of documents the search shows it.
4. `Accounting`: `EverySaleAccounted` speaks of the end, so what it needs must be said
   of the way there. A record of the sale (row or KV), and a message that owes an answer
   (`Owes`) and has left or ended, leave the sale `Answerable`: explained for good, or with a
   delivery that has recorded it and is still deciding. The explanation is never taken
   back (`Remembered`), and whoever decides leaves one (`DecisionAnswers`) or dies, which is
   an explanation in its own right. `Announced` says every sale has a message that owes.

`LedgerRefined` maps `Create` to `Issue` (by `Ledgered`, the sale has no document),
`Certify` to `Certify` or a stutter, and everything else to a stutter.

The other modules of proofs prove theirs for every value of the constants, from the
named ASSUMEs of the modules alone unless the table says otherwise.

Documents and credit notes (`ShopifyLegacyProofs`, `CreditLedgerProofs`):

| theorem | assumes | states | the invariant it rests on |
|---|---|---|---|
| `LegacyTypes` | nothing | `TypeOK` | `LegacyInv`: what a local or a row names is a document of its order (`FoundOK`, `RowOK`); every document is some delivery's (`BornOf`) |
| `OneDocumentEver`, `LegacyImplementsLedger` | `~MissedLookups`, `~ClaimFaults` | one document; `LedgerSpec` | `Sole`: whoever is at `create` finds no document of its order, which `Claims` keeps true while it is there: whoever is inside holds a fresh claim, alone |
| `PaidAlwaysAccounted` | `SavesD1`, `ReadsD1` | `PaidOrderAccounted` | `Books`: a delivery past its work leaves a row or a report (`Tracked`), the row is there whenever KV says so (`Saved`), and a row that keeps its draft says why and is announced, unless a death kept it from that (`RowReasons`) |
| `RowAlwaysNames` | `SaveFaults = {}` | `RowNamesDocument` | `Copied`, over `Books`: an order with a row has the KV key too, or somebody is about to put it, or an invocation died |
| `CreditTypes`, `RowAlwaysTrue`, `ClosedForGood` | nothing | `TypeOK`, `RowTellsTruth`, `ClosedStaysClosed` | `LedgerInv`: between its claim and its write a message alone owns a row that is issuing and not stale (`Owned`); what it holds is a note of that refund in the state its next step takes it for (`NoteHeld`); so is what is on record (`RowHolds`) |
| `NoTwinEver` | `Seen` | `NoTwin` | `TwinInv`: whoever is about to create finds no live note; on Shopify's path, neither does whoever has planned a refund that can still be claimed (`Unissued`) |
| `EveryRefundTraceable` | `Seen` | `RefundTraceable` | `Traced`: a refund without note, report or row has a message that will come to it |

`Seen` is: on the adapter path, a search that misses no note that stands
(`~MissedLookups`); on Shopify's, no failed read of the related documents and no
lost answer of a create. It is the weakest circumstance we found under which nothing
is created unseen: dropping any of the three gives TLC a second note.
`SavesD1` and `ReadsD1` ask the database alone; KV may miss everything.

Deferred sales, passes, tokens and the rest:

| theorem | assumes | states | the invariant it rests on |
|---|---|---|---|
| `DeferredTypes` | nothing | `TypeOK` | a row counts each retry of its own and each delivery past its update, so its attempts are bounded by both (`AttemptsBounded`) |
| `DecidedAlwaysInvoiced`, `DecidedForGood` | nothing | `DecidedIsInvoiced`, `DecidedStaysDecided` | whoever has submitted and not recorded it yet has a document to show (`SubmittedIsInvoiced`) |
| `LeftBehindAlwaysKnown` | nothing | `LeftBehindIsKnown` | a shop not seen in full ages with the orders it is not seen for (`Ages`), and a pass that counts as full has dealt with, deferred or reported every order of its shop (`Covers`): a shop silent for longer than `StaleNights` is reported while its orders are still in the window |
| `SweepTypes` | nothing | `SweepTypeOK` | `SheetInv`: a line of as many places as shops in which every shop is found keeps all of them when one is sent behind it (`Lineups`), and a pass has at most the default budget and one order more than its night (`Budgets`), which bounds the overrun |
| `PassesTyped` | nothing | `PassTypeOK` | `PassTypes`: the types, and that a pass at work has a target and a document at work a number |
| `OneFaturaEver`, `OneSettlerEver` | `~MissedLookups` for `OneFatura` | `OneFatura`, `OneSettler` | `Locked`: until somebody is outlived, whoever bills holds the run lock and whoever settles the claim of its document (`BillsLocked`, `SettlesLocked`), so that who found no document still finds none when it creates (`Barren`) and one stands at most (`Lone`) |
| `LocksAreOwn` | nothing | `ReleaseIsOwn` | a lock names a pass that is under way, and a claim one that works on that document (`RunHeld`, `ClaimHeld`) |
| `ReceiptsAlwaysCovered` | `~Unreconciled` | `ReceiptsCovered` | what was issued is reconciled (`Reconciles`), and a pass about to issue has seen all of it (`SeenAll`) |
| `GrantTypes`, `GrantNeverStranded` | nothing | `NotStranded` | a pair that is yet to be stored is in one worker's hands alone (`WonIsPrivate`, `ConsentIsFresh`), and the token it came from is spent and held by nobody else who is about to store (`HeldIsSpent`): so a compare-and-set that finds its token still stored replaces a dead pair, and one that does not leaves a live one |
| `IntakeTypes`, `AnsweredAlwaysCarried`, `SuccessAlwaysResolved` | nothing | `AnsweredIsCarried`, `SuccessIsResolved` | what a request or a message is past has resolved the event (`Done`); a row that makes a route answer 200 has a document, an incident, a reason for neither or a message behind it, which on Stripe's route follows from sending before marking (`OnStripe`) |
| `IncidentTypes`, `SilenceAlwaysOutlastsBucket` | nothing | `SilenceOutlastsBucket` | a row that was let go is a standing alarm's (`OnlyStanding`), and what a row was last told lies in its bucket (`SeenInBucket`); the buckets are quotients, which `DivisionBounds` and `BucketOrder` bound |
| `UnrepairedAlwaysListed` | `~SecondRefundRaces` | `UnrepairedIsListed` | every failure is listed in the row it was filed in or repaired (`Listed`); what the pass read can only have grown since (`Grown`), and what it judged settled is (`Settled`), so that closing a row whose list is still the one read loses nobody |
| `RewardTypes`, `OwedAlwaysWithinReach` | nothing | `OwedIsWithinReach` | an event that is recorded was worked on to its end, so whoever it was about is named, decided or dropped |
| `RewardPaidOnce` | `~RetryRaces` | `PaidOnce` | whoever pays has taken the row out of pending (`ClaimHolds`), so nobody else pays for the same invitee (`Apart`), and a push is on record, about to be, or known to be missed (`Accounted`) |
| `AlwaysWithinTerms` | nothing | `WithinTerms` | payments that do not overlap are about one invitee (`Alone`), so whoever passed the ceiling still has room under it when it writes (`Room`), and the date it asks for is the next one or was granted under the same key (`Dates`): two calls that race about an invitee push one key |

The constants each theorem leaves free include the fault switches of its module; what
it assumes of them is in the second column, and section 3 says why the code justifies
it or what happens without. Each inductive invariant was checked by TLC on a small
instance before it was proved.

Only model-checked are the liveness properties (`EveryDeliveryEnds`,
`SaleEventuallyInvoiced`, `RepairedCloses`, `DeferredSaleSurfaces`, `BudgetRotates`,
`MoneyRecorded`, `DraftTakenBack`): the prover does no reasoning about `ENABLED` and
weak fairness.

## 5. What the runs found

1. `handleOrderCreated` asks whether the order was processed before it claims it and
   not again after, so a delivery that asked early creates a second document if the
   search does not show the first (`legacy_duplicate`, `orders-created.ts:132`).
2. Linking a document that was found rewrites the row without its hold; orders/paid
   then certifies a draft that was parked for a human (`legacy_held`,
   `orders-created.ts:309`).
3. A refund whose holder died is skipped by its own redelivery, which is
   acknowledged; nothing looks at rows left issuing (`credit_lost`,
   `refunds-create.ts:369`).
4. A refund parked until VIES answers shares the row of the order's invoice and is
   resolved with it; no code issues its credit note (`vies_refund`,
   `refunds-create.ts:304`).
5. The flag that parks a document for a human, and the count of its attempts, are set
   on the settlement row after it was written and never written again; an invoice whose
   receipt did not reconcile gets a second one (`settle_latch`,
   `lodgify-settlement.ts:339`).

Seen while modelling, without a run of their own:

* Shopify's route marks before it sends (`index.ts:161`) and EuPago's before it runs
  (`index.ts:600`): after a failure the redeliveries of ten minutes are answered as
  already processed. Stripe's route explains why it does not (`index.ts:316`).
* `markReauthRequired` (`moloni-oauth.ts:234`) compares nothing, so a refusal of an old
  token may put a connection in error that was authorised anew meanwhile; the next
  consent or refresh repairs it.
* `findByReference` at Moloni says it answers null "only on a real 'no match' response"
  (`moloni-destination.ts:1941`) and does so on every status below 500.
* `deleteDraft` at Moloni takes a lookup that fails for a document that is gone
  (`moloni-destination.ts:2083`); `resetWebhookInfo` then forgets the sale's row too.
  `Undo` and `Forget` have both.
* An invocation that dies between the row of a held draft and `notifyNifHold`
  (`orders-created.ts:475`) leaves a draft nobody is told of: the redelivery finds the
  order processed. `PaidOrderAccounted` excuses exactly that.
* A budget of 0 ms passed on to `processOrders` is taken for none, and the pass gets
  five minutes (`reconciliation-sweep.ts:229`, `admin.ts:287`): `PassBudget`.
* "Refunds in their own bucket, so the evidence check never judges a refund failure by the
  sale's invoice" (`index.ts:3243`) is not true of the subscription gate, which reports a
  refund with neither `dedup_key` nor topic (`generic-pipeline.ts:209`): the row closes on
  the sale's invoice while the credit note is missing.
* The VIES cron has no try around a row: one that cannot be built ends the run before its
  own backoff and before the rows that await an incident (`pending-reverse-charge.ts:176`).
* In the weekly digest, a failure added to a row after it was read is closed with it
  (`incidents.ts:1241`).
* `emailIncident` does not look at what `sendEmail` answered, so `notified_at` is
  stamped for an alert nobody received.
* Two rewards of one inviter that overlap read the same `trial_end` and push the same
  date: two months are given for two invitees, though `referral-reward.test.ts:152` says
  the second "stacks … onto the first instead of overwriting it" (there one after the
  other). The ceiling is read before it is written, likewise.
* The admin's retry calls itself "Idempotent" (`api/admin/referrals/route.ts:65`) because the row must be pending, but
  puts it there unconditionally (line 101): with `RetryRaces`, two overlapping calls push
  twice.
* A claim or an upsert the database refuses is answered 200 and never delivered again
  (`api/webhooks/stripe/route.ts:766`); "a row an admin can pay by hand" (line 575) is then one
  that does not name its subscription, which the retry refuses.
* `lodgify-amounts.ts:154` says the SQL twin strips the same characters from a source's
  name as the code does; it strips the space and the dot, the code also underscore and
  hyphen.

## 6. Not modelled, and what could follow

Left out for good: normalisation, building and formatting of documents, and email
templates (pure mapping), the backoffice's pages and CRUD, the rest of its
billing code, the proxy and relay, scripts, generated clients. These are most of the
repository's lines; the modelled code is the part where steps of several actors
meet. Amounts, taxes and currencies appear only as the decision they lead to, in
`LodgifyPass` as whole units.

Left out of modelled components: the instalment ledger of the poll (one document per
payment, `lodgify-poll.ts:593`), whose crash between document and row is guarded by
the reference search alone; the forced re-emission of one order by an admin; the
incident-driven heal, Stripe's heal and the verify sweep; the amounts of refunds
against the invoice; severities, emails and their stamps. One attempt of the sweep is
one step: its claim and search are those of `ShopifyLegacy`. Of the referrals, why a link
is refused, the notes and emails, plan changes, and several inviters, who share nothing.

What could follow: the instalment ledger beside `LodgifyPass`; the heal of incidents
composed with `Incidents` and `ShopifyLegacy`; an abstract `RefundLedger` that
`CreditLedger` implements, with amounts; two submitters of one deferred sale
(`pending-reverse-charge.ts:31`).
