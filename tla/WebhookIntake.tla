--------------------------- MODULE WebhookIntake ---------------------------
(***************************************************************************)
(* One webhook event from its source to the end of its processing: the     *)
(* HTTP routes, the deduplication row in webhook_info, the queue, its      *)
(* consumer and its dead-letter queue.                                     *)
(*                                                                         *)
(* A source delivers an event until it is answered 200.  Shopify's route   *)
(* marks the row and then sends to the queue; Stripe's (and Stripe         *)
(* Connect's) sends and then marks; EuPago's runs the pipeline inside the  *)
(* request.  What the pipeline does with the sale is one step here, and so *)
(* are its ways to leave the sale alone.                                   *)
(***************************************************************************)
EXTENDS Naturals, FiniteSets

CONSTANTS
    Routes,         \* sources whose event is followed
    Handlers,       \* requests that may be open at once
    MaxDeliveries,  \* bound on the deliveries of the event
    MaxTries,       \* deliveries the queue makes of one message before its DLQ
    MaxFailures     \* bound on failed calls and invocations that die

ASSUME IntakeConstants ==
    /\ Routes \subseteq {"shopify", "stripe", "eupago"} /\ IsFiniteSet(Handlers)
    /\ {MaxDeliveries, MaxTries} \subseteq Nat \ {0} /\ MaxFailures \in Nat

VARIABLES
    route,       \* the source of the event
    deliveries,  \* deliveries made so far
    answered,    \* the source was told 200
    due,         \* the event asks for a document: ours to issue, and not of nothing
    active,      \* the merchant has an active connection for the source
    request,     \* where each open request stands
    info,        \* state of the webhook_info row; "stale" is processing for ten minutes
    message,     \* the event's queue messages
    invoiced,    \* the sale has its document
    reported,    \* an incident says that it has none
    aside,       \* "paused": set aside by the merchant's switch; "unsaid": the
                 \* incident could not be stored
    failures

sale       == <<invoiced, reported, aside>>
intakeVars == <<route, due, active, deliveries, answered, request, info, message, sale, failures>>

Messages == 1..MaxDeliveries
NoMessage == [state |-> "none", attempts |-> 0]
MessageStates == {"none", "queued", "returned", "thrown", "refused", "blocked", "dlq", "gone"}

IntakeInit ==
    /\ route \in Routes
    /\ due \in BOOLEAN
    /\ active = TRUE
    /\ deliveries = 0 /\ answered = FALSE
    /\ request = [h \in Handlers |-> "idle"]
    /\ info = "none"
    /\ message = [m \in Messages |-> NoMessage]
    /\ invoiced = FALSE /\ reported = FALSE /\ aside = "no"
    /\ failures = 0

Fails == failures < MaxFailures /\ failures' = failures + 1
Works == UNCHANGED failures
At(h, next) == request' = [request EXCEPT ![h] = next]
Ok(h)       == At(h, "idle") /\ answered' = TRUE
Refuse(h)   == At(h, "idle") /\ UNCHANGED answered

\* A mark is written, or its failure is swallowed.
Marked(state) == \/ info' = state /\ Works
                 \/ UNCHANGED info /\ Fails

-----------------------------------------------------------------------------
(* The source and the routes.                                              *)

\* The connection is paused, removed, or put in error by a refused credential.
Disconnect ==
    /\ active /\ active' = FALSE
    /\ UNCHANGED <<route, due, deliveries, answered, request, info, message, sale, failures>>

\* A route answers 404 when nobody has an active connection.
Deliver(h) ==
    /\ active /\ ~answered /\ deliveries < MaxDeliveries /\ request[h] = "idle"
    /\ deliveries' = deliveries + 1
    /\ At(h, "check")
    /\ UNCHANGED <<route, due, active, answered, info, message, sale, failures>>

\* The row turns stale when it has been processing for ten minutes.
TurnStale ==
    /\ info = "processing" /\ info' = "stale"
    /\ UNCHANGED <<route, due, active, deliveries, answered, request, message, sale, failures>>

\* Faulty: every route marks first.
MarksFirst(r) == "mark"

\* What a route does once the event is new to it.
FirstStep(r) == IF r = "stripe" THEN "send" ELSE "mark"

\* isWebhookProcessed; a row that cannot be read is taken for none.
Check(h) ==
    /\ request[h] = "check"
    /\ \/ info \in {"success", "processing"} /\ Ok(h) /\ Works
       \/ info \notin {"success", "processing"} /\ At(h, FirstStep(route)) /\ UNCHANGED answered /\ Works
       \/ info \in {"success", "processing"} /\ At(h, FirstStep(route)) /\ UNCHANGED answered /\ Fails
    /\ UNCHANGED <<route, due, active, deliveries, info, message, sale>>

\* markWebhookAsProcessing, last on Stripe's route and first on the others.
MarkProcessing(h) ==
    /\ request[h] = "mark"
    /\ Marked("processing")
    /\ CASE route = "stripe"  -> Ok(h)
         [] route = "shopify" -> At(h, "send") /\ UNCHANGED answered
         [] route = "eupago"  -> At(h, "run")  /\ UNCHANGED answered
    /\ UNCHANGED <<route, due, active, deliveries, message, sale>>

NextMessage == CHOOSE m \in Messages : message[m] = NoMessage

\* The queue takes the message, or the send throws and the source is answered 500.
SendToQueue(h) ==
    /\ request[h] = "send"
    /\ \/ /\ \E m \in Messages : message[m] = NoMessage
          /\ message' = [message EXCEPT ![NextMessage].state = "queued"]
          /\ IF route = "stripe" THEN At(h, "mark") /\ UNCHANGED answered ELSE Ok(h)
          /\ Works
       \/ Fails /\ Refuse(h) /\ UNCHANGED message
    /\ UNCHANGED <<route, due, active, deliveries, info, sale>>

\* Faulty: a refusal for good leaves no incident.
RefusesQuietly == ~invoiced /\ UNCHANGED sale /\ Works

\* reportIncident, whose failure is swallowed.
Report ==
    /\ UNCHANGED invoiced
    /\ \/ reported' = TRUE /\ UNCHANGED aside /\ Works
       \/ UNCHANGED reported /\ aside' = "unsaid" /\ Fails

\* A sale gets its document, is refused for good with an incident, is left alone (the
\* merchant has paused; another system's; of nothing), or fails in a way that may
\* pass.  One that already has its document keeps it.
Issues  == due /\ invoiced' = TRUE /\ UNCHANGED <<reported, aside>> /\ Works
Refuses == ~invoiced /\ Report
Pauses  == aside' = "paused" /\ UNCHANGED <<invoiced, reported>> /\ Works
NotDue  == ~due /\ UNCHANGED sale /\ Works
Throws  == UNCHANGED sale /\ Fails

\* EuPago's route runs the pipeline itself, unless the account has no row in
\* integrations, which is answered 500.
RunDirectly(h) ==
    /\ request[h] = "run"
    /\ \/ (Issues \/ Refuses \/ Pauses \/ NotDue) /\ At(h, "close")
       \/ Throws /\ At(h, "fail")
       \/ Throws /\ At(h, "idle")
    /\ UNCHANGED <<route, due, active, deliveries, answered, info, message>>

CloseDirectly(h) ==
    /\ \/ request[h] = "close" /\ Marked("success") /\ Ok(h)
       \/ request[h] = "fail" /\ Marked("failed") /\ Refuse(h)
    /\ UNCHANGED <<route, due, active, deliveries, message, sale>>

RequestDies(h) ==
    /\ request[h] # "idle"
    /\ Fails /\ Refuse(h)
    /\ UNCHANGED <<route, due, active, deliveries, info, message, sale>>

-----------------------------------------------------------------------------
(* The queue consumer.                                                     *)

To(m, next) == message' = [message EXCEPT ![m].state = next]

\* The pipeline, or on Shopify's path the handler, which throws a refusal for good and
\* leaves the row alone when the shop is paused.  A message whose connection is gone by
\* now is acknowledged and leaves no trace.
Consume(m) ==
    /\ message[m].state = "queued"
    /\ \/ ~active /\ To(m, "gone") /\ UNCHANGED sale /\ Works
       \/ active /\ (Issues \/ NotDue) /\ To(m, "returned")
       \/ active /\ Pauses /\ To(m, IF route = "stripe" THEN "returned" ELSE "gone")
       \/ active /\ Refuses /\ To(m, IF route = "stripe" THEN "returned" ELSE "refused")
       \/ active /\ Throws /\ To(m, "thrown")
    /\ UNCHANGED <<route, due, active, deliveries, answered, request, info>>

\* The subscription gate of Shopify's handlers marks a success before it reports that
\* the order was not invoiced; the gate of the pipeline is one of its refusals.
Block(m) ==
    /\ message[m].state = "queued" /\ active /\ route = "shopify"
    /\ Marked("success") /\ To(m, "blocked")
    /\ UNCHANGED <<route, due, active, deliveries, answered, request, sale>>

\* The report of the gate, and that of the dead-letter consumer.
Explain(m) ==
    /\ message[m].state \in {"blocked", "dlq"}
    /\ Report /\ To(m, "gone")
    /\ UNCHANGED <<route, due, active, deliveries, answered, request, info>>

\* A return is marked a success, whatever the pipeline did with the sale.
Acknowledge(m) ==
    /\ message[m].state = "returned"
    /\ Marked("success") /\ To(m, "gone")
    /\ UNCHANGED <<route, due, active, deliveries, answered, request, sale>>

\* A throw is marked failed; a refusal for good ends there, anything else is
\* retried until the dead-letter consumer reports it.  (Shopify's consumer reports
\* some failures sooner.)
RetryOrGiveUp(m) ==
    /\ message[m].state \in {"thrown", "refused"}
    /\ Marked("failed")
    /\ LET tries == message[m].attempts + 1 IN
       IF message[m].state = "refused" THEN To(m, "gone")
       ELSE IF tries >= MaxTries THEN To(m, "dlq")
       ELSE message' = [message EXCEPT ![m] = [state |-> "queued", attempts |-> tries]]
    /\ UNCHANGED <<route, due, active, deliveries, answered, request, sale>>

\* The consumer dies: the queue delivers the message again.
ConsumerDies(m) ==
    /\ message[m].state \in {"returned", "thrown", "refused", "blocked"}
    /\ Fails /\ To(m, "queued")
    /\ UNCHANGED <<route, due, active, deliveries, answered, request, info, sale>>

Handles(h)  == Deliver(h) \/ Check(h) \/ MarkProcessing(h) \/ SendToQueue(h)
               \/ RunDirectly(h) \/ CloseDirectly(h) \/ RequestDies(h)
Consumes(m) == Consume(m) \/ Block(m) \/ Explain(m) \/ Acknowledge(m) \/ RetryOrGiveUp(m) \/ ConsumerDies(m)

IntakeNext == TurnStale \/ Disconnect \/ (\E h \in Handlers : Handles(h)) \/ (\E m \in Messages : Consumes(m))

IntakeSpec == IntakeInit /\ [][IntakeNext]_intakeVars

-----------------------------------------------------------------------------
(* Properties.                                                             *)

\* Every variable keeps to its type.
IntakeTypeOK ==
    /\ route \in Routes
    /\ deliveries \in 0..MaxDeliveries
    /\ due \in BOOLEAN /\ active \in BOOLEAN /\ answered \in BOOLEAN
    /\ request \in [Handlers -> {"idle", "check", "mark", "send", "run", "close", "fail"}]
    /\ info \in {"none", "processing", "stale", "success", "failed"}
    /\ message \in [Messages -> [state : MessageStates, attempts : 0..MaxTries]]
    /\ invoiced \in BOOLEAN /\ reported \in BOOLEAN
    /\ aside \in {"no", "paused", "unsaid"}
    /\ failures \in 0..MaxFailures

\* Nothing is left to do for the event: it asks for no document or has one, an incident
\* tells of it, or would, had the merchant not paused or the database not refused it.
Resolved == ~due \/ invoiced \/ reported \/ aside # "no"
Carried  == \E m \in Messages : message[m].state \in {"queued", "thrown", "blocked", "dlq"}

\* While its connection is active, an event its source was told 200 for is resolved
\* or has a queue message that still carries it: on Stripe's
\* route whatever fails or dies, on the others as long as nothing does (a request
\* may then still be at work on it).
AnsweredIsCarried ==
    answered /\ active => \/ Resolved \/ Carried
                \/ /\ route # "stripe"
                   /\ failures > 0 \/ \E h \in Handlers : request[h] \in {"mark", "send", "run", "fail"}

\* A success is no loss: while its connection is active, a row says it only of an
\* event whose sale has its document or an incident, needs neither (not due, or paused
\* by the merchant), or whose message is still being worked on; an incident the
\* database refused is excused.
SuccessIsResolved == info = "success" /\ active => Resolved \/ Carried
=============================================================================
