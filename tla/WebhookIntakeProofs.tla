-------------------------- MODULE WebhookIntakeProofs --------------------------
(***************************************************************************)
(* The types of WebhookIntake, AnsweredIsCarried and SuccessIsResolved for *)
(* any number of requests, deliveries, retries and failures.               *)
(*                                                                         *)
(* Both rest on what the row says about the event (Seen): a row that makes *)
(* a route answer 200 without doing anything has the event safe behind it, *)
(* which on Stripe's route follows from sending before marking.            *)
(***************************************************************************)
EXTENDS WebhookIntake, TLAPS

Safe   == Resolved \/ Carried \/ ~active
AtWork == \E h \in Handlers : request[h] \in {"mark", "send", "run", "fail"}
Seen   == answered \/ info \in {"success", "processing"}
SaleOK == invoiced \in BOOLEAN /\ reported \in BOOLEAN /\ aside \in {"no", "paused", "unsaid"}

\* What has been done, by a request or with a message, resolved the event.
Done ==
    /\ \A h \in Handlers : /\ request[h] = "close" => Resolved
                           /\ request[h] = "fail" => failures > 0
    /\ \A m \in Messages : message[m].state \in {"returned", "refused"} => Resolved

OnStripe ==
    route = "stripe" =>
        /\ Seen => Safe
        /\ \A h \in Handlers : /\ request[h] = "mark" => Safe
                               /\ request[h] \notin {"run", "close", "fail"}

Elsewhere == route # "stripe" => failures > 0 \/ (Seen => Safe \/ AtWork)

IntakeInv == IntakeTypeOK /\ Done /\ SuccessIsResolved /\ OnStripe /\ Elsewhere

LEMMA IntakeInvInit == IntakeInit => IntakeInv
<1> SUFFICES ASSUME IntakeInit PROVE IntakeInv
    OBVIOUS
<1>1. IntakeTypeOK
  <2>1. 0 \in 0..MaxTries /\ 0 \in 0..MaxDeliveries /\ 0 \in 0..MaxFailures
        BY IntakeConstants
  <2>2. message \in [Messages -> [state : MessageStates, attempts : 0..MaxTries]]
        BY <2>1 DEF IntakeInit, NoMessage, MessageStates
  <2>3. QED
        BY <2>1, <2>2 DEF IntakeInit, IntakeTypeOK
<1>2. ~Seen /\ Done /\ SuccessIsResolved
      BY DEF IntakeInit, Seen, Done, SuccessIsResolved, Messages, NoMessage
<1>3. OnStripe /\ Elsewhere
      BY <1>2 DEF IntakeInit, OnStripe, Elsewhere
<1>4. QED
      BY <1>1, <1>2, <1>3 DEF IntakeInv

\* An action that has its effect without fault, or counts a failure.
LEMMA Counts ==
    ASSUME IntakeTypeOK, Fails \/ Works
    PROVE  failures' \in 0..MaxFailures /\ failures' >= failures /\ (failures' = failures \/ failures' > 0)
BY IntakeConstants DEF Fails, Works, IntakeTypeOK

\* The steps that leave the messages and the sale as they are.
LEMMA RequestsKeep ==
    ASSUME IntakeTypeOK, UNCHANGED <<due, active, message, sale>>
    PROVE  (Safe' <=> Safe) /\ (Resolved' <=> Resolved)
BY DEF Safe, Resolved, Carried, sale, Messages

LEMMA SourceStep == ASSUME IntakeInv, TurnStale \/ Disconnect PROVE IntakeInv'
<1> USE DEF IntakeInv
<1>1. CASE TurnStale
      BY <1>1 DEF TurnStale, sale, IntakeTypeOK, Done, SuccessIsResolved, OnStripe, Elsewhere, Seen, Safe,
                  Resolved, Carried, AtWork, Messages
<1>2. CASE Disconnect
      BY <1>2 DEF Disconnect, sale, IntakeTypeOK, Done, SuccessIsResolved, OnStripe, Elsewhere, Seen, Safe,
                  Resolved, Carried, AtWork, Messages
<1>3. QED
      BY <1>1, <1>2

\* A request moves on, without its messages or the sale.
LEMMA RequestMoves ==
    ASSUME IntakeInv, NEW h \in Handlers, UNCHANGED <<due, active, message, sale, route>>,
           NEW next \in {"idle", "check", "mark", "send", "run"}, At(h, next),
           answered' \in BOOLEAN, deliveries' \in 0..MaxDeliveries, Fails \/ Works,
           info' \in {"none", "processing", "stale", "success", "failed"},
           info' = "success" => info = "success" \/ request[h] = "close",
           \* Whoever learns of the event, it is safe, or somebody is still at it.
           Seen' => Seen \/ (IF route = "stripe" THEN request[h] \in {"mark", "close"} ELSE next \in {"send", "run"} \/ Safe),
           route = "stripe" => next # "run" /\ (next = "mark" => Safe),
           route # "stripe" => failures' > 0 \/ request[h] \notin {"mark", "send", "run", "fail"}
                               \/ next \in {"mark", "send", "run"} \/ Safe
    PROVE  IntakeInv'
<1> USE DEF IntakeInv
<1>1. /\ request' = [request EXCEPT ![h] = next] /\ route' = route /\ message' = message
      /\ (Safe' <=> Safe) /\ (Resolved' <=> Resolved)
      BY RequestsKeep DEF At
<1>2. IntakeTypeOK'
      BY <1>1, Counts DEF IntakeTypeOK, sale, Messages
<1>3. Done'
  <2>1. failures > 0 => failures' > 0
        BY Counts DEF IntakeTypeOK
  <2>2. QED
        BY <1>1, <2>1 DEF Done, IntakeTypeOK, Messages
<1>4. SuccessIsResolved'
      BY <1>1 DEF SuccessIsResolved, Done, Safe
<1>5. OnStripe'
  <2>1. SUFFICES ASSUME route = "stripe" PROVE OnStripe'
        BY <1>1 DEF OnStripe
  <2>2. Seen' => Safe'
        BY <1>1, <2>1 DEF OnStripe
  <2>3. ASSUME NEW g \in Handlers PROVE (request'[g] = "mark" => Safe') /\ request'[g] \notin {"run", "close", "fail"}
    <3>1. CASE g = h
          BY <1>1, <2>1, <3>1 DEF IntakeTypeOK
    <3>2. CASE g # h
          BY <1>1, <2>1, <3>2 DEF OnStripe, IntakeTypeOK
    <3>3. QED
          BY <3>1, <3>2
  <2>4. QED
        BY <2>2, <2>3 DEF OnStripe
<1>6. Elsewhere'
  <2>1. SUFFICES ASSUME route # "stripe", ~(failures' > 0), Seen' PROVE Safe' \/ AtWork'
        BY <1>1 DEF Elsewhere
  <2>2. ~(failures > 0)
        BY <2>1, Counts DEF IntakeTypeOK
  <2>3. request'[h] = next
        BY <1>1 DEF IntakeTypeOK
  <2>4. CASE next \in {"mark", "send", "run"}
        BY <2>3, <2>4 DEF AtWork
  <2>5. CASE next \notin {"mark", "send", "run"} /\ Safe
        BY <1>1, <2>5
  <2>6. CASE next \notin {"mark", "send", "run"} /\ ~Safe
    <3>1. Seen /\ AtWork /\ request[h] \notin {"mark", "send", "run", "fail"}
          BY <2>1, <2>2, <2>6 DEF Elsewhere
    <3>2. PICK g \in Handlers : request[g] \in {"mark", "send", "run", "fail"}
          BY <3>1 DEF AtWork
    <3>3. g # h /\ request'[g] = request[g]
          BY <1>1, <3>1, <3>2 DEF IntakeTypeOK
    <3>4. QED
          BY <3>2, <3>3 DEF AtWork
  <2>7. QED
        BY <2>4, <2>5, <2>6
<1>7. QED
      BY <1>2, <1>3, <1>4, <1>5, <1>6

\* What a mark leaves in the row.
LEMMA MarkWrites ==
    ASSUME IntakeTypeOK, NEW state \in {"processing", "success", "failed"}, Marked(state)
    PROVE  /\ info' \in {"none", "processing", "stale", "success", "failed"}
           /\ info' = info \/ info' = state
           /\ Fails \/ Works
BY DEF Marked, IntakeTypeOK

LEMMA DeliverStep == ASSUME IntakeInv, NEW h \in Handlers, Deliver(h) PROVE IntakeInv'
<1>1. /\ At(h, "check") /\ UNCHANGED <<due, active, message, sale, route, answered, info>>
      /\ request[h] = "idle" /\ deliveries' \in 0..MaxDeliveries /\ Works
      BY IntakeConstants DEF Deliver, IntakeInv, IntakeTypeOK, Works
<1>2. Seen' <=> Seen
      BY <1>1 DEF Seen
<1>3. QED
      BY <1>1, <1>2, RequestMoves DEF IntakeInv, IntakeTypeOK

LEMMA CheckStep == ASSUME IntakeInv, NEW h \in Handlers, Check(h) PROVE IntakeInv'
<1>1. /\ UNCHANGED <<due, active, message, sale, route, info>> /\ request[h] = "check" /\ deliveries' = deliveries
      /\ (Fails \/ Works) /\ answered' \in BOOLEAN
      BY DEF Check, Ok, IntakeInv, IntakeTypeOK
<1>2. CASE Ok(h)
      BY <1>1, <1>2, RequestMoves DEF Ok, Check, Seen, IntakeInv, IntakeTypeOK
<1>3. CASE At(h, FirstStep(route)) /\ UNCHANGED answered
  <2>1. FirstStep(route) = IF route = "stripe" THEN "send" ELSE "mark"
        BY DEF FirstStep
  <2>2. Seen' <=> Seen
        BY <1>1, <1>3 DEF Seen
  <2>3. QED
        BY <1>1, <1>3, <2>1, <2>2, RequestMoves DEF IntakeInv, IntakeTypeOK
<1>4. QED
      BY <1>2, <1>3 DEF Check

LEMMA MarkStep == ASSUME IntakeInv, NEW h \in Handlers, MarkProcessing(h) PROVE IntakeInv'
<1>1. /\ UNCHANGED <<due, active, message, sale, route>> /\ request[h] = "mark" /\ deliveries' = deliveries
      /\ Marked("processing")
      BY DEF MarkProcessing
<1>2. /\ (Fails \/ Works) /\ info' \in {"none", "processing", "stale", "success", "failed"}
      /\ info' = "success" => info = "success"
      BY <1>1, MarkWrites DEF IntakeInv
<1>3. CASE route = "stripe"
      BY <1>1, <1>2, <1>3, RequestMoves DEF MarkProcessing, Ok, IntakeInv, IntakeTypeOK
<1>4. CASE route = "shopify"
      BY <1>1, <1>2, <1>4, RequestMoves DEF MarkProcessing, IntakeInv, IntakeTypeOK
<1>5. CASE route = "eupago"
      BY <1>1, <1>2, <1>5, RequestMoves DEF MarkProcessing, IntakeInv, IntakeTypeOK
<1>6. QED
      BY <1>3, <1>4, <1>5, IntakeConstants DEF IntakeInv, IntakeTypeOK

LEMMA CloseStep == ASSUME IntakeInv, NEW h \in Handlers, CloseDirectly(h) PROVE IntakeInv'
<1>1. UNCHANGED <<due, active, message, sale, route>> /\ deliveries' = deliveries /\ At(h, "idle")
      BY DEF CloseDirectly, Ok, Refuse
<1>2. CASE request[h] = "close" /\ Marked("success") /\ Ok(h)
  <2>1. (Fails \/ Works) /\ info' \in {"none", "processing", "stale", "success", "failed"}
        BY <1>2, MarkWrites DEF IntakeInv
  <2>2. Safe /\ route # "stripe"
        BY <1>2 DEF IntakeInv, Done, OnStripe, Safe
  <2>3. QED
        BY <1>1, <1>2, <2>1, <2>2, RequestMoves, MarkWrites DEF Ok, IntakeInv, IntakeTypeOK
<1>3. CASE request[h] = "fail" /\ Marked("failed") /\ Refuse(h)
  <2>1. /\ (Fails \/ Works) /\ info' \in {"none", "processing", "stale", "success", "failed"}
        /\ info' = info \/ info' = "failed"
        BY <1>3, MarkWrites DEF IntakeInv
  <2>2. Seen' => Seen
        BY <1>3, <2>1 DEF Seen, Refuse
  <2>3. failures' > 0 /\ route # "stripe"
        BY <1>3, <2>1, Counts DEF IntakeInv, Done, OnStripe, IntakeTypeOK
  <2>4. QED
        BY <1>1, <1>3, <2>1, <2>2, <2>3, RequestMoves DEF Refuse, IntakeInv, IntakeTypeOK
<1>4. QED
      BY <1>2, <1>3 DEF CloseDirectly

LEMMA DiesStep == ASSUME IntakeInv, NEW h \in Handlers, RequestDies(h) PROVE IntakeInv'
<1>1. /\ UNCHANGED <<due, active, message, sale, route, info, deliveries, answered>> /\ At(h, "idle") /\ Fails
      BY DEF RequestDies, Refuse
<1>2. failures' > 0
      BY <1>1 DEF Fails, IntakeInv, IntakeTypeOK
<1>3. Seen' <=> Seen
      BY <1>1 DEF Seen
<1>4. QED
      BY <1>1, <1>2, <1>3, RequestMoves DEF IntakeInv, IntakeTypeOK

\* A step that makes the event safe.
LEMMA BecomesSafe ==
    ASSUME IntakeInv, IntakeTypeOK', Safe', Resolved => Resolved', route' = route, Fails \/ Works,
           \A h \in Handlers :
               /\ request'[h] = "close" => Resolved' \/ request[h] = "close"
               /\ request'[h] = "fail" => failures' > 0 \/ request[h] = "fail"
               /\ route = "stripe" => request'[h] \notin {"run", "close", "fail"},
           \A m \in Messages : message'[m].state \in {"returned", "refused"}
                                => Resolved' \/ message[m].state \in {"returned", "refused"}
    PROVE  IntakeInv'
<1> USE DEF IntakeInv
<1>1. Done'
  <2>1. failures > 0 => failures' > 0
        BY Counts DEF IntakeTypeOK
  <2>2. QED
        BY <2>1 DEF Done, Messages
<1>2. SuccessIsResolved' /\ OnStripe' /\ Elsewhere'
      BY DEF SuccessIsResolved, OnStripe, Elsewhere, Safe
<1>3. QED
      BY <1>1, <1>2

LEMMA SendStep == ASSUME IntakeInv, NEW h \in Handlers, SendToQueue(h) PROVE IntakeInv'
<1> USE DEF IntakeInv
<1>1. /\ UNCHANGED <<route, due, active, deliveries, info, sale>> /\ request[h] = "send"
      /\ Resolved' <=> Resolved
      BY DEF SendToQueue, Resolved, sale
<1>2. CASE /\ \E m \in Messages : message[m] = NoMessage
           /\ message' = [message EXCEPT ![NextMessage].state = "queued"]
           /\ IF route = "stripe" THEN At(h, "mark") /\ UNCHANGED answered ELSE Ok(h)
           /\ Works
  <2> DEFINE n == NextMessage
  <2>1. n \in Messages
        BY <1>2 DEF NextMessage
  <2> HIDE DEF n
  <2>2. /\ message' = [message EXCEPT ![n] = [message[n] EXCEPT !.state = "queued"]]
        BY <1>2, <2>1 DEF n, IntakeTypeOK
  <2>3. /\ message'[n] = [state |-> "queued", attempts |-> message[n].attempts]
        /\ message[n].attempts \in 0..MaxTries
        BY <2>1, <2>2 DEF IntakeTypeOK
  <2>4. /\ message' \in [Messages -> [state : MessageStates, attempts : 0..MaxTries]]
        /\ \A m \in Messages : m # n => message'[m] = message[m]
        BY <2>1, <2>2, <2>3 DEF IntakeTypeOK, MessageStates
  <2>5. Safe'
        BY <2>1, <2>3 DEF Safe, Carried, Messages
  <2>6. /\ request' \in [Handlers -> {"idle", "check", "mark", "send", "run", "close", "fail"}]
        /\ \A g \in Handlers : request'[g] = request[g] \/ request'[g] \in {"mark", "idle"}
        /\ answered' \in BOOLEAN /\ failures' = failures
        BY <1>2 DEF At, Ok, Works, IntakeTypeOK
  <2>7. IntakeTypeOK'
        BY <1>1, <2>4, <2>6 DEF IntakeTypeOK, sale, Messages
  <2>8. \A m \in Messages : message'[m].state \in {"returned", "refused"} => message[m].state \in {"returned", "refused"}
        BY <2>3, <2>4
  <2>9. QED
        BY <1>1, <1>2, <2>5, <2>6, <2>7, <2>8, BecomesSafe DEF OnStripe
<1>3. CASE Fails /\ Refuse(h) /\ UNCHANGED message
  <2>1. At(h, "idle") /\ UNCHANGED answered /\ failures' > 0 /\ (Seen' <=> Seen)
        BY <1>1, <1>3 DEF Refuse, Fails, IntakeTypeOK, Seen
  <2>2. QED
        BY <1>1, <1>3, <2>1, RequestMoves DEF IntakeTypeOK
<1>4. QED
      BY <1>2, <1>3 DEF SendToQueue

\* Whatever the pipeline does with the sale without a throw, it leaves it resolved.
LEMMA Leaves ==
    ASSUME IntakeTypeOK, due' = due, Issues \/ Refuses \/ Pauses \/ NotDue
    PROVE  Resolved' /\ SaleOK' /\ (Fails \/ Works)
<1>1. CASE Issues
      BY <1>1 DEF Issues, Resolved, SaleOK, IntakeTypeOK
<1>2. CASE Refuses
      BY <1>2 DEF Refuses, Report, Resolved, SaleOK, IntakeTypeOK
<1>3. CASE Pauses
      BY <1>3 DEF Pauses, Resolved, SaleOK, IntakeTypeOK
<1>4. CASE NotDue
      BY <1>4 DEF NotDue, sale, Resolved, SaleOK, IntakeTypeOK
<1>5. QED
      BY <1>1, <1>2, <1>3, <1>4

LEMMA RunStep == ASSUME IntakeInv, NEW h \in Handlers, RunDirectly(h) PROVE IntakeInv'
<1> USE DEF IntakeInv
<1>1. UNCHANGED <<route, due, active, deliveries, answered, info, message>> /\ request[h] = "run" /\ route # "stripe"
      BY DEF RunDirectly, OnStripe
<1>2. CASE (Issues \/ Refuses \/ Pauses \/ NotDue) /\ At(h, "close")
  <2>1. Resolved' /\ SaleOK' /\ (Fails \/ Works)
        BY <1>1, <1>2, Leaves
  <2>2. /\ request' \in [Handlers -> {"idle", "check", "mark", "send", "run", "close", "fail"}]
        /\ \A g \in Handlers : request'[g] = request[g] \/ request'[g] = "close"
        BY <1>2 DEF At, IntakeTypeOK
  <2>3. IntakeTypeOK'
        BY <1>1, <2>1, <2>2, Counts DEF IntakeTypeOK, SaleOK, Messages
  <2>4. QED
        BY <1>1, <2>1, <2>2, <2>3, BecomesSafe DEF Safe
<1>3. CASE Throws /\ (At(h, "fail") \/ At(h, "idle"))
  <2>1. /\ failures' > 0 /\ failures' \in 0..MaxFailures /\ UNCHANGED sale
        /\ (Safe' <=> Safe) /\ (Resolved' <=> Resolved)
        BY <1>1, <1>3, IntakeConstants, RequestsKeep DEF Throws, Fails, IntakeTypeOK
  <2>2. /\ request' \in [Handlers -> {"idle", "check", "mark", "send", "run", "close", "fail"}]
        /\ \A g \in Handlers : request'[g] = request[g] \/ request'[g] \in {"fail", "idle"}
        BY <1>3 DEF At, IntakeTypeOK
  <2>3. IntakeTypeOK'
        BY <1>1, <2>1, <2>2 DEF IntakeTypeOK, sale, Messages
  <2>4. Done' /\ SuccessIsResolved' /\ OnStripe' /\ Elsewhere'
        BY <1>1, <2>1, <2>2 DEF Done, SuccessIsResolved, OnStripe, Elsewhere, Messages, Safe
  <2>5. QED
        BY <2>3, <2>4
<1>4. QED
      BY <1>2, <1>3 DEF RunDirectly

\* A message moves on.
LEMMA Moves ==
    ASSUME IntakeTypeOK, NEW m \in Messages,
           NEW next \in MessageStates, To(m, next)
    PROVE  /\ message'[m].state = next
           /\ \A n \in Messages : n # m => message'[n] = message[n]
           /\ message' \in [Messages -> [state : MessageStates, attempts : 0..MaxTries]]
<1>1. message' = [message EXCEPT ![m] = [message[m] EXCEPT !.state = next]]
      BY DEF To, IntakeTypeOK
<1>2. /\ message'[m] = [state |-> next, attempts |-> message[m].attempts]
      /\ message[m].attempts \in 0..MaxTries
      BY <1>1 DEF IntakeTypeOK
<1>3. QED
      BY <1>1, <1>2 DEF IntakeTypeOK

\* Whatever the consumer does with a message leaves the event safe.
LEMMA ConsumerStep ==
    ASSUME IntakeInv, NEW m \in Messages, UNCHANGED <<route, due, active, deliveries, answered, request>>,
           Fails \/ Works, SaleOK', Resolved => Resolved',
           info' \in {"none", "processing", "stale", "success", "failed"},
           message' \in [Messages -> [state : MessageStates, attempts : 0..MaxTries]],
           \A n \in Messages : n # m => message'[n] = message[n],
           message'[m].state \in {"returned", "refused"} => Resolved',
           Resolved' \/ ~active \/ message'[m].state \in {"queued", "thrown", "blocked", "dlq"}
    PROVE  IntakeInv'
<1>1. IntakeTypeOK'
      BY Counts DEF IntakeInv, IntakeTypeOK, SaleOK, Messages
<1>2. Safe'
      BY DEF Safe, Carried, Messages
<1>3. \A h \in Handlers : request'[h] = request[h]
      OBVIOUS
<1>4. QED
      BY <1>1, <1>2, <1>3, BecomesSafe DEF IntakeInv, OnStripe

LEMMA ConsumeStep == ASSUME IntakeInv, NEW m \in Messages, Consume(m) PROVE IntakeInv'
<1>1. UNCHANGED <<route, due, active, deliveries, answered, request, info>> /\ IntakeTypeOK
      BY DEF Consume, IntakeInv
<1>2. PICK next \in MessageStates :
        /\ To(m, next)
        /\ \/ ~active /\ next = "gone" /\ UNCHANGED sale /\ Works
           \/ Issues \/ NotDue \/ Pauses \/ Refuses
           \/ Throws /\ next = "thrown"
  <2>1. {"gone", "returned", "refused", "thrown"} \subseteq MessageStates
        BY DEF MessageStates
  <2>2. CASE ~active /\ To(m, "gone") /\ UNCHANGED sale /\ Works
        BY <2>1, <2>2
  <2>3. CASE (Issues \/ NotDue) /\ To(m, "returned")
        BY <2>1, <2>3
  <2>4. CASE Pauses /\ To(m, IF route = "stripe" THEN "returned" ELSE "gone")
        BY <2>1, <2>4
  <2>5. CASE Refuses /\ To(m, IF route = "stripe" THEN "returned" ELSE "refused")
        BY <2>1, <2>5
  <2>6. CASE Throws /\ To(m, "thrown")
        BY <2>1, <2>6
  <2>7. QED
        BY <2>2, <2>3, <2>4, <2>5, <2>6 DEF Consume
<1>3. /\ message'[m].state = next
      /\ \A n \in Messages : n # m => message'[n] = message[n]
      /\ message' \in [Messages -> [state : MessageStates, attempts : 0..MaxTries]]
      BY <1>1, <1>2, Moves
<1>4. /\ (Fails \/ Works) /\ SaleOK' /\ (Resolved => Resolved')
      /\ Resolved' \/ (~active /\ next = "gone") \/ next = "thrown"
  <2>1. CASE ~active /\ next = "gone" /\ UNCHANGED sale /\ Works
        BY <1>1, <2>1 DEF sale, SaleOK, Resolved, IntakeTypeOK
  <2>2. CASE Issues \/ NotDue \/ Pauses \/ Refuses
        BY <1>1, <2>2, Leaves
  <2>3. CASE Throws /\ next = "thrown"
        BY <1>1, <2>3 DEF Throws, sale, SaleOK, Resolved, IntakeTypeOK
  <2>4. QED
        BY <1>2, <2>1, <2>2, <2>3
<1>5. info' \in {"none", "processing", "stale", "success", "failed"}
      BY <1>1 DEF IntakeTypeOK
<1>6. QED
      BY <1>1, <1>3, <1>4, <1>5, ConsumerStep

LEMMA BlockStep == ASSUME IntakeInv, NEW m \in Messages, Block(m) PROVE IntakeInv'
<1>1. /\ UNCHANGED <<route, due, active, deliveries, answered, request, sale>> /\ IntakeTypeOK
      /\ Marked("success") /\ To(m, "blocked")
      BY DEF Block, IntakeInv
<1>2. /\ message'[m].state = "blocked"
      /\ \A n \in Messages : n # m => message'[n] = message[n]
      /\ message' \in [Messages -> [state : MessageStates, attempts : 0..MaxTries]]
      BY <1>1, Moves DEF MessageStates
<1>3. info' \in {"none", "processing", "stale", "success", "failed"} /\ (Fails \/ Works)
      BY <1>1, MarkWrites
<1>4. SaleOK' /\ (Resolved => Resolved')
      BY <1>1 DEF SaleOK, Resolved, sale, IntakeTypeOK
<1>5. QED
      BY <1>1, <1>2, <1>3, <1>4, ConsumerStep

LEMMA ExplainStep == ASSUME IntakeInv, NEW m \in Messages, Explain(m) PROVE IntakeInv'
<1>1. /\ UNCHANGED <<route, due, active, deliveries, answered, request, info>> /\ IntakeTypeOK
      /\ Report /\ To(m, "gone")
      BY DEF Explain, IntakeInv
<1>2. /\ message'[m].state = "gone"
      /\ \A n \in Messages : n # m => message'[n] = message[n]
      /\ message' \in [Messages -> [state : MessageStates, attempts : 0..MaxTries]]
      BY <1>1, Moves DEF MessageStates
<1>3. Resolved' /\ SaleOK' /\ (Fails \/ Works)
      BY <1>1 DEF Report, SaleOK, Resolved, IntakeTypeOK
<1>4. info' \in {"none", "processing", "stale", "success", "failed"}
      BY <1>1 DEF IntakeTypeOK
<1>5. QED
      BY <1>1, <1>2, <1>3, <1>4, ConsumerStep

LEMMA AcknowledgeStep == ASSUME IntakeInv, NEW m \in Messages, Acknowledge(m) PROVE IntakeInv'
<1>1. /\ UNCHANGED <<route, due, active, deliveries, answered, request, sale>> /\ IntakeTypeOK
      /\ message[m].state = "returned" /\ Marked("success") /\ To(m, "gone")
      BY DEF Acknowledge, IntakeInv
<1>2. /\ message'[m].state = "gone"
      /\ \A n \in Messages : n # m => message'[n] = message[n]
      /\ message' \in [Messages -> [state : MessageStates, attempts : 0..MaxTries]]
      BY <1>1, Moves DEF MessageStates
<1>3. /\ info' \in {"none", "processing", "stale", "success", "failed"} /\ (Fails \/ Works)
      BY <1>1, MarkWrites
<1>4. Resolved' /\ SaleOK'
      BY <1>1 DEF IntakeInv, Done, Resolved, sale, SaleOK, IntakeTypeOK
<1>5. QED
      BY <1>1, <1>2, <1>3, <1>4, ConsumerStep

LEMMA RetryStep == ASSUME IntakeInv, NEW m \in Messages, RetryOrGiveUp(m) PROVE IntakeInv'
<1> DEFINE tries == message[m].attempts + 1
<1>1. /\ UNCHANGED <<route, due, active, deliveries, answered, request, sale>> /\ IntakeTypeOK
      /\ message[m].state \in {"thrown", "refused"} /\ Marked("failed")
      BY DEF RetryOrGiveUp, IntakeInv
<1>2. /\ info' \in {"none", "processing", "stale", "success", "failed"} /\ (Fails \/ Works)
      /\ info' = info \/ info' = "failed"
      BY <1>1, MarkWrites
<1>3. CASE message[m].state = "refused"
  <2>1. To(m, "gone")
        BY <1>3 DEF RetryOrGiveUp
  <2>2. /\ message'[m].state = "gone"
        /\ \A n \in Messages : n # m => message'[n] = message[n]
        /\ message' \in [Messages -> [state : MessageStates, attempts : 0..MaxTries]]
        BY <1>1, <2>1, Moves DEF MessageStates
  <2>3. Resolved' /\ SaleOK'
        BY <1>1, <1>3, <2>1 DEF IntakeInv, Done, Resolved, sale, SaleOK, IntakeTypeOK
  <2>4. QED
        BY <1>1, <1>2, <2>2, <2>3, ConsumerStep
<1>4. (tries >= MaxTries) <=> ~(tries < MaxTries)
      BY <1>1, IntakeConstants DEF IntakeTypeOK
<1>5. CASE message[m].state = "thrown" /\ tries < MaxTries
  <2>1. message' = [message EXCEPT ![m] = [state |-> "queued", attempts |-> tries]]
        BY <1>5, <1>4 DEF RetryOrGiveUp
  <2>2. tries \in 0..MaxTries
        BY <1>1, <1>5, IntakeConstants DEF IntakeTypeOK
  <2> HIDE DEF tries
  <2>3. /\ message'[m].state = "queued"
        /\ \A n \in Messages : n # m => message'[n] = message[n]
        /\ message' \in [Messages -> [state : MessageStates, attempts : 0..MaxTries]]
        BY <1>1, <2>1, <2>2 DEF IntakeTypeOK, MessageStates
  <2>4. (Resolved' <=> Resolved) /\ SaleOK'
        BY <1>1, <2>1 DEF Resolved, sale, SaleOK, IntakeTypeOK
  <2>5. QED
        BY <1>1, <1>2, <2>3, <2>4, ConsumerStep
<1>6. CASE message[m].state = "thrown" /\ ~(tries < MaxTries)
  <2>1. To(m, "dlq")
        BY <1>1, <1>6, <1>4 DEF RetryOrGiveUp
  <2>2. /\ message'[m].state = "dlq"
        /\ \A n \in Messages : n # m => message'[n] = message[n]
        /\ message' \in [Messages -> [state : MessageStates, attempts : 0..MaxTries]]
        BY <1>1, <2>1, Moves DEF MessageStates
  <2>3. (Resolved <=> Resolved') /\ SaleOK'
        BY <1>1, <2>1 DEF Resolved, sale, SaleOK, IntakeTypeOK
  <2>4. QED
        BY <1>1, <1>2, <2>2, <2>3, ConsumerStep
<1>7. QED
      BY <1>1, <1>3, <1>5, <1>6

LEMMA ConsumerDiesStep == ASSUME IntakeInv, NEW m \in Messages, ConsumerDies(m) PROVE IntakeInv'
<1>1. /\ UNCHANGED <<route, due, active, deliveries, answered, request, info, sale>> /\ IntakeTypeOK
      /\ Fails /\ To(m, "queued")
      BY DEF ConsumerDies, IntakeInv
<1>2. /\ message'[m].state = "queued"
      /\ \A n \in Messages : n # m => message'[n] = message[n]
      /\ message' \in [Messages -> [state : MessageStates, attempts : 0..MaxTries]]
      BY <1>1, Moves DEF MessageStates
<1>3. (Resolved' <=> Resolved) /\ SaleOK'
      BY <1>1 DEF Resolved, sale, SaleOK, IntakeTypeOK
<1>4. info' \in {"none", "processing", "stale", "success", "failed"} /\ (info' = "success" => info = "success")
      BY <1>1 DEF IntakeTypeOK
<1>5. QED
      BY <1>1, <1>2, <1>3, <1>4, ConsumerStep

LEMMA IntakeInvNext == IntakeInv /\ [IntakeNext]_intakeVars => IntakeInv'
<1> SUFFICES ASSUME IntakeInv, [IntakeNext]_intakeVars PROVE IntakeInv'
    OBVIOUS
<1>1. CASE UNCHANGED intakeVars
  <2> USE <1>1 DEF intakeVars, sale, IntakeInv
  <2>1. IntakeTypeOK' /\ Done'
        BY DEF IntakeTypeOK, Done, Resolved, Messages
  <2>2. SuccessIsResolved' /\ OnStripe' /\ Elsewhere'
        BY DEF SuccessIsResolved, OnStripe, Elsewhere, Seen, Safe, Resolved, Carried, AtWork, Messages
  <2>3. QED
        BY <2>1, <2>2
<1>2. CASE TurnStale \/ Disconnect
      BY <1>2, SourceStep
<1>3. CASE \E h \in Handlers : Handles(h)
      BY <1>3, DeliverStep, CheckStep, MarkStep, SendStep, RunStep, CloseStep, DiesStep DEF Handles
<1>4. CASE \E m \in Messages : Consumes(m)
      BY <1>4, ConsumeStep, BlockStep, ExplainStep, AcknowledgeStep, RetryStep, ConsumerDiesStep DEF Consumes
<1>5. QED
      BY <1>1, <1>2, <1>3, <1>4 DEF IntakeNext

\* The event, its row, its messages and its requests keep to their types.
THEOREM IntakeTypes == IntakeSpec => []IntakeTypeOK
<1>1. IntakeInv => IntakeTypeOK
      BY DEF IntakeInv
<1>2. QED
      BY IntakeInvInit, IntakeInvNext, <1>1, PTL DEF IntakeSpec

\* An event Stripe was told 200 for is never lost while its connection is active,
\* whatever call fails and whoever dies: the route of index.ts sends before it marks,
\* and its consumer ends a message only with a document, an incident (or one that the
\* database refused), or a reason to issue none.
THEOREM AnsweredAlwaysCarried == IntakeSpec => []AnsweredIsCarried
<1>1. IntakeInv => AnsweredIsCarried
  <2> SUFFICES ASSUME IntakeInv, answered, active, ~Resolved, ~Carried
               PROVE  route # "stripe" /\ (failures > 0 \/ AtWork)
      BY DEF AnsweredIsCarried, AtWork
  <2>1. Seen /\ ~Safe
        BY DEF Seen, Safe, IntakeInv, IntakeTypeOK
  <2>2. QED
        BY <2>1 DEF IntakeInv, OnStripe, Elsewhere
<1>2. QED
      BY IntakeInvInit, IntakeInvNext, <1>1, PTL DEF IntakeSpec

\* While the connection is active, a row of webhook_info says success only of an event
\* that has its document or an incident, or needs neither, or of one whose message
\* still carries it: a return is marked so whatever the pipeline did, and Shopify's
\* subscription gate marks before it reports.
THEOREM SuccessAlwaysResolved == IntakeSpec => []SuccessIsResolved
<1>1. IntakeInv => SuccessIsResolved
      BY DEF IntakeInv
<1>2. QED
      BY IntakeInvInit, IntakeInvNext, <1>1, PTL DEF IntakeSpec
=============================================================================
