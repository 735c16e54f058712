------------------------ MODULE ShopifyLegacyProofs ------------------------
(***************************************************************************)
(* ShopifyLegacy, for every set of orders and deliveries and every bound:  *)
(* where the claim table answers and the reference search misses nothing,  *)
(* the path implements the ledger; and where the D1 row is reliable no     *)
(* delivery ends without a row or a report, whatever else fails.           *)
(***************************************************************************)
EXTENDS ShopifyLegacy, SequenceTheorems, TLAPS

\* A message that may be handed over has an attempt left.
AttemptLeft == \A d \in Deliveries : pc[d] = "queued" => attempts[d] < MaxAttempts

\* Where the claim table answers, whoever works under an order's claim holds it, alone.
Claims ==
    \A d \in Deliveries : Inside(d) =>
        /\ order_claims[OrderOf[d]] = "fresh"
        /\ \A e \in Deliveries : Inside(e) /\ OrderOf[e] = OrderOf[d] => e = d

\* What a delivery holds in a local, and what a row names, is a document of its order.
Holding == {"link", "save", "saveKv", "certifyCredit", "certify"}
FoundOK == \A d \in Deliveries : pc[d] \in Holding => found[d] \in DocsOf(OrderOf[d])
RowOK == \A o \in Orders : processed_orders[o].invoice # 0 => processed_orders[o].invoice \in DocsOf(o)

\* A document is one a delivery created.
BornOf == \A i \in DOMAIN docs : \E d \in Deliveries : docs[i].order = OrderOf[d]

LegacyInv == TypeOK /\ AttemptLeft /\ FoundOK /\ RowOK /\ BornOf

\* Where the search misses nothing, whoever creates finds nothing.
Sole ==
    /\ OneDocument
    /\ \A d \in Deliveries : pc[d] = "create" => DocsOf(OrderOf[d]) = {}

\* A delivery that cannot end without having seen to its order.
Coming(d) ==
    \/ pc[d] \in {"queued", "dlq", "check", "claim", "lookup", "link", "create", "save"}
    \/ pc[d] = "release" /\ outcome[d] # "done"
    \/ pc[d] = "row" /\ ~healed[d]

HasRow(o) == processed_orders[o].invoice # 0

\* Past that, the order has its row or is reported.
Tracked == \A d \in Deliveries : Coming(d) \/ HasRow(OrderOf[d]) \/ noted[OrderOf[d]]

\* The two circumstances under which no order is forgotten: a save writes the D1 row, whatever
\* becomes of the KV copy, and a read sees it.
SavesD1 == "d1" \notin SaveFaults
ReadsD1 == \A R \in ReadFaults : "d1" \notin R

\* The D1 row is written whenever anything is, and before it.
Saved ==
    /\ \A o \in Orders : kv[o] => HasRow(o)
    /\ \A d \in Deliveries : pc[d] \in {"linkKv", "saveKv"} => HasRow(OrderOf[d])

\* The hold is announced, or about to be, or an invocation died.
Telling(o) == \E d \in Deliveries : OrderOf[d] = o /\ pc[d] \in {"saveKv", "tell"}
Announced(o) == noted[o] \/ (order_kind[o] = "hold" /\ (crashes > 0 \/ Telling(o)))

\* A row that keeps its draft says why.
RowReasons ==
    \A o \in Orders : HasRow(o) =>
        /\ processed_orders[o].hold => Announced(o)
        /\ ~processed_orders[o].finalize => order_kind[o] = "routedDraft"

\* A paid delivery that ended has certified the document, or there is a reason not to.
Accounted(o) ==
    \/ Certified(o) \/ noted[o]
    \/ DocsOf(o) # {} /\ (order_kind[o] = "routedDraft" \/ Announced(o))
PaidEnds == \A d \in Deliveries : pc[d] \in Ended /\ TopicOf[d] = "paid" => Accounted(OrderOf[d])

\* Nothing of a save is missed: the KV copy is there too, or about to be, or an invocation died.
Copying(o) == \E d \in Deliveries : OrderOf[d] = o /\ pc[d] \in {"linkKv", "saveKv"}
Copied == \A o \in Orders : HasRow(o) => kv[o] \/ crashes > 0 \/ Copying(o)

-----------------------------------------------------------------------------
(* What InvoiceXpress holds.                                               *)

DocStates == {"draft", "final"}
DocRec    == [order : Orders, state : DocStates]

\* The create adds one document and disturbs no other.
LEMMA DocAdded ==
    ASSUME docs \in Seq(DocRec), NEW o \in Orders,
           docs' = Append(docs, [order |-> o, state |-> "draft"])
    PROVE  /\ docs' \in Seq(DocRec) /\ Len(docs) \in Nat /\ Len(docs') = Len(docs) + 1
           /\ DOMAIN docs = 1..Len(docs) /\ DOMAIN docs' = 1..(Len(docs) + 1)
           /\ docs'[Len(docs) + 1] = [order |-> o, state |-> "draft"]
           /\ \A i \in DOMAIN docs : docs'[i] = docs[i]
BY DEF DocRec, DocStates

\* A certification is of that document alone.
LEMMA DocCertified ==
    ASSUME docs \in Seq(DocRec), NEW i \in DOMAIN docs, docs' = [docs EXCEPT ![i].state = "final"]
    PROVE  /\ docs' \in Seq(DocRec) /\ Len(docs') = Len(docs) /\ DOMAIN docs' = DOMAIN docs
           /\ docs'[i].order = docs[i].order /\ docs'[i].state = "final"
           /\ \A j \in DOMAIN docs : j # i => docs'[j] = docs[j]
<1>1. DOMAIN docs = 1..Len(docs) /\ docs[i] \in DocRec
  OBVIOUS
<1>2. [docs[i] EXCEPT !.state = "final"] \in DocRec
  BY <1>1 DEF DocRec, DocStates
<1> QED
  BY <1>1, <1>2, ExceptSeq DEF DocRec

\* Nothing is ever lost at InvoiceXpress.
DocsGrow ==
    /\ docs' \in Seq(DocRec) /\ Len(docs) \in Nat /\ Len(docs') \in Nat /\ Len(docs) <= Len(docs')
    /\ DOMAIN docs \subseteq DOMAIN docs'
    /\ \A i \in DOMAIN docs : /\ docs'[i].order = docs[i].order
                              /\ docs[i].state = "final" => docs'[i].state = "final"

LEMMA AddedGrow ==
    ASSUME TypeOK, NEW o \in Orders, docs' = Append(docs, [order |-> o, state |-> "draft"])
    PROVE  DocsGrow
<1>1. docs \in Seq(DocRec)
  BY DEF TypeOK, DocRec, DocStates
<1>2. /\ docs' \in Seq(DocRec) /\ Len(docs) \in Nat /\ Len(docs') = Len(docs) + 1
      /\ DOMAIN docs = 1..Len(docs) /\ DOMAIN docs' = 1..(Len(docs) + 1)
      /\ \A i \in DOMAIN docs : docs'[i] = docs[i]
  BY <1>1, DocAdded
<1> QED
  BY <1>2 DEF DocsGrow

LEMMA CertifiedGrow ==
    ASSUME TypeOK, NEW i \in DOMAIN docs, docs' = [docs EXCEPT ![i].state = "final"]
    PROVE  DocsGrow
<1>1. docs \in Seq(DocRec) /\ Len(docs) \in Nat
  BY DEF TypeOK, DocRec, DocStates
<1> QED
  <2>1. /\ docs' \in Seq(DocRec) /\ Len(docs') = Len(docs) /\ DOMAIN docs' = DOMAIN docs
        /\ docs'[i].order = docs[i].order /\ docs'[i].state = "final"
        /\ \A j \in DOMAIN docs : j # i => docs'[j] = docs[j]
    BY <1>1, DocCertified
  <2> QED
    BY <1>1, <2>1 DEF DocsGrow

LEMMA SameGrow == ASSUME TypeOK, UNCHANGED docs PROVE DocsGrow
BY DEF TypeOK, DocsGrow, DocRec, DocStates

LEMMA GrowOf ==
    ASSUME DocsGrow, NEW o \in Orders
    PROVE  DocsOf(o) \subseteq DocsOf(o)' /\ (Certified(o) => Certified(o)')
BY DEF DocsGrow, DocsOf, Certified

-----------------------------------------------------------------------------
(* What a step of one delivery leaves alone, and where it goes.            *)

Elsewhere(d) ==
    \A e \in Deliveries \ {d} :
        /\ pc'[e] = pc[e] /\ attempts'[e] = attempts[e] /\ found'[e] = found[e]
        /\ healed'[e] = healed[e] /\ outcome'[e] = outcome[e]

LEMMA GoneTo ==
    ASSUME TypeOK, NEW d \in Deliveries, NEW label, Goto(d, label)
    PROVE  pc'[d] = label /\ \A e \in Deliveries \ {d} : pc'[e] = pc[e]
BY DEF TypeOK, Goto

LEMMA Bounced ==
    ASSUME TypeOK, NEW d \in Deliveries
    PROVE  /\ Bounce(d) \in {"queued", "dlq"}
           /\ Bounce(d) = "queued" => attempts[d] < MaxAttempts
BY DEF Bounce

LEMMA Thrown ==
    ASSUME TypeOK, NEW d \in Deliveries, NEW kind, Throw(d, kind)
    PROVE  /\ pc'[d] \in {"acked", "queued", "dlq"}
           /\ pc'[d] = "queued" => attempts[d] < MaxAttempts
           /\ pc'[d] = "acked" => noted'[OrderOf[d]]
           /\ \A e \in Deliveries \ {d} : pc'[e] = pc[e]
           /\ noted' \in [Orders -> BOOLEAN] /\ \A o \in Orders : noted[o] => noted'[o]
<1>1. Goto(d, IF GivesUp(d, kind) THEN "acked" ELSE Bounce(d))
  BY DEF Throw
<1>2. /\ pc'[d] = (IF GivesUp(d, kind) THEN "acked" ELSE Bounce(d))
      /\ \A e \in Deliveries \ {d} : pc'[e] = pc[e]
  BY <1>1, GoneTo
<1>3. noted' = IF GivesUp(d, kind) THEN [noted EXCEPT ![OrderOf[d]] = TRUE] ELSE noted
  BY DEF Throw
<1>4. /\ noted' \in [Orders -> BOOLEAN] /\ \A o \in Orders : noted[o] => noted'[o]
      /\ GivesUp(d, kind) => noted'[OrderOf[d]]
  BY <1>3, ConstantsOK DEF TypeOK
<1> QED
  BY <1>2, <1>4, Bounced

LEMMA Noting ==
    ASSUME TypeOK, NEW d \in Deliveries, Note(d)
    PROVE  /\ noted' \in [Orders -> BOOLEAN] /\ noted'[OrderOf[d]]
           /\ \A o \in Orders : noted[o] => noted'[o]
BY ConstantsOK DEF TypeOK, Note

Acts(d) ==
    \/ Receive(d) \/ StopAtGate(d) \/ Step(d) \/ Fail(d) \/ Crash(d) \/ DeadLetter(d)

\* A delivery's step touches nobody else's locals and no other order.
LEMMA ActsElsewhere ==
    ASSUME TypeOK, NEW d \in Deliveries, Acts(d)
    PROVE  Elsewhere(d) /\ order_kind' = order_kind
<1> USE GoneTo, Thrown DEF Elsewhere, local, rows
<1>1. CASE Receive(d)
  BY <1>1 DEF Receive, TypeOK
<1>2. CASE StopAtGate(d) \/ DeadLetter(d) \/ Crash(d)
  BY <1>2 DEF StopAtGate, DeadLetter, Crash
<1>3. CASE Check(d) \/ Claim(d) \/ ClaimRefused(d)
  BY <1>3 DEF Check, Claim, ClaimRefused
<1>4. CASE Lookup(d)
  <2>1. UNCHANGED <<attempts, healed, outcome, order_kind>> /\ \E label : Goto(d, label)
    BY <1>4 DEF Lookup
  <2>2. UNCHANGED found \/ \E i : found' = [found EXCEPT ![d] = i]
    BY <1>4 DEF Lookup
  <2> QED
    BY <2>1, <2>2 DEF TypeOK
<1>5. CASE Link(d) \/ PutKv(d) \/ Tell(d) \/ Save(d) \/ CertifyCredit(d) \/ Release(d)
           \/ Certify(d)
  BY <1>5 DEF Link, PutKv, Tell, Save, CertifyCredit, Release, Certify
<1>6. CASE Create(d)
  BY <1>6 DEF Create, TypeOK
<1>7. CASE Row(d)
  <2>1. UNCHANGED <<attempts, outcome, order_kind>> /\ \E label : Goto(d, label)
    BY <1>7 DEF Row
  <2>2. UNCHANGED found \/ \E i : found' = [found EXCEPT ![d] = i]
    BY <1>7 DEF Row
  <2>3. UNCHANGED healed \/ healed' = [healed EXCEPT ![d] = TRUE]
    BY <1>7 DEF Row
  <2> QED
    BY <2>1, <2>2, <2>3 DEF TypeOK
<1>8. CASE Fail(d)
  BY <1>8 DEF Fail, TypeOK
<1> QED
  BY <1>1, <1>2, <1>3, <1>4, <1>5, <1>6, <1>7, <1>8 DEF Acts, Step

\* The document a delivery holds is one there is.
LEMMA HeldDoc ==
    ASSUME TypeOK, FoundOK, NEW d \in Deliveries, pc[d] \in Holding
    PROVE  /\ found[d] \in DOMAIN docs /\ found[d] \in 1..Len(docs)
           /\ found[d] \in DocsOf(OrderOf[d]) /\ docs[found[d]].order = OrderOf[d]
BY DEF TypeOK, FoundOK, DocsOf

\* What a delivery's step does to the documents.
LEMMA ActsDocs ==
    ASSUME TypeOK, FoundOK, NEW d \in Deliveries, Acts(d)
    PROVE  /\ DocsGrow
           /\ \/ UNCHANGED docs
              \/ Create(d) /\ docs' = Append(docs, [order |-> OrderOf[d], state |-> "draft"])
              \/ /\ CertifyCredit(d) \/ Certify(d)
                 /\ found[d] \in DOMAIN docs /\ docs' = [docs EXCEPT ![found[d]].state = "final"]
<1>1. CASE Create(d)
  <2>1. docs' = Append(docs, [order |-> OrderOf[d], state |-> "draft"])
    BY <1>1 DEF Create
  <2> QED
    BY <1>1, <2>1, AddedGrow, ConstantsOK
<1>2. CASE CertifyCredit(d) \/ Certify(d)
  <2>1. found[d] \in DOMAIN docs
    BY <1>2, HeldDoc DEF CertifyCredit, Certify, Holding
  <2>2. docs' = [docs EXCEPT ![found[d]].state = "final"] \/ UNCHANGED docs
    BY <1>2 DEF CertifyCredit, Certify
  <2> QED
    BY <1>2, <2>1, <2>2, CertifiedGrow, SameGrow
<1>3. CASE ~Create(d) /\ ~CertifyCredit(d) /\ ~Certify(d)
  <2>1. UNCHANGED docs
    BY <1>3 DEF Acts, Step, Receive, StopAtGate, Check, Claim, ClaimRefused, Lookup, Link, PutKv, Tell, Save,
          Release, Row, Fail, Crash, DeadLetter
  <2> QED
    BY <2>1, SameGrow
<1> QED
  BY <1>1, <1>2, <1>3

-----------------------------------------------------------------------------
(* Types.                                                                  *)

Labels == Working \cup Ended \cup {"queued", "dlq"}

\* Who is handed over has an attempt left, and nobody else counts one.
LEMMA ActsPc ==
    ASSUME TypeOK, AttemptLeft, NEW d \in Deliveries, Acts(d)
    PROVE  /\ pc' \in [Deliveries -> Labels] /\ attempts' \in [Deliveries -> 0..MaxAttempts]
           /\ AttemptLeft'
<1>1. pc'[d] \in Labels /\ (pc'[d] = "queued" => attempts[d] < MaxAttempts /\ UNCHANGED attempts)
  <2> USE GoneTo, Thrown, Bounced DEF Labels, Working, Claiming, Ended, local
  <2>1. CASE Receive(d)
    BY <2>1 DEF Receive
  <2>2. CASE StopAtGate(d)
    BY <2>2 DEF StopAtGate, Returned
  <2>3. CASE Check(d)
    BY <2>3 DEF Check, Returned
  <2>4. CASE Claim(d) \/ ClaimRefused(d) \/ Create(d) \/ Link(d) \/ PutKv(d) \/ Tell(d)
             \/ CertifyCredit(d) \/ Certify(d)
    BY <2>4 DEF AfterSave, Claim, ClaimRefused, Create, Link, PutKv, Tell, CertifyCredit, Certify
  <2>5. CASE Lookup(d)
    BY <2>5 DEF Lookup
  <2>6. CASE Save(d)
    BY <2>6 DEF Save
  <2>7. CASE Release(d)
    BY <2>7 DEF Release, Returned
  <2>8. CASE Row(d)
    <3>1. Goto(d, "check") \/ Goto(d, "acked") \/ Goto(d, "certify")
      BY <2>8 DEF Row
    <3> QED
      BY <3>1
  <2>9. CASE Fail(d)
    BY <2>9 DEF Fail
  <2>10. CASE Crash(d) \/ DeadLetter(d)
    BY <2>10 DEF Crash, DeadLetter
  <2> QED
    BY <2>1, <2>2, <2>3, <2>4, <2>5, <2>6, <2>7, <2>8, <2>9, <2>10 DEF Acts, Step
<1>2. Elsewhere(d)
  BY ActsElsewhere
<1>3. \/ UNCHANGED attempts
      \/ pc[d] = "queued" /\ attempts' = [attempts EXCEPT ![d] = @ + 1] /\ pc'[d] # "queued"
  BY GoneTo DEF Acts, Step, Receive, StopAtGate, Check, Claim, ClaimRefused, Lookup, Link, PutKv, Tell,
        Create, Save, CertifyCredit, Release, Row, Certify, Fail, Crash, DeadLetter, local
<1>4. pc' = [e \in Deliveries |-> pc'[e]]
  BY DEF Acts, Step, Receive, StopAtGate, Check, Claim, ClaimRefused, Lookup, Link, PutKv, Tell,
        Create, Save, CertifyCredit, Release, Row, Certify, Fail, Crash, DeadLetter, Goto, Throw, TypeOK
<1>5. pc' \in [Deliveries -> Labels]
  BY <1>1, <1>2, <1>4 DEF Elsewhere, TypeOK, Labels
<1>6. attempts' \in [Deliveries -> 0..MaxAttempts]
  <2>1. CASE UNCHANGED attempts
    BY <2>1 DEF TypeOK
  <2>2. CASE pc[d] = "queued" /\ attempts' = [attempts EXCEPT ![d] = @ + 1]
    <3>1. attempts[d] \in 0..MaxAttempts /\ attempts[d] < MaxAttempts
      BY <2>2 DEF TypeOK, AttemptLeft
    <3>2. attempts[d] + 1 \in 0..MaxAttempts
      BY <3>1, ConstantsOK
    <3> QED
      BY <2>2, <3>2 DEF TypeOK
  <2> QED
    BY <1>3, <2>1, <2>2
<1>7. AttemptLeft'
  BY <1>1, <1>2, <1>3 DEF AttemptLeft, Elsewhere
<1> QED
  BY <1>5, <1>6, <1>7

\* What the rows become.
LEMMA SavedRow ==
    ASSUME TypeOK, NEW o \in Orders, NEW i \in DOMAIN docs', NEW h \in BOOLEAN, NEW f \in BOOLEAN,
           SaveRow(o, [invoice |-> i, hold |-> h, finalize |-> f]), DocsGrow
    PROVE  /\ processed_orders' \in [Orders -> [invoice : 0..Len(docs'), hold : BOOLEAN, finalize : BOOLEAN]]
           /\ \A q \in Orders \ {o} : processed_orders'[q] = processed_orders[q]
           /\ \/ processed_orders'[o] = processed_orders[o]
              \/ processed_orders'[o] = [invoice |-> i, hold |-> h, finalize |-> f]
<1>1. i \in 0..Len(docs')
  BY DEF DocsGrow
<1>2. processed_orders \in [Orders -> [invoice : 0..Len(docs'), hold : BOOLEAN, finalize : BOOLEAN]]
  BY DEF TypeOK, DocsGrow
<1>3. [invoice |-> i, hold |-> h, finalize |-> f] \in [invoice : 0..Len(docs'), hold : BOOLEAN, finalize : BOOLEAN]
  BY <1>1
<1>4. \/ processed_orders' = processed_orders
      \/ processed_orders' = [processed_orders EXCEPT ![o] = [invoice |-> i, hold |-> h, finalize |-> f]]
  BY DEF SaveRow
<1> QED
  BY <1>2, <1>3, <1>4

\* Only the link and the save write rows, each that of its own order and of the document it holds.
LEMMA ActsRows ==
    ASSUME TypeOK, FoundOK, NEW d \in Deliveries, Acts(d)
    PROVE  /\ processed_orders' \in [Orders -> [invoice : 0..Len(docs'), hold : BOOLEAN, finalize : BOOLEAN]]
           /\ \A q \in Orders \ {OrderOf[d]} : processed_orders'[q] = processed_orders[q]
           /\ \/ processed_orders'[OrderOf[d]] = processed_orders[OrderOf[d]]
              \/ /\ Link(d)
                 /\ processed_orders'[OrderOf[d]] = [invoice |-> found[d], hold |-> FALSE, finalize |-> TRUE]
              \/ /\ Save(d)
                 /\ processed_orders'[OrderOf[d]] =
                      [invoice |-> found[d], hold |-> Kind(d) = "hold", finalize |-> Kind(d) # "routedDraft"]
<1> DEFINE o == OrderOf[d]
<1>1. o \in Orders /\ DocsGrow
  BY ActsDocs, ConstantsOK
<1>2. CASE Link(d)
  <2>1. found[d] \in DOMAIN docs' /\ SaveRow(o, [invoice |-> found[d], hold |-> FALSE, finalize |-> TRUE])
    BY <1>1, <1>2, HeldDoc DEF Link, Holding, DocsGrow
  <2>2. FALSE \in BOOLEAN /\ TRUE \in BOOLEAN
    OBVIOUS
  <2> HIDE DEF o
  <2>3. /\ processed_orders' \in [Orders -> [invoice : 0..Len(docs'), hold : BOOLEAN, finalize : BOOLEAN]]
        /\ \A q \in Orders \ {o} : processed_orders'[q] = processed_orders[q]
        /\ \/ processed_orders'[o] = processed_orders[o]
           \/ processed_orders'[o] = [invoice |-> found[d], hold |-> FALSE, finalize |-> TRUE]
    BY <1>1, <2>1, <2>2, SavedRow
  <2> QED
    BY <1>2, <2>3 DEF o
<1>3. CASE Save(d)
  <2>1. /\ found[d] \in DOMAIN docs'
        /\ SaveRow(o, [invoice |-> found[d], hold |-> Kind(d) = "hold", finalize |-> Kind(d) # "routedDraft"])
    BY <1>1, <1>3, HeldDoc DEF Save, Holding, DocsGrow
  <2>2. (Kind(d) = "hold") \in BOOLEAN /\ (Kind(d) # "routedDraft") \in BOOLEAN
    OBVIOUS
  <2> HIDE DEF o
  <2>3. /\ processed_orders' \in [Orders -> [invoice : 0..Len(docs'), hold : BOOLEAN, finalize : BOOLEAN]]
        /\ \A q \in Orders \ {o} : processed_orders'[q] = processed_orders[q]
        /\ \/ processed_orders'[o] = processed_orders[o]
           \/ processed_orders'[o] =
                [invoice |-> found[d], hold |-> Kind(d) = "hold", finalize |-> Kind(d) # "routedDraft"]
    BY <1>1, <2>1, <2>2, SavedRow
  <2> QED
    BY <1>3, <2>3 DEF o
<1>4. CASE ~Link(d) /\ ~Save(d)
  <2>1. UNCHANGED processed_orders
    BY <1>4 DEF Acts, Step, Receive, StopAtGate, Check, Claim, ClaimRefused, Lookup, PutKv, Tell, Create,
          CertifyCredit, Release, Row, Certify, Fail, Crash, DeadLetter, rows
  <2> QED
    BY <1>1, <2>1 DEF TypeOK, DocsGrow
<1> QED
  BY <1>2, <1>3, <1>4

\* The KV copy is written by the second half of a save alone, and never removed.
LEMMA ActsKv ==
    ASSUME TypeOK, NEW d \in Deliveries, Acts(d)
    PROVE  /\ kv' \in [Orders -> BOOLEAN]
           /\ \/ UNCHANGED kv
              \/ PutKv(d) /\ kv' = [kv EXCEPT ![OrderOf[d]] = TRUE]
<1>1. \/ UNCHANGED kv
      \/ PutKv(d) /\ kv' = [kv EXCEPT ![OrderOf[d]] = TRUE]
  BY DEF Acts, Step, Receive, StopAtGate, Check, Claim, ClaimRefused, Lookup, Link, PutKv, Tell,
        Create, Save, CertifyCredit, Release, Row, Certify, Fail, Crash, DeadLetter, rows
<1> QED
  BY <1>1 DEF TypeOK

\* What a delivery comes to hold is a document of its order.
LEMMA ActsFound ==
    ASSUME TypeOK, FoundOK, RowOK, NEW d \in Deliveries, Acts(d)
    PROVE  /\ found' \in [Deliveries -> 0..Len(docs')]
           /\ pc'[d] \in Holding => found'[d] \in DocsOf(OrderOf[d])'
<1> USE DEF Holding
<1>1. DocsGrow /\ OrderOf[d] \in Orders /\ DocsOf(OrderOf[d]) \subseteq DocsOf(OrderOf[d])'
  BY ActsDocs, GrowOf, ConstantsOK
<1>2. found \in [Deliveries -> 0..Len(docs')]
  BY <1>1 DEF TypeOK, DocsGrow
<1>3. CASE Receive(d)
  <2>1. found' = [found EXCEPT ![d] = 0] /\ pc'[d] \in {"check", "row"}
    BY <1>3, GoneTo DEF Receive
  <2>2. 0 \in 0..Len(docs')
    BY <1>1 DEF DocsGrow
  <2> QED
    BY <1>2, <2>1, <2>2
<1>4. CASE Lookup(d)
  <2>1. \/ UNCHANGED found /\ pc'[d] \in {"release", "create"}
        \/ \E i \in DocsOf(OrderOf[d]) : found' = [found EXCEPT ![d] = i] /\ pc'[d] = "link"
    BY <1>4, GoneTo DEF Lookup
  <2>2. \A i \in DocsOf(OrderOf[d]) : i \in 0..Len(docs')
    BY <1>1 DEF DocsOf, DocsGrow
  <2> QED
    BY <1>1, <1>2, <2>1, <2>2 DEF TypeOK
<1>5. CASE Create(d)
  <2>1. \/ UNCHANGED found /\ pc'[d] = "release"
        \/ found' = [found EXCEPT ![d] = Len(docs) + 1] /\ pc'[d] = "save"
    BY <1>5, GoneTo DEF Create
  <2>2. docs' = Append(docs, [order |-> OrderOf[d], state |-> "draft"]) /\ docs \in Seq(DocRec)
    BY <1>5 DEF Create, TypeOK, DocRec, DocStates
  <2>3. /\ Len(docs) \in Nat /\ Len(docs') = Len(docs) + 1 /\ DOMAIN docs' = 1..(Len(docs) + 1)
        /\ docs'[Len(docs) + 1] = [order |-> OrderOf[d], state |-> "draft"]
    BY <1>1, <2>2, DocAdded
  <2>4. Len(docs) + 1 \in 0..Len(docs') /\ Len(docs) + 1 \in DocsOf(OrderOf[d])'
    BY <2>3 DEF DocsOf
  <2> QED
    BY <1>2, <2>1, <2>4 DEF TypeOK
<1>6. CASE Row(d)
  <2>1. \/ UNCHANGED found /\ pc'[d] \in {"check", "acked"}
        \/ /\ found' = [found EXCEPT ![d] = processed_orders[OrderOf[d]].invoice]
           /\ processed_orders[OrderOf[d]].invoice # 0
    <3>1. PICK R \in ReadFaults :
             LET row    == IF "d1" \in R THEN NoRow ELSE processed_orders[OrderOf[d]]
                 exists == row.invoice # 0
             IN \/ Goto(d, "check") /\ UNCHANGED found
                \/ Goto(d, "acked") /\ UNCHANGED found
                \/ exists /\ found' = [found EXCEPT ![d] = row.invoice]
      BY <1>6 DEF Row
    <3> QED
      BY <3>1, GoneTo DEF NoRow
  <2>2. processed_orders[OrderOf[d]].invoice # 0 => processed_orders[OrderOf[d]].invoice \in DocsOf(OrderOf[d])
    BY <1>1 DEF RowOK
  <2>3. \A i \in DocsOf(OrderOf[d]) : i \in 0..Len(docs')
    BY <1>1 DEF DocsOf, DocsGrow
  <2> QED
    BY <1>1, <1>2, <2>1, <2>2, <2>3 DEF TypeOK
<1>7. CASE ~Receive(d) /\ ~Lookup(d) /\ ~Create(d) /\ ~Row(d)
  <2>1. UNCHANGED found
    BY <1>7 DEF Acts, Step, StopAtGate, Check, Claim, ClaimRefused, Link, PutKv, Tell, Save, CertifyCredit,
          Release, Certify, Fail, Crash, DeadLetter, local
  <2>2. pc'[d] \in Holding => Save(d) \/ (PutKv(d) /\ pc[d] = "saveKv")
    <3>1. CASE Save(d) \/ PutKv(d)
      BY <3>1, GoneTo DEF PutKv
    <3>2. CASE ~Save(d) /\ ~PutKv(d)
      BY <1>7, <3>2, GoneTo, Thrown, Bounced DEF Acts, Step, StopAtGate, Check, Claim, ClaimRefused, Link, Tell,
            CertifyCredit, Release, Certify, Fail, Crash, DeadLetter, Returned
    <3> QED
      BY <3>1, <3>2
  <2>3. Save(d) \/ (PutKv(d) /\ pc[d] = "saveKv") => found[d] \in DocsOf(OrderOf[d])
    BY HeldDoc DEF Save
  <2> QED
    BY <1>1, <1>2, <2>1, <2>2, <2>3
<1> QED
  BY <1>3, <1>4, <1>5, <1>6, <1>7

LEMMA ActsRest ==
    ASSUME TypeOK, NEW d \in Deliveries, Acts(d)
    PROVE  /\ healed' \in [Deliveries -> BOOLEAN] /\ outcome' \in [Deliveries -> Outcomes]
           /\ order_claims' \in [Orders -> {"none", "fresh", "stale"}]
           /\ noted' \in [Orders -> BOOLEAN] /\ (\A o \in Orders : noted[o] => noted'[o])
           /\ crashes' \in 0..MaxCrashes
<1>1. healed' \in [Deliveries -> BOOLEAN]
  <2>1. UNCHANGED healed \/ healed' = [healed EXCEPT ![d] = FALSE] \/ healed' = [healed EXCEPT ![d] = TRUE]
    BY DEF Acts, Step, Receive, StopAtGate, Check, Claim, ClaimRefused, Lookup, Link, PutKv, Tell,
          Create, Save, CertifyCredit, Release, Row, Certify, Fail, Crash, DeadLetter, local
  <2> QED
    BY <2>1 DEF TypeOK
<1>2. outcome' \in [Deliveries -> Outcomes]
  <2>1. UNCHANGED outcome \/ \E v \in Outcomes : outcome' = [outcome EXCEPT ![d] = v]
    <3>1. CASE Receive(d)
      BY <3>1 DEF Receive, Outcomes
    <3>2. CASE Create(d)
      BY <3>2 DEF Create, Outcomes
    <3>3. CASE Fail(d)
      BY <3>3, ConstantsOK DEF Fail, Outcomes
    <3>4. CASE ~Receive(d) /\ ~Create(d) /\ ~Fail(d)
      BY <3>4 DEF Acts, Step, StopAtGate, Check, Claim, ClaimRefused, Lookup, Link, PutKv, Tell,
            Save, CertifyCredit, Release, Row, Certify, Crash, DeadLetter, local
    <3> QED
      BY <3>1, <3>2, <3>3, <3>4
  <2> QED
    BY <2>1 DEF TypeOK
<1>3. order_claims' \in [Orders -> {"none", "fresh", "stale"}]
  <2>1. \/ UNCHANGED order_claims \/ order_claims' = [order_claims EXCEPT ![OrderOf[d]] = "none"]
        \/ order_claims' = [order_claims EXCEPT ![OrderOf[d]] = "fresh"]
    BY DEF Acts, Step, Receive, StopAtGate, Check, Claim, ClaimRefused, Lookup, Link, PutKv, Tell,
          Create, Save, CertifyCredit, Release, Row, Certify, Fail, Crash, DeadLetter, rows
  <2> QED
    BY <2>1 DEF TypeOK
<1>4. noted' \in [Orders -> BOOLEAN] /\ \A o \in Orders : noted[o] => noted'[o]
  <2>1. CASE UNCHANGED noted \/ Note(d) \/ \E kind : Throw(d, kind)
    BY <2>1, Noting, Thrown DEF TypeOK
  <2>2. UNCHANGED noted \/ Note(d) \/ \E kind : Throw(d, kind)
    BY DEF Acts, Step, Receive, StopAtGate, Check, Claim, ClaimRefused, Lookup, Link, PutKv, Tell,
          Create, Save, CertifyCredit, Release, Row, Certify, Fail, Crash, DeadLetter
  <2> QED
    BY <2>1, <2>2
<1>5. crashes' \in 0..MaxCrashes
  <2>1. CASE Crash(d)
    BY <2>1, ConstantsOK DEF Crash, TypeOK
  <2>2. CASE ~Crash(d)
    <3>1. UNCHANGED crashes
      BY <2>2 DEF Acts, Step, Receive, StopAtGate, Check, Claim, ClaimRefused, Lookup, Link, PutKv, Tell,
            Create, Save, CertifyCredit, Release, Row, Certify, Fail, DeadLetter
    <3> QED
      BY <3>1 DEF TypeOK
  <2> QED
    BY <2>1, <2>2
<1> QED
  BY <1>1, <1>2, <1>3, <1>4, <1>5

-----------------------------------------------------------------------------
(* The claim is exclusive.                                                 *)

LEMMA ActsClaims ==
    ASSUME ~ClaimFaults, TypeOK, Claims, NEW d \in Deliveries, Acts(d)
    PROVE  Claims'
<1>1. Elsewhere(d) /\ OrderOf[d] \in Orders
  BY ActsElsewhere, ConstantsOK
<1>2. CASE Claim(d)
  <2>1. /\ order_claims[OrderOf[d]] # "fresh" /\ order_claims'[OrderOf[d]] = "fresh"
        /\ \A o \in Orders \ {OrderOf[d]} : order_claims'[o] = order_claims[o]
    BY <1>1, <1>2 DEF Claim, TypeOK
  <2>2. \A e \in Deliveries \ {d} : Inside(e)' => Inside(e) /\ OrderOf[e] # OrderOf[d]
    BY <1>1, <2>1 DEF Claims, Elsewhere, Inside
  <2> QED
    BY <1>1, <2>1, <2>2, ConstantsOK DEF Claims
<1>3. CASE Release(d)
  <2>1. Inside(d) /\ ~Inside(d)'
    BY <1>3, GoneTo, Thrown DEF Release, Returned, Inside, Claiming
  <2>2. \A o \in Orders \ {OrderOf[d]} : order_claims'[o] = order_claims[o]
    BY <1>3 DEF Release, TypeOK
  <2>3. \A e \in Deliveries \ {d} : Inside(e)' => Inside(e) /\ OrderOf[e] # OrderOf[d]
    BY <1>1, <2>1 DEF Claims, Elsewhere, Inside
  <2> QED
    BY <2>1, <2>2, <2>3, ConstantsOK DEF Claims
<1>4. CASE ~Claim(d) /\ ~Release(d)
  <2>1. UNCHANGED order_claims
    BY <1>4 DEF Acts, Step, Receive, StopAtGate, Check, ClaimRefused, Lookup, Link, PutKv, Tell, Create, Save,
          CertifyCredit, Row, Certify, Fail, Crash, DeadLetter, rows
  <2>2. Inside(d)' => Inside(d)
    <3> USE GoneTo, Thrown, Bounced DEF Inside, Claiming
    <3>1. CASE Lookup(d) \/ Link(d) \/ PutKv(d) \/ Tell(d) \/ Create(d) \/ Save(d) \/ CertifyCredit(d)
      BY <3>1 DEF AfterSave, Lookup, Link, PutKv, Tell, Create, Save, CertifyCredit
    <3>2. CASE Row(d)
      <4>1. Goto(d, "check") \/ Goto(d, "acked") \/ Goto(d, "certify")
        BY <3>2 DEF Row
      <4> QED
        BY <4>1
    <3>3. CASE Fail(d)
      BY <3>3 DEF Fail
    <3>4. CASE Receive(d) \/ StopAtGate(d) \/ Check(d) \/ ClaimRefused(d) \/ Certify(d) \/ Crash(d)
               \/ DeadLetter(d)
      BY <3>4 DEF Receive, StopAtGate, Check, ClaimRefused, Certify, Crash, DeadLetter, Returned
    <3> QED
      BY <1>4, <3>1, <3>2, <3>3, <3>4 DEF Acts, Step
  <2>3. \A e \in Deliveries : Inside(e)' => Inside(e)
    BY <1>1, <2>2 DEF Elsewhere, Inside
  <2> QED
    BY <2>1, <2>3 DEF Claims
<1> QED
  BY <1>2, <1>3, <1>4

LEMMA ClaimsNext == ASSUME ~ClaimFaults PROVE LegacyInv /\ Claims /\ [Next]_vars => Claims'
<1> SUFFICES ASSUME LegacyInv, Claims, [Next]_vars PROVE Claims'
  OBVIOUS
<1>1. CASE UNCHANGED vars
  BY <1>1 DEF vars, rows, Claims, Inside
<1>2. ASSUME NEW o \in Orders, Age(o) PROVE Claims'
  BY <1>2 DEF Age, Claims, Inside, IsHeld, LegacyInv, TypeOK
<1> QED
  BY <1>1, <1>2, ActsClaims DEF Next, Acts, LegacyInv

LEMMA AgeInv ==
    ASSUME LegacyInv, NEW o \in Orders, Age(o)
    PROVE  LegacyInv'
<1> USE DEF LegacyInv
<1>1. UNCHANGED <<pc, attempts, healed, outcome, found, processed_orders, kv, docs, order_kind, noted, crashes>>
  BY DEF Age, local
<1>2. order_claims' = [order_claims EXCEPT ![o] = "stale"]
  BY DEF Age
<1>3. TypeOK'
  BY <1>1, <1>2 DEF TypeOK
<1>4. AttemptLeft' /\ FoundOK' /\ RowOK' /\ BornOf'
  BY <1>1 DEF AttemptLeft, FoundOK, RowOK, BornOf, DocsOf
<1> QED
  BY <1>3, <1>4

LEMMA ActsInv ==
    ASSUME LegacyInv, NEW d \in Deliveries, Acts(d)
    PROVE  LegacyInv'
<1> USE DEF LegacyInv
<1>1. DocsGrow /\ Elsewhere(d) /\ order_kind' = order_kind
  BY ActsDocs, ActsElsewhere
<1>2. TypeOK'
  BY <1>1, ActsPc, ActsRows, ActsKv, ActsFound, ActsRest DEF TypeOK, Labels, DocsGrow, DocRec, DocStates
<1>3. AttemptLeft'
  BY ActsPc
<1>4. \A o \in Orders : DocsOf(o) \subseteq DocsOf(o)'
  BY <1>1, GrowOf
<1>5. FoundOK'
  <2>1. \A e \in Deliveries \ {d} : pc'[e] = pc[e] /\ found'[e] = found[e]
    BY <1>1 DEF Elsewhere
  <2> QED
    BY <1>4, <2>1, ActsFound, ConstantsOK DEF FoundOK
<1>6. RowOK'
  <2>1. \A q \in Orders \ {OrderOf[d]} : processed_orders'[q] = processed_orders[q]
    BY ActsRows
  <2>2. \/ processed_orders'[OrderOf[d]] = processed_orders[OrderOf[d]]
        \/ processed_orders'[OrderOf[d]].invoice \in DocsOf(OrderOf[d])
    <3>1. Link(d) \/ Save(d) => found[d] \in DocsOf(OrderOf[d])
      BY HeldDoc DEF Link, Save, Holding
    <3>2. /\ Link(d) => [invoice |-> found[d], hold |-> FALSE, finalize |-> TRUE].invoice = found[d]
          /\ Save(d) => [invoice |-> found[d], hold |-> Kind(d) = "hold",
                          finalize |-> Kind(d) # "routedDraft"].invoice = found[d]
      OBVIOUS
    <3>3. \/ processed_orders'[OrderOf[d]] = processed_orders[OrderOf[d]]
          \/ (Link(d) \/ Save(d)) /\ processed_orders'[OrderOf[d]].invoice = found[d]
      BY <3>2, ActsRows
    <3> QED
      BY <3>1, <3>3
  <2> QED
    BY <1>4, <2>1, <2>2, ConstantsOK DEF RowOK
<1>7. BornOf'
  <2>1. CASE docs' = Append(docs, [order |-> OrderOf[d], state |-> "draft"])
    <3>1. docs \in Seq(DocRec) /\ OrderOf[d] \in Orders
      BY ConstantsOK DEF TypeOK, DocRec, DocStates
    <3>2. /\ DOMAIN docs = 1..Len(docs) /\ DOMAIN docs' = 1..(Len(docs) + 1) /\ Len(docs) \in Nat
          /\ docs'[Len(docs) + 1].order = OrderOf[d]
          /\ \A i \in DOMAIN docs : docs'[i] = docs[i]
      BY <2>1, <3>1, DocAdded
    <3> QED
      BY <3>2 DEF BornOf
  <2>2. CASE DOMAIN docs' = DOMAIN docs
    BY <1>1, <2>2 DEF BornOf, DocsGrow
  <2>3. ASSUME found[d] \in DOMAIN docs, docs' = [docs EXCEPT ![found[d]].state = "final"]
        PROVE  DOMAIN docs' = DOMAIN docs
    BY <2>3, DocCertified DEF TypeOK, DocRec, DocStates
  <2> QED
    BY <2>1, <2>2, <2>3, ActsDocs
<1> QED
  BY <1>2, <1>3, <1>5, <1>6, <1>7

LEMMA LegacyNext == LegacyInv /\ [Next]_vars => LegacyInv'
<1> SUFFICES ASSUME LegacyInv, [Next]_vars PROVE LegacyInv'
  OBVIOUS
<1>1. CASE UNCHANGED vars
  BY <1>1 DEF vars, local, rows, LegacyInv, TypeOK, AttemptLeft, FoundOK, RowOK, BornOf, DocsOf
<1> QED
  BY <1>1, ActsInv, AgeInv DEF Next, Acts

LEMMA LegacyAlways == Spec => []LegacyInv
<1>1. Init => LegacyInv
  <2> SUFFICES ASSUME Init PROVE LegacyInv
    OBVIOUS
  <2>1. TypeOK
    BY ConstantsOK DEF Init, TypeOK, NoRow, Outcomes
  <2>2. AttemptLeft /\ FoundOK /\ RowOK /\ BornOf
    BY ConstantsOK DEF Init, AttemptLeft, FoundOK, Holding, RowOK, BornOf, NoRow
  <2> QED
    BY <2>1, <2>2 DEF LegacyInv
<1> QED
  BY <1>1, LegacyNext, PTL DEF Spec

\* Every variable keeps its type: no message is handed over more often than the queue allows, and
\* what rows and locals name is what InvoiceXpress holds.
THEOREM LegacyTypes == Spec => []TypeOK
BY LegacyAlways, PTL DEF LegacyInv

-----------------------------------------------------------------------------
(* One document for an order, and the ledger.                              *)

LEMMA SoleStep ==
    ASSUME ~MissedLookups, LegacyInv, Claims, Sole, NEW d \in Deliveries, Acts(d)
    PROVE  Sole'
<1> USE DEF LegacyInv
<1>1. DocsGrow /\ Elsewhere(d) /\ OrderOf[d] \in Orders
  BY ActsDocs, ActsElsewhere, ConstantsOK
<1>2. pc'[d] = "create" => Lookup(d) /\ DocsOf(OrderOf[d]) = {}
  <2>1. CASE Lookup(d)
    BY <2>1, GoneTo DEF Lookup
  <2>2. CASE Row(d)
    <3>1. Goto(d, "check") \/ Goto(d, "acked") \/ Goto(d, "certify")
      BY <2>2 DEF Row
    <3> QED
      BY <3>1, GoneTo
  <2>3. CASE ~Lookup(d) /\ ~Row(d)
    BY <2>3, GoneTo, Thrown, Bounced DEF AfterSave, Acts, Step, Receive, StopAtGate, Check, Claim, ClaimRefused,
          Link, PutKv, Tell, Create, Save, CertifyCredit, Release, Certify, Fail, Crash, DeadLetter, Returned
  <2> QED
    BY <2>1, <2>2, <2>3
<1>3. CASE Create(d)
  <2>1. docs' = Append(docs, [order |-> OrderOf[d], state |-> "draft"]) /\ docs \in Seq(DocRec) /\ pc[d] = "create"
    BY <1>3 DEF Create, TypeOK, DocRec, DocStates
  <2>2. /\ Len(docs) \in Nat /\ DOMAIN docs = 1..Len(docs) /\ DOMAIN docs' = 1..(Len(docs) + 1)
        /\ docs'[Len(docs) + 1].order = OrderOf[d] /\ \A i \in DOMAIN docs : docs'[i] = docs[i]
    BY <1>1, <2>1, DocAdded
  <2>3. \A i \in DOMAIN docs : docs[i].order # OrderOf[d]
    BY <2>1 DEF Sole, DocsOf
  <2>4. OneDocument'
    BY <2>2, <2>3 DEF Sole, OneDocument
  <2>5. \A e \in Deliveries \ {d} : pc'[e] = "create" => pc[e] = "create" /\ OrderOf[e] # OrderOf[d]
    BY <1>1, <2>1 DEF Claims, Elsewhere, Inside, Claiming
  <2>6. \A e \in Deliveries \ {d} : pc'[e] = "create" => DocsOf(OrderOf[e])' = {}
    BY <2>2, <2>5 DEF Sole, DocsOf
  <2>7. pc'[d] # "create"
    BY <1>3, GoneTo DEF Create
  <2> QED
    BY <2>4, <2>6, <2>7 DEF Sole
<1>4. CASE ~Create(d)
  <2>1. DOMAIN docs' = DOMAIN docs
    <3>1. ASSUME found[d] \in DOMAIN docs, docs' = [docs EXCEPT ![found[d]].state = "final"]
          PROVE  DOMAIN docs' = DOMAIN docs
      BY <3>1, DocCertified DEF TypeOK, DocRec, DocStates
    <3> QED
      BY <1>4, <3>1, ActsDocs
  <2>2. \A o \in Orders : DocsOf(o)' = DocsOf(o)
    BY <1>1, <2>1 DEF DocsOf, DocsGrow
  <2>3. OneDocument'
    BY <1>1, <2>1 DEF Sole, OneDocument, DocsGrow
  <2>4. \A e \in Deliveries : pc'[e] = "create" => DocsOf(OrderOf[e]) = {}
    BY <1>1, <1>2 DEF Sole, Elsewhere
  <2> QED
    BY <2>2, <2>3, <2>4, ConstantsOK DEF Sole
<1> QED
  BY <1>3, <1>4

LEMMA SoleNext == ASSUME ~MissedLookups PROVE LegacyInv /\ Claims /\ Sole /\ [Next]_vars => Sole'
<1> SUFFICES ASSUME LegacyInv, Claims, Sole, [Next]_vars PROVE Sole'
  OBVIOUS
<1>1. CASE UNCHANGED vars
  BY <1>1 DEF vars, Sole, OneDocument, DocsOf
<1>2. ASSUME NEW o \in Orders, Age(o) PROVE Sole'
  BY <1>2 DEF Age, Sole, OneDocument, DocsOf
<1> QED
  BY <1>1, <1>2, SoleStep DEF Next, Acts

LEMMA SoleAlways == ASSUME ~MissedLookups, ~ClaimFaults PROVE Spec => [](LegacyInv /\ Sole)
<1>1. Init => Claims /\ Sole
  BY DEF Init, Claims, Inside, Claiming, Sole, OneDocument
<1> QED
  BY <1>1, LegacyAlways, ClaimsNext, SoleNext, PTL DEF Spec

\* claimOrder is a compare-and-swap: where its table answers and the search by reference shows what
\* InvoiceXpress holds, an order never has two documents, whatever deliveries race, die, or lose an
\* answer.  Where the table does not answer the claim fails open and two deliveries may both create.
THEOREM OneDocumentEver == ASSUME ~MissedLookups, ~ClaimFaults PROVE Spec => []OneDocument
<1>1. Sole => OneDocument
  BY DEF Sole
<1> QED
  BY <1>1, SoleAlways, PTL

Entry       == [sale : Orders, state : DocStates]
LedgerOf(q) == [i \in DOMAIN q |-> [sale |-> q[i].order, state |-> q[i].state]]

LEMMA LedgerType ==
    ASSUME NEW q \in Seq(DocRec)
    PROVE  LedgerOf(q) \in Seq(Entry) /\ Len(LedgerOf(q)) = Len(q)
<1>1. DOMAIN q = 1..Len(q) /\ Len(q) \in Nat /\ \A i \in 1..Len(q) : q[i] \in DocRec
  OBVIOUS
<1>2. LedgerOf(q) \in [1..Len(q) -> Entry]
  BY <1>1 DEF LedgerOf, Entry, DocRec, DocStates
<1>3. LedgerOf(q) \in Seq(Entry)
  BY <1>1, <1>2, SeqDef
<1> QED
  BY <1>1, <1>2, <1>3

\* Every step of the path is a step of the ledger or does not show there.
LEMMA LedgerStep ==
    ASSUME LegacyInv, Sole, LegacyInv', [Next]_vars
    PROVE  [Ledger!Next]_(LedgerOf(docs))
<1> USE DEF LegacyInv
<1>1. CASE UNCHANGED docs
  BY <1>1 DEF LedgerOf
<1>2. ASSUME NEW d \in Deliveries, Create(d) PROVE Ledger!Next
  <2>1. docs' = Append(docs, [order |-> OrderOf[d], state |-> "draft"]) /\ docs \in Seq(DocRec)
        /\ pc[d] = "create" /\ OrderOf[d] \in Orders
    BY <1>2, ConstantsOK DEF Create, TypeOK, DocRec, DocStates
  <2>2. /\ Len(docs) \in Nat /\ DOMAIN docs = 1..Len(docs) /\ DOMAIN docs' = 1..(Len(docs) + 1)
        /\ docs'[Len(docs) + 1] = [order |-> OrderOf[d], state |-> "draft"]
        /\ \A i \in DOMAIN docs : docs'[i] = docs[i]
    BY <2>1, DocAdded
  <2>3. \A i \in DOMAIN LedgerOf(docs) : LedgerOf(docs)[i].sale # OrderOf[d]
    BY <2>1 DEF Sole, DocsOf, LedgerOf
  <2>4. LedgerOf(docs)' = Append(LedgerOf(docs), [sale |-> OrderOf[d], state |-> "draft"])
    <3> DEFINE e == [sale |-> OrderOf[d], state |-> "draft"]
               L == LedgerOf(docs)
    <3>1. e \in Entry /\ docs' \in Seq(DocRec) /\ Len(docs') = Len(docs) + 1
      BY <2>1, DocAdded DEF Entry, DocStates
    <3>2. L \in Seq(Entry) /\ Len(L) = Len(docs) /\ LedgerOf(docs') \in Seq(Entry)
          /\ Len(LedgerOf(docs')) = Len(docs) + 1
      BY <2>1, <2>2, <3>1, LedgerType
    <3>3. /\ \A i \in 1..Len(docs) : LedgerOf(docs')[i] = L[i]
          /\ LedgerOf(docs')[Len(docs) + 1] = e
      BY <2>2 DEF LedgerOf
    <3> HIDE DEF e, L
    <3>4. LedgerOf(docs') = Append(L, e)
      BY <2>2, <3>1, <3>2, <3>3
    <3> QED
      BY <3>4 DEF e, L, LedgerOf
  <2>5. Ledger!Issue(OrderOf[d])
    BY <2>3, <2>4 DEF Ledger!Issue, LedgerOf
  <2> QED
    BY <2>1, <2>5 DEF Ledger!Next
<1>3. ASSUME NEW i \in DOMAIN docs, docs' = [docs EXCEPT ![i].state = "final"]
      PROVE  [Ledger!Next]_(LedgerOf(docs))
  <2>1. docs \in Seq(DocRec)
    BY DEF TypeOK, DocRec, DocStates
  <2>2. /\ DOMAIN docs' = DOMAIN docs /\ docs'[i].order = docs[i].order /\ docs'[i].state = "final"
        /\ \A j \in DOMAIN docs : j # i => docs'[j] = docs[j]
    BY <1>3, <2>1, DocCertified
  <2>3. CASE docs[i].state = "final"
    <3>1. \A j \in DOMAIN docs : /\ docs'[j].order = docs[j].order /\ docs'[j].state = docs[j].state
      BY <2>2, <2>3
    <3> QED
      BY <2>2, <3>1 DEF LedgerOf
  <2>4. CASE docs[i].state # "final"
    <3>1. docs[i].state = "draft"
      <4>1. docs[i] \in DocRec
        BY <2>1
      <4> QED
        BY <2>4, <4>1 DEF DocRec, DocStates
    <3>2. LedgerOf(docs)[i].state = "draft" /\ i \in DOMAIN LedgerOf(docs)
      BY <3>1 DEF LedgerOf
    <3>3. LedgerOf(docs)' = [LedgerOf(docs) EXCEPT ![i].state = "final"]
      BY <2>2 DEF LedgerOf
    <3>4. Ledger!Certify(i)
      BY <3>2, <3>3 DEF Ledger!Certify, LedgerOf
    <3> QED
      BY <3>2, <3>4 DEF Ledger!Next, LedgerOf
  <2> QED
    BY <2>3, <2>4
<1>4. ASSUME NEW d \in Deliveries, Acts(d) PROVE [Ledger!Next]_(LedgerOf(docs))
  BY <1>1, <1>2, <1>3, <1>4, ActsDocs
<1>5. ASSUME (\E o \in Orders : Age(o)) \/ UNCHANGED vars PROVE UNCHANGED docs
  BY <1>5 DEF Age, vars
<1> QED
  BY <1>1, <1>4, <1>5 DEF Next, Acts

\* Whatever deliveries race, come again, die or lose an answer, InvoiceXpress sees an order's document
\* issued once and certified at most once, where the claim table answers and the search by reference
\* shows what it holds.
THEOREM LegacyImplementsLedger == ASSUME ~MissedLookups, ~ClaimFaults PROVE Spec => LedgerSpec
<1>1. Init => Ledger!Init
  BY DEF Init, Ledger!Init
<1>2. LegacyInv /\ Sole /\ LegacyInv' /\ [Next]_vars => [Ledger!Next]_(LedgerOf(docs))
  BY LedgerStep
<1> QED
  BY <1>1, <1>2, SoleAlways, PTL DEF Spec, LedgerSpec, Ledger!Spec, LedgerOf

-----------------------------------------------------------------------------
(* No delivery ends without a row or a report.                             *)

\* What a link or a save does where it reaches D1.
LEMMA WritesRow ==
    ASSUME SavesD1, LegacyInv, NEW d \in Deliveries, Link(d) \/ Save(d)
    PROVE  /\ HasRow(OrderOf[d])'
           /\ processed_orders'[OrderOf[d]].hold => Save(d) /\ Kind(d) = "hold"
           /\ ~processed_orders'[OrderOf[d]].finalize => Save(d) /\ Kind(d) = "routedDraft"
<1> USE DEF LegacyInv
<1>1. found[d] # 0 /\ OrderOf[d] \in Orders
  <2>1. found[d] \in 1..Len(docs)
    BY HeldDoc DEF Link, Save, Holding
  <2> QED
    BY <2>1, ConstantsOK
<1>2. ASSUME NEW row, SaveRow(OrderOf[d], row) PROVE processed_orders'[OrderOf[d]] = row
  BY <1>1, <1>2 DEF SaveRow, SavesD1, TypeOK
<1>3. CASE Link(d)
  <2>1. processed_orders'[OrderOf[d]] = [invoice |-> found[d], hold |-> FALSE, finalize |-> TRUE]
    BY <1>2, <1>3 DEF Link
  <2> QED
    BY <1>1, <2>1 DEF HasRow
<1>4. CASE Save(d)
  <2> DEFINE h == Kind(d) = "hold"
             f == Kind(d) # "routedDraft"
  <2>1. processed_orders'[OrderOf[d]] = [invoice |-> found[d], hold |-> h, finalize |-> f]
    BY <1>2, <1>4 DEF Save
  <2> HIDE DEF h, f
  <2>2. /\ processed_orders'[OrderOf[d]].invoice = found[d]
        /\ processed_orders'[OrderOf[d]].hold = h /\ processed_orders'[OrderOf[d]].finalize = f
    BY <2>1
  <2> QED
    BY <1>1, <1>4, <2>1, <2>2 DEF HasRow, h, f
<1> QED
  BY <1>3, <1>4

LEMMA RowStays ==
    ASSUME LegacyInv, NEW d \in Deliveries, Acts(d), NEW o \in Orders, HasRow(o)
    PROVE  HasRow(o)'
<1> USE DEF LegacyInv
<1>1. CASE o # OrderOf[d]
  BY <1>1, ActsRows DEF HasRow
<1>2. CASE o = OrderOf[d]
  <2>1. Link(d) \/ Save(d) => found[d] # 0
    <3>1. Link(d) \/ Save(d) => found[d] \in 1..Len(docs)
      BY HeldDoc DEF Link, Save, Holding
    <3> QED
      BY <3>1
  <2>2. \/ processed_orders'[o] = processed_orders[o]
        \/ (Link(d) \/ Save(d)) /\ processed_orders'[o].invoice = found[d]
    <3>1. /\ [invoice |-> found[d], hold |-> FALSE, finalize |-> TRUE].invoice = found[d]
          /\ [invoice |-> found[d], hold |-> Kind(d) = "hold",
              finalize |-> Kind(d) # "routedDraft"].invoice = found[d]
      OBVIOUS
    <3> QED
      BY <1>2, <3>1, ActsRows
  <2> QED
    BY <2>1, <2>2 DEF HasRow
<1> QED
  BY <1>1, <1>2

Books == Saved /\ Tracked /\ RowReasons

LEMMA TrackedStep ==
    ASSUME SavesD1, LegacyInv, Saved, Tracked, NEW d \in Deliveries, Acts(d)
    PROVE  Coming(d)' \/ HasRow(OrderOf[d])' \/ noted'[OrderOf[d]]
<1> USE GoneTo, ConstantsOK DEF LegacyInv
<1>0. OrderOf[d] \in Orders /\ (HasRow(OrderOf[d]) => HasRow(OrderOf[d])')
      /\ (noted[OrderOf[d]] => noted'[OrderOf[d]])
  BY RowStays, ActsRest
<1>1. ASSUME NEW kind, Throw(d, kind) PROVE Coming(d)' \/ noted'[OrderOf[d]]
  BY <1>1, Thrown DEF Coming
<1>2. CASE Receive(d)
  BY <1>2 DEF Receive, Coming, TypeOK
<1>3. CASE StopAtGate(d) \/ DeadLetter(d)
  BY <1>3, Noting DEF StopAtGate, DeadLetter
<1>4. CASE Check(d)
  <2>1. pc'[d] = "claim" \/ HasRow(OrderOf[d])
    BY <1>0, <1>4 DEF Check, Recorded, Saved, HasRow
  <2> QED
    BY <1>0, <2>1 DEF Coming
<1>5. CASE Claim(d) \/ ClaimRefused(d)
  BY <1>1, <1>5 DEF Claim, ClaimRefused, Coming
<1>6. CASE Lookup(d)
  <2>1. \/ pc'[d] \in {"link", "create"}
        \/ Note(d)
    BY <1>6 DEF Lookup
  <2> QED
    BY <2>1, Noting DEF Coming
<1>7. CASE Link(d) \/ Save(d)
  BY <1>7, WritesRow
<1>14. CASE PutKv(d) \/ Tell(d)
  <2>1. ~Coming(d)
    BY <1>14 DEF PutKv, Tell, Coming
  <2> QED
    BY <1>0, <2>1 DEF Tracked
<1>8. CASE Create(d)
  BY <1>8 DEF Create, Coming, TypeOK
<1>9. CASE CertifyCredit(d) \/ Certify(d) \/ (Release(d) /\ outcome[d] = "done")
  <2>1. ~Coming(d)
    BY <1>9 DEF CertifyCredit, Certify, Release, Coming
  <2> QED
    BY <1>0, <2>1 DEF Tracked
<1>10. CASE Release(d) /\ outcome[d] # "done"
  BY <1>1, <1>10 DEF Release
<1>11. CASE Row(d)
  <2>1. \/ pc'[d] = "check"
        \/ healed[d]
        \/ HasRow(OrderOf[d])
    <3>1. PICK R \in ReadFaults :
             LET row    == IF "d1" \in R THEN NoRow ELSE processed_orders[OrderOf[d]]
                 exists == row.invoice # 0
             IN Goto(d, "check") \/ healed[d] \/ exists
      BY <1>11 DEF Row
    <3> QED
      BY <3>1 DEF NoRow, HasRow
  <2>2. healed[d] => HasRow(OrderOf[d]) \/ noted[OrderOf[d]]
    BY <1>11 DEF Row, Tracked, Coming
  <2> QED
    BY <1>0, <2>1, <2>2 DEF Coming
<1>12. CASE Fail(d)
  <2>1. PICK kind \in Failures : \/ outcome' = [outcome EXCEPT ![d] = kind] /\ Goto(d, "release")
                                 \/ Throw(d, kind)
    BY <1>12 DEF Fail
  <2>2. kind # "done"
    OBVIOUS
  <2> QED
    BY <1>1, <2>1, <2>2 DEF Coming, TypeOK
<1>13. CASE Crash(d)
  BY <1>13, Bounced DEF Crash, Coming
<1> QED
  BY <1>2, <1>3, <1>4, <1>5, <1>6, <1>7, <1>8, <1>9, <1>10, <1>11, <1>12, <1>13, <1>14 DEF Acts, Step

\* Who is between the D1 write and the announcement leaves by way of it, or dies.
LEMMA SavesOn ==
    ASSUME LegacyInv, NEW d \in Deliveries, Acts(d), pc[d] \in {"linkKv", "saveKv", "tell"}
    PROVE  \/ PutKv(d) /\ pc[d] = "linkKv"
           \/ PutKv(d) /\ pc[d] = "saveKv" /\ (Kind(d) = "hold" => pc'[d] = "tell")
           \/ Tell(d) /\ noted'[OrderOf[d]]
           \/ crashes' > 0 /\ pc'[d] \notin {"linkKv", "saveKv"}
<1>1. CASE PutKv(d)
  <2>1. pc[d] = "saveKv" => pc'[d] = AfterSave(d)
    BY <1>1 DEF PutKv, Goto, LegacyInv, TypeOK
  <2> QED
    BY <1>1, <2>1 DEF PutKv, AfterSave
<1>2. CASE Tell(d)
  BY <1>2, Noting DEF Tell, LegacyInv
<1>3. CASE Crash(d)
  <2>1. crashes' > 0
    BY <1>3, ConstantsOK DEF Crash, LegacyInv, TypeOK
  <2> QED
    BY <1>3, <2>1, GoneTo, Bounced DEF Crash, LegacyInv
<1> QED
  BY <1>1, <1>2, <1>3 DEF Acts, Step, Receive, StopAtGate, Check, Claim, ClaimRefused, Lookup, Link, Create,
        Save, CertifyCredit, Release, Row, Certify, Fail, DeadLetter

\* An announcement is not taken back, and one that is due is made or dies with its invocation.
LEMMA AnnouncedStays ==
    ASSUME LegacyInv, NEW d \in Deliveries, Acts(d), NEW o \in Orders, Announced(o)
    PROVE  Announced(o)'
<1>1. /\ order_kind' = order_kind /\ (noted[o] => noted'[o])
      /\ \A e \in Deliveries \ {d} : pc'[e] = pc[e]
  BY ActsElsewhere, ActsRest DEF LegacyInv, Elsewhere
<1>2. crashes > 0 => crashes' > 0
  <2>1. Crash(d) => crashes' = crashes + 1
    BY DEF Crash
  <2>2. ~Crash(d) => UNCHANGED crashes
    BY DEF Acts, Step, Receive, StopAtGate, Check, Claim, ClaimRefused, Lookup, Link, PutKv, Tell, Create, Save,
          CertifyCredit, Release, Row, Certify, Fail, DeadLetter
  <2> QED
    BY <2>1, <2>2, ConstantsOK DEF LegacyInv, TypeOK
<1>3. ASSUME OrderOf[d] = o, pc[d] \in {"saveKv", "tell"}, order_kind[o] = "hold"
      PROVE  noted'[o] \/ crashes' > 0 \/ pc'[d] = "tell"
  BY <1>3, SavesOn DEF Kind
<1> QED
  BY <1>1, <1>2, <1>3 DEF Announced, Telling

LEMMA BooksStep ==
    ASSUME SavesD1, LegacyInv, Books, NEW d \in Deliveries, Acts(d)
    PROVE  Books'
<1> USE DEF LegacyInv, Books
<1>1. Elsewhere(d) /\ OrderOf[d] \in Orders /\ order_kind' = order_kind
  BY ActsElsewhere, ConstantsOK
<1>2. \A o \in Orders : (HasRow(o) => HasRow(o)') /\ (Announced(o) => Announced(o)') /\ (noted[o] => noted'[o])
  BY RowStays, AnnouncedStays, ActsRest
<1>3. \A q \in Orders \ {OrderOf[d]} : processed_orders'[q] = processed_orders[q]
  BY ActsRows
<1>4. Saved'
  <2>1. pc'[d] \in {"linkKv", "saveKv"} => Link(d) \/ Save(d)
    BY GoneTo, Thrown, Bounced DEF AfterSave, Acts, Step, Receive, StopAtGate, Check, Claim, ClaimRefused,
          Lookup, Link, PutKv, Tell, Create, Save, CertifyCredit, Release, Row, Certify, Fail, Crash,
          DeadLetter, Returned
  <2>2. pc'[d] \in {"linkKv", "saveKv"} => HasRow(OrderOf[d])'
    BY <2>1, WritesRow
  <2>3. \A e \in Deliveries \ {d} : pc'[e] \in {"linkKv", "saveKv"} => HasRow(OrderOf[e])'
    BY <1>1, <1>2, ConstantsOK DEF Saved, Elsewhere
  <2>4. PutKv(d) => HasRow(OrderOf[d])
    BY DEF PutKv, Saved
  <2>5. \A o \in Orders : kv'[o] => HasRow(o)'
    BY <1>2, <2>4, ActsKv DEF Saved, TypeOK
  <2> QED
    BY <2>2, <2>3, <2>5 DEF Saved
<1>5. RowReasons'
  <2>1. CASE Link(d) \/ Save(d)
    <3>1. Save(d) /\ Kind(d) = "hold" => Announced(OrderOf[d])'
      BY <1>1, GoneTo DEF Save, Announced, Telling, Kind
    <3>2. /\ processed_orders'[OrderOf[d]].hold => Announced(OrderOf[d])'
          /\ ~processed_orders'[OrderOf[d]].finalize => order_kind'[OrderOf[d]] = "routedDraft"
      BY <1>1, <2>1, <3>1, WritesRow DEF Kind
    <3> QED
      BY <1>1, <1>2, <1>3, <3>2 DEF RowReasons, HasRow
  <2>2. CASE ~Link(d) /\ ~Save(d)
    <3>1. \A o \in Orders : processed_orders'[o] = processed_orders[o]
      BY <1>3, <2>2, ActsRows
    <3> QED
      BY <1>1, <1>2, <3>1 DEF RowReasons, HasRow
  <2> QED
    BY <2>1, <2>2
<1> QED
  BY <1>4, <1>5, TrackedStep, <1>1, <1>2, ConstantsOK DEF Tracked, Coming, Elsewhere

LEMMA BooksAlways == ASSUME SavesD1 PROVE Spec => [](LegacyInv /\ Books)
<1>1. Init => Books
  BY ConstantsOK DEF Init, Books, Saved, Tracked, RowReasons, Coming, HasRow, NoRow
<1>2. LegacyInv /\ Books /\ [Next]_vars => Books'
  <2> SUFFICES ASSUME LegacyInv, Books, [Next]_vars PROVE Books'
    OBVIOUS
  <2>1. ASSUME UNCHANGED vars \/ \E o \in Orders : Age(o) PROVE Books'
    <3>1. UNCHANGED <<pc, healed, outcome, processed_orders, kv, order_kind, noted, crashes>>
      BY <2>1 DEF vars, local, rows, Age
    <3> QED
      BY <3>1 DEF Books, Saved, Tracked, RowReasons, Announced, Telling, Coming, HasRow
  <2> QED
    BY <2>1, BooksStep DEF Next, Acts
<1> QED
  BY <1>1, <1>2, LegacyAlways, PTL DEF Spec

\* How a paid delivery ends.
LEMMA PaidStep ==
    ASSUME SavesD1, ReadsD1, LegacyInv, Books, NEW d \in Deliveries, Acts(d),
           pc'[d] \in Ended, TopicOf[d] = "paid"
    PROVE  Accounted(OrderOf[d])'
<1> USE GoneTo, ConstantsOK DEF LegacyInv, Books, Ended
<1> DEFINE o == OrderOf[d]
<1>0. /\ o \in Orders /\ (noted'[o] => Accounted(o)')
      /\ (Accounted(o) => Accounted(o)')
  <2>1. DocsOf(o) \subseteq DocsOf(o)' /\ (Certified(o) => Certified(o)') /\ order_kind' = order_kind
    BY ActsDocs, GrowOf, ActsElsewhere
  <2>2. (noted[o] => noted'[o]) /\ (Announced(o) => Announced(o)')
    BY ActsRest, AnnouncedStays
  <2> QED
    BY <2>1, <2>2 DEF Accounted
<1>1. ASSUME NEW kind, Throw(d, kind) PROVE Accounted(o)'
  BY <1>0, <1>1, Thrown
<1>2. CASE StopAtGate(d) \/ DeadLetter(d)
  BY <1>0, <1>2, Noting DEF StopAtGate, DeadLetter
<1>3. CASE Row(d)
  <2>1. \/ ~HasRow(o) /\ healed[d]
        \/ HasRow(o) /\ (processed_orders[o].hold \/ ~processed_orders[o].finalize)
    BY <1>3 DEF Row, ReadsD1, HasRow
  <2>2. pc[d] = "row"
    BY <1>3 DEF Row
  <2>3. ~HasRow(o) /\ healed[d] => noted[o]
    BY <2>2 DEF Tracked, Coming
  <2>4. HasRow(o) /\ ~processed_orders[o].finalize => order_kind[o] = "routedDraft" /\ DocsOf(o) # {}
    BY <1>0 DEF RowReasons, RowOK, HasRow
  <2>5. HasRow(o) /\ processed_orders[o].hold => Announced(o) /\ DocsOf(o) # {}
    BY <1>0 DEF RowReasons, RowOK, HasRow
  <2> QED
    BY <1>0, <2>1, <2>3, <2>4, <2>5 DEF Accounted
<1>4. CASE Certify(d)
  <2>1. /\ found[d] \in DOMAIN docs /\ docs[found[d]].order = o
        /\ docs' = [docs EXCEPT ![found[d]].state = "final"]
    BY <1>4, HeldDoc DEF Certify, Holding
  <2>2. /\ DOMAIN docs' = DOMAIN docs /\ docs'[found[d]].order = o /\ docs'[found[d]].state = "final"
    BY <2>1, DocCertified DEF TypeOK, DocRec, DocStates
  <2>3. Certified(o)'
    BY <2>1, <2>2 DEF Certified, DocsOf
  <2> QED
    BY <2>3 DEF Accounted
<1>5. CASE ~StopAtGate(d) /\ ~DeadLetter(d) /\ ~Row(d) /\ ~Certify(d) /\ ~\E kind : Throw(d, kind)
  BY <1>5, Bounced DEF AfterSave, Acts, Step, Receive, Check, Claim, ClaimRefused, Lookup, Link, PutKv, Tell,
        Create, Save, CertifyCredit, Release, Fail, Crash, Returned
<1> QED
  BY <1>1, <1>2, <1>3, <1>4, <1>5

\* An order whose payment was announced is certified, or kept a draft by a tag rule, or explained by
\* an incident or an event, once its messages have ended: whichever of orders/created and orders/paid
\* came first, died, was given up or dead-lettered, as long as D1 is written and read where it is
\* asked to be; only a held draft may stay unannounced, where an invocation died.  KV may miss any
\* write and any read, the search by reference any document, and the claim table may not answer.
THEOREM PaidAlwaysAccounted ==
    ASSUME SavesD1, ReadsD1
    PROVE  Spec => []PaidOrderAccounted
<1>1. Init => PaidEnds
  BY DEF Init, PaidEnds, Ended
<1>2. LegacyInv /\ Books /\ PaidEnds /\ [Next]_vars => PaidEnds'
  <2> SUFFICES ASSUME LegacyInv, Books, PaidEnds, [Next]_vars PROVE PaidEnds'
    OBVIOUS
  <2>1. ASSUME NEW d \in Deliveries, Acts(d) PROVE PaidEnds'
    <3>1. Elsewhere(d) /\ order_kind' = order_kind /\ DocsGrow
      BY <2>1, ActsElsewhere, ActsDocs DEF LegacyInv
    <3>2. \A o \in Orders : Accounted(o) => Accounted(o)'
      <4> SUFFICES ASSUME NEW o \in Orders, Accounted(o) PROVE Accounted(o)'
        OBVIOUS
      <4>1. DocsOf(o) \subseteq DocsOf(o)' /\ (Certified(o) => Certified(o)')
        BY <3>1, GrowOf
      <4>2. (noted[o] => noted'[o]) /\ (Announced(o) => Announced(o)')
        BY <2>1, ActsRest, AnnouncedStays DEF LegacyInv
      <4> QED
        BY <3>1, <4>1, <4>2 DEF Accounted
    <3>3. ASSUME NEW e \in Deliveries, pc'[e] \in Ended, TopicOf[e] = "paid"
          PROVE  Accounted(OrderOf[e])'
      BY <2>1, <3>1, <3>2, <3>3, PaidStep, ConstantsOK DEF PaidEnds, Elsewhere
    <3> QED
      BY <3>3 DEF PaidEnds
  <2>2. ASSUME UNCHANGED vars \/ \E o \in Orders : Age(o) PROVE PaidEnds'
    <3>1. UNCHANGED <<pc, docs, order_kind, noted, crashes>>
      BY <2>2 DEF vars, local, Age
    <3> QED
      BY <3>1 DEF PaidEnds, Accounted, Announced, Telling, Certified, DocsOf
  <2> QED
    BY <2>1, <2>2 DEF Next, Acts
<1>3. PaidEnds => PaidOrderAccounted
  <2>1. \A o \in Orders : Settled(o) => ~Telling(o)
    BY DEF Settled, Telling, Ended
  <2> QED
    BY <2>1, ConstantsOK DEF PaidEnds, PaidOrderAccounted, Accounted, Announced, Paid, Settled
<1> QED
  BY <1>1, <1>2, <1>3, BooksAlways, PTL DEF Spec

\* Where no save misses a store, an order that has a document and nothing reported ends with a row
\* that names a document of its own, wherever between creation and record an invocation died; and KV
\* agrees, unless one did, which may be between the two writes.  Reads and the search by reference may
\* miss anything, and the claim table may not answer.
THEOREM RowAlwaysNames ==
    ASSUME SaveFaults = {}
    PROVE  Spec => []RowNamesDocument
<1>1. SavesD1
  BY DEF SavesD1
<1>2. Init => Copied
  BY DEF Init, Copied, HasRow, NoRow
<1>3. LegacyInv /\ Copied /\ [Next]_vars => Copied'
  <2> SUFFICES ASSUME LegacyInv, Copied, [Next]_vars PROVE Copied'
    OBVIOUS
  <2>1. ASSUME NEW d \in Deliveries, Acts(d) PROVE Copied'
    <3>1. /\ OrderOf[d] \in Orders /\ \A e \in Deliveries \ {d} : pc'[e] = pc[e]
          /\ \A q \in Orders \ {OrderOf[d]} : processed_orders'[q] = processed_orders[q]
      BY <2>1, ActsElsewhere, ActsRows, ConstantsOK DEF LegacyInv, Elsewhere
    <3>2. /\ \A o \in Orders : kv[o] => kv'[o]
          /\ PutKv(d) => kv'[OrderOf[d]]
      BY <2>1, <3>1, ActsKv DEF LegacyInv, TypeOK, PutKv
    <3>3. crashes > 0 => crashes' > 0
      <4>1. Crash(d) => crashes' = crashes + 1
        BY DEF Crash
      <4>2. ~Crash(d) => UNCHANGED crashes
        BY <2>1 DEF Acts, Step, Receive, StopAtGate, Check, Claim, ClaimRefused, Lookup, Link, PutKv, Tell,
              Create, Save, CertifyCredit, Release, Row, Certify, Fail, DeadLetter
      <4> QED
        BY <4>1, <4>2, ConstantsOK DEF LegacyInv, TypeOK
    <3>4. pc[d] \in {"linkKv", "saveKv"} => kv'[OrderOf[d]] \/ crashes' > 0
      BY <2>1, <3>2, SavesOn DEF Tell
    <3>5. \A o \in Orders : kv[o] \/ crashes > 0 \/ Copying(o) => (kv[o] \/ crashes > 0 \/ Copying(o))'
      BY <3>1, <3>2, <3>3, <3>4 DEF Copying
    <3>6. CASE Link(d) \/ Save(d)
      <4>1. Copying(OrderOf[d])'
        BY <3>6, GoneTo DEF Link, Save, Copying, LegacyInv
      <4> QED
        BY <3>1, <3>5, <4>1 DEF Copied, HasRow
    <3>7. CASE ~Link(d) /\ ~Save(d)
      <4>1. \A o \in Orders : processed_orders'[o] = processed_orders[o]
        BY <2>1, <3>1, <3>7, ActsRows DEF LegacyInv
      <4> QED
        BY <3>5, <4>1 DEF Copied, HasRow
    <3> QED
      BY <3>6, <3>7
  <2>2. ASSUME UNCHANGED vars \/ \E o \in Orders : Age(o) PROVE Copied'
    <3>1. UNCHANGED <<pc, processed_orders, kv, crashes>>
      BY <2>2 DEF vars, rows, Age
    <3> QED
      BY <3>1 DEF Copied, Copying, HasRow
  <2> QED
    BY <2>1, <2>2 DEF Next, Acts
<1>4. LegacyInv /\ Books /\ Copied => RowNamesDocument
  <2> SUFFICES ASSUME LegacyInv, Books, Copied, NEW o \in Orders, Settled(o), ~noted[o], DocsOf(o) # {}
               PROVE  processed_orders[o].invoice \in DocsOf(o) /\ (kv[o] \/ crashes > 0)
    BY DEF RowNamesDocument
  <2>1. PICK d \in Deliveries : OrderOf[d] = o
    BY DEF LegacyInv, BornOf, DocsOf
  <2>2. ~Coming(d)
    BY <2>1 DEF Settled, Ended, Coming
  <2>3. HasRow(o)
    BY <2>1, <2>2 DEF Books, Tracked
  <2>4. ~Copying(o)
    BY DEF Settled, Ended, Copying
  <2> QED
    BY <2>3, <2>4 DEF LegacyInv, RowOK, HasRow, Copied
<1> QED
  BY <1>1, <1>2, <1>3, <1>4, LegacyAlways, BooksAlways, PTL DEF Spec
=============================================================================
