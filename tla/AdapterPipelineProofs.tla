----------------------- MODULE AdapterPipelineProofs -----------------------
(***************************************************************************)
(* What AdapterPipeline promises for every set of sales and deliveries,    *)
(* every bound and every behaviour of the environment its constants allow. *)
(*                                                                         *)
(* Core needs no assumption: it types the state, says that a local found   *)
(* and a processed_orders row name a document of their own sale, and that  *)
(* whoever is about to certify was cleared to.  Under Tolerated, Exclusive *)
(* and Ledgered carry the argument of one document per sale: whoever       *)
(* passes the idempotency check inside the claim sees every document that  *)
(* was ever issued for the sale.  Accounting needs Tolerated no more: it   *)
(* follows what a record, or a message that has left, owes the merchant.   *)
(***************************************************************************)
EXTENDS AdapterPipeline, SequenceTheorems, TLAPS

\* A message that can still be handed over has an attempt left.
AttemptLeft == \A d \in Deliveries : pc[d] \in Waiting => attempts[d] < MaxAttempts

Holding == {"save", "decide", "read", "certify"}

\* The document a delivery works on exists and is of its own sale.
FoundOK ==
    \A d \in Deliveries :
        pc[d] \in Holding =>
            /\ found[d] \in DOMAIN docs
            /\ docs[found[d]].sale = SaleOf[d]

Invoiced(s) == sale_kind[s] \notin {"notInvoiced", "foreign"}

\* So does a processed_orders row, which remembers what was decided.
RowOK ==
    \A s \in Sales :
        LET row == processed_orders[s]
        IN row.invoice # 0 =>
             /\ row.invoice \in DOMAIN docs
             /\ docs[row.invoice].sale = s
             /\ row.hold <=> sale_kind[s] = "hold"
             /\ row.finalize <=> sale_kind[s] # "draftOnly"
             /\ Invoiced(s)

Cleared(s) == sale_kind[s] = "clean" /\ ~TestConnection

\* How far a delivery got says what is known of its sale.
ClearOK ==
    \A d \in Deliveries :
        /\ pc[d] = "lookup" => sale_kind[SaleOf[d]] # "foreign"
        /\ pc[d] \in {"create", "save", "decide"} => Invoiced(SaleOf[d])
        /\ pc[d] \in {"read", "certify"} => Cleared(SaleOf[d])

Core == TypeOK /\ AttemptLeft /\ FoundOK /\ RowOK /\ ClearOK

\* Whoever works while the run-in does not hold, or has got past it, was without it at
\* some moment of its work: what was read may be withdrawn, not undone.
LiftedOK ==
    RunIn => \A d \in Deliveries :
        /\ ~run_in /\ (pc[d] = "claim" \/ Inside(d)) => d \in lifted
        /\ pc[d] \in {"read", "certify"} => d \in lifted

\* The claim is held by whoever is inside, and by nobody else.
Exclusive ==
    /\ \A d \in Deliveries : Inside(d) => order_claims[SaleOf[d]] = "fresh"
    /\ ClaimExclusion

\* Every idempotency read of the sale says "processed".
Known(s) == \A R \in ReadFaults : Recorded(s, R)

\* A document cannot be missed by the next holder of the claim: the search finds
\* it, the record names it, its creator is about to record it, or its creator is
\* dead and the claim not yet stale.
Findable(i) ==
    LET s == docs[i].sale
    IN \/ docs[i].visible
       \/ Known(s)
       \/ \E d \in Deliveries : pc[d] = "save" /\ SaleOf[d] = s
       \/ order_claims[s] = "fresh" /\ ~IsHeld(s)

Ledgered ==
    /\ \A i \in DOMAIN docs : Findable(i)
    /\ \A d \in Deliveries :
          /\ pc[d] = "lookup" => \A i \in DOMAIN docs :
                                    docs[i].sale = SaleOf[d] => docs[i].visible
          /\ pc[d] = "create" => \A i \in DOMAIN docs : docs[i].sale # SaleOf[d]
    /\ OneDocument

-----------------------------------------------------------------------------
(* What the two writers of docs do to it.                                  *)

Document  == [sale : Sales, state : DocStates, visible : BOOLEAN]
Documents == Seq(Document)

\* createDraft adds one document and disturbs no other.
LEMMA DraftAppended ==
    ASSUME docs \in Documents, NEW s \in Sales,
           docs' = Append(docs, NewDocument(s))
    PROVE  /\ docs' \in Documents
           /\ DOMAIN docs' = DOMAIN docs \cup {Len(docs) + 1}
           /\ \A i \in DOMAIN docs : docs'[i] = docs[i]
           /\ docs'[Len(docs) + 1] = NewDocument(s)
           /\ Len(docs) + 1 \notin DOMAIN docs
           /\ Len(docs) + 1 \in Nat \ {0}
<1>1. NewDocument(s) \in Document
  BY DEF NewDocument, DocStates, Document
<1>2. DOMAIN docs = 1..Len(docs) /\ Len(docs) \in Nat
  BY DEF Documents
<1>3. /\ docs' \in Documents
      /\ Len(docs') = Len(docs) + 1
      /\ \A i \in 1..Len(docs) : docs'[i] = docs[i]
      /\ docs'[Len(docs) + 1] = NewDocument(s)
  BY <1>1, AppendProperties DEF Documents
<1>4. DOMAIN docs' = 1..Len(docs')
  BY <1>3 DEF Documents
<1>. QED
  BY <1>2, <1>3, <1>4

\* A certificate changes the state of one document and nothing else.
LEMMA StateUpdated ==
    ASSUME docs \in Documents, NEW i \in DOMAIN docs, NEW x \in DocStates,
           docs' = [docs EXCEPT ![i].state = x]
    PROVE  /\ docs' \in Documents
           /\ DOMAIN docs' = DOMAIN docs
           /\ \A j \in DOMAIN docs :
                 /\ docs'[j].sale = docs[j].sale
                 /\ docs'[j].visible = docs[j].visible
                 /\ docs'[j].state = IF j = i THEN x ELSE docs[j].state
<1>1. /\ DOMAIN docs = 1..Len(docs)
      /\ \A j \in DOMAIN docs : docs[j] \in Document
  BY DEF Documents
<1>2. docs' = [docs EXCEPT ![i] = [docs[i] EXCEPT !.state = x]]
  OBVIOUS
<1>3. [docs[i] EXCEPT !.state = x] \in Document
  BY <1>1 DEF Document
<1>4. docs' \in Documents
  BY <1>1, <1>2, <1>3, ExceptSeq DEF Documents
<1>5. DOMAIN docs' = DOMAIN docs
  BY <1>2
<1>. QED
  BY <1>1, <1>2, <1>4, <1>5 DEF Document

\* The index catching up makes one document visible and changes nothing else.
LEMMA VisibleUpdated ==
    ASSUME docs \in Documents, NEW i \in DOMAIN docs,
           docs' = [docs EXCEPT ![i].visible = TRUE]
    PROVE  /\ docs' \in Documents
           /\ DOMAIN docs' = DOMAIN docs
           /\ \A j \in DOMAIN docs :
                 /\ docs'[j].sale = docs[j].sale
                 /\ docs'[j].state = docs[j].state
                 /\ docs[j].visible => docs'[j].visible
<1>1. /\ DOMAIN docs = 1..Len(docs)
      /\ \A j \in DOMAIN docs : docs[j] \in Document
  BY DEF Documents
<1>2. docs' = [docs EXCEPT ![i] = [docs[i] EXCEPT !.visible = TRUE]]
  OBVIOUS
<1>3. [docs[i] EXCEPT !.visible = TRUE] \in Document
  BY <1>1 DEF Document
<1>4. docs' \in Documents
  BY <1>1, <1>2, <1>3, ExceptSeq DEF Documents
<1>5. DOMAIN docs' = DOMAIN docs
  BY <1>2
<1>. QED
  BY <1>1, <1>2, <1>4, <1>5 DEF Document

-----------------------------------------------------------------------------
(* Core is inductive.                                                      *)

LEMMA InitCore == Init => Core
BY ConstantsOK DEF Init, Core, TypeOK, AttemptLeft, FoundOK, RowOK, ClearOK, NoRow,
   Waiting, Holding, Working

LEMMA CoreStep == Core /\ [Next]_vars => Core'
<1>. SUFFICES ASSUME Core, [Next]_vars PROVE Core'
  OBVIOUS
<1>. USE ConstantsOK DEF Core, Goto, stores, world, Away
<1>1. ASSUME NEW d \in Deliveries, Receive(d) PROVE Core'
  <2>1. TypeOK'
    BY <1>1 DEF TypeOK, AttemptLeft, Waiting, Working, Ended, Receive
  <2>2. AttemptLeft'
    BY <1>1 DEF TypeOK, AttemptLeft, Waiting, Receive
  <2>3. FoundOK'
    BY <1>1 DEF TypeOK, FoundOK, Holding, Receive
  <2>4. RowOK'
    BY <1>1 DEF TypeOK, RowOK, Invoiced, Receive
  <2>5. ClearOK'
    BY <1>1 DEF TypeOK, ClearOK, Invoiced, Cleared, Receive
  <2>. QED  BY <2>1, <2>2, <2>3, <2>4, <2>5
<1>2. ASSUME NEW d \in Deliveries, StopAtGate(d) PROVE Core'
  <2>1. TypeOK'
    BY <1>2 DEF TypeOK, Waiting, Working, Ended, StopAtGate, Note
  <2>2. AttemptLeft'
    BY <1>2 DEF TypeOK, AttemptLeft, Waiting, StopAtGate, Note
  <2>3. FoundOK'
    BY <1>2 DEF TypeOK, FoundOK, Holding, StopAtGate, Note
  <2>4. RowOK'
    BY <1>2 DEF TypeOK, RowOK, Invoiced, StopAtGate, Note
  <2>5. ClearOK'
    BY <1>2 DEF TypeOK, ClearOK, Invoiced, Cleared, StopAtGate, Note
  <2>. QED  BY <2>1, <2>2, <2>3, <2>4, <2>5
<1>3. ASSUME NEW d \in Deliveries, Claim(d) PROVE Core'
  <2>1. TypeOK'
    BY <1>3 DEF TypeOK, Waiting, Working, Ended, Claim
  <2>2. AttemptLeft'
    BY <1>3 DEF TypeOK, AttemptLeft, Waiting, Claim
  <2>3. FoundOK'
    BY <1>3 DEF TypeOK, FoundOK, Holding, Claim
  <2>4. RowOK'
    BY <1>3 DEF TypeOK, RowOK, Invoiced, Claim
  <2>5. ClearOK'
    BY <1>3 DEF TypeOK, ClearOK, Invoiced, Cleared, Claim
  <2>. QED  BY <2>1, <2>2, <2>3, <2>4, <2>5
<1>4. ASSUME NEW d \in Deliveries, ClaimRefused(d) PROVE Core'
  <2>1. TypeOK'
    BY <1>4 DEF TypeOK, Waiting, Working, Ended, ClaimRefused
  <2>2. AttemptLeft'
    BY <1>4 DEF TypeOK, AttemptLeft, Waiting, ClaimRefused
  <2>3. FoundOK'
    BY <1>4 DEF TypeOK, FoundOK, Holding, ClaimRefused
  <2>4. RowOK'
    BY <1>4 DEF TypeOK, RowOK, Invoiced, ClaimRefused
  <2>5. ClearOK'
    BY <1>4 DEF TypeOK, ClearOK, Invoiced, Cleared, ClaimRefused
  <2>. QED  BY <2>1, <2>2, <2>3, <2>4, <2>5
<1>5. ASSUME NEW d \in Deliveries, Release(d) PROVE Core'
  <2>1. TypeOK'
    <3>1. \/ order_claims' = order_claims
          \/ order_claims' = [order_claims EXCEPT ![SaleOf[d]] = "none"]
      BY <1>5 DEF Release
    <3>2. order_claims' \in [Sales -> {"none", "fresh", "stale"}]
      BY <3>1 DEF TypeOK
    <3>3. /\ UNCHANGED <<attempts, flow, found, processed_orders, kv, docs, noted>>
          /\ UNCHANGED <<sale_kind, run_in, crashes>> /\ lifted' = lifted \ {d}
      BY <1>5 DEF Release
    <3>4. pc' \in [Deliveries -> Waiting \cup Working \cup Ended \cup {"claim", "dlq"}]
      <4> DEFINE p == [pc EXCEPT ![d] = IF pc[d] = "leaveAck" THEN "acked" ELSE Bounce(d)]
      <4>1. p \in [Deliveries -> Waiting \cup Working \cup Ended \cup {"claim", "dlq"}]
        BY DEF TypeOK, Bounce, Waiting, Ended
      <4>2. pc' = p \/ pc' = Wake(SaleOf[d], p)
        BY <1>5 DEF Release
      <4> HIDE DEF p
      <4>. QED  BY <4>1, <4>2 DEF Wake, Waiting
    <3>. QED  BY <3>2, <3>3, <3>4 DEF TypeOK, world
  <2>2. AttemptLeft'
    BY <1>5 DEF TypeOK, AttemptLeft, Waiting, Release, Wake, Bounce
  <2>3. FoundOK'
    BY <1>5 DEF TypeOK, FoundOK, Holding, Release, Wake, Bounce
  <2>4. RowOK'
    BY <1>5 DEF TypeOK, RowOK, Invoiced, Release, Wake, Bounce
  <2>5. ClearOK'
    <3>1. \A e \in Deliveries : pc'[e] \in {pc[e], "queued", "acked", "dlq"}
      BY <1>5 DEF TypeOK, Release, Wake, Bounce
    <3>2. UNCHANGED <<sale_kind, run_in>>
      BY <1>5 DEF Release
    <3>. QED  BY <3>1, <3>2 DEF ClearOK, Invoiced, Cleared
  <2>. QED  BY <2>1, <2>2, <2>3, <2>4, <2>5
<1>6. ASSUME NEW d \in Deliveries, Check(d) PROVE Core'
  <2>1. TypeOK'
    BY <1>6 DEF TypeOK, Waiting, Working, Ended, Check, Note
  <2>2. AttemptLeft'
    BY <1>6 DEF TypeOK, AttemptLeft, Waiting, Check, Note
  <2>3. FoundOK'
    BY <1>6 DEF TypeOK, FoundOK, Holding, Check, Note
  <2>4. RowOK'
    BY <1>6 DEF TypeOK, RowOK, Invoiced, Check, Note
  <2>5. ClearOK'
    BY <1>6 DEF TypeOK, ClearOK, Invoiced, Cleared, Check, Note
  <2>. QED  BY <2>1, <2>2, <2>3, <2>4, <2>5
<1>7. ASSUME NEW d \in Deliveries, Lookup(d) PROVE Core'
  <2>1. TypeOK'
    <3>1. pc' = [pc EXCEPT ![d] = "leaveAck"] \/ pc' = [pc EXCEPT ![d] = "create"]
      BY <1>7 DEF Lookup
    <3>2. noted' = noted \/ noted' = [noted EXCEPT ![SaleOf[d]] = TRUE]
      BY <1>7 DEF Lookup, Note
    <3>3. UNCHANGED <<attempts, flow, found, stores, world>>
      BY <1>7 DEF Lookup
    <3>4. pc' \in [Deliveries -> Waiting \cup Working \cup Ended \cup {"claim", "dlq"}]
      BY <3>1 DEF TypeOK, Working
    <3>5. noted' \in [Sales -> BOOLEAN]
      BY <3>2 DEF TypeOK
    <3>. QED  BY <3>3, <3>4, <3>5 DEF TypeOK
  <2>2. AttemptLeft'
    BY <1>7 DEF TypeOK, AttemptLeft, Waiting, Lookup, Note
  <2>3. FoundOK'
    BY <1>7 DEF TypeOK, FoundOK, Holding, Lookup, Note
  <2>4. RowOK'
    BY <1>7 DEF TypeOK, RowOK, Invoiced, Lookup, Note
  <2>5. ClearOK'
    BY <1>7 DEF TypeOK, ClearOK, Invoiced, Cleared, Lookup, Note
  <2>. QED  BY <2>1, <2>2, <2>3, <2>4, <2>5
<1>8. ASSUME NEW d \in Deliveries, Create(d) PROVE Core'
  <2>0. /\ docs \in Documents
        /\ SaleOf[d] \in Sales
        /\ docs' = Append(docs, NewDocument(SaleOf[d]))
        /\ NewDocument(SaleOf[d]).sale = SaleOf[d]
    BY <1>8 DEF TypeOK, Create, Documents, Document, NewDocument
  <2>a. /\ docs' \in Documents
        /\ DOMAIN docs' = DOMAIN docs \cup {Len(docs) + 1}
        /\ \A i \in DOMAIN docs : docs'[i] = docs[i]
        /\ docs'[Len(docs) + 1].sale = SaleOf[d]
        /\ Len(docs) + 1 \in Nat
    BY <2>0, DraftAppended
  <2>1. TypeOK'
    <3>1. docs' \in Seq([sale : Sales, state : DocStates, visible : BOOLEAN])
      BY <2>a DEF Documents, Document
    <3>2. found' \in [Deliveries -> Nat]
      BY <1>8, <2>a DEF TypeOK, Create
    <3>. QED  BY <1>8, <3>1, <3>2 DEF TypeOK, Working, Create, Note
  <2>2. AttemptLeft'
    BY <1>8 DEF TypeOK, AttemptLeft, Waiting, Create
  <2>3. FoundOK'
    BY <1>8, <2>a DEF TypeOK, FoundOK, Holding, Create
  <2>4. RowOK'
    BY <1>8, <2>a DEF TypeOK, RowOK, Invoiced, Create
  <2>5. ClearOK'
    BY <1>8 DEF TypeOK, ClearOK, Invoiced, Cleared, Create
  <2>. QED  BY <2>1, <2>2, <2>3, <2>4, <2>5
<1>9. ASSUME NEW d \in Deliveries, Save(d) PROVE Core'
  <2>1. TypeOK'
    BY <1>9 DEF TypeOK, Waiting, Working, Ended, Save, RowFor
  <2>2. AttemptLeft'
    BY <1>9 DEF TypeOK, AttemptLeft, Waiting, Save, RowFor
  <2>3. FoundOK'
    BY <1>9 DEF TypeOK, FoundOK, Holding, Save, RowFor
  <2>4. RowOK'
    <3>1. PICK W \in SaveFaults :
             processed_orders' = IF "d1" \in W THEN processed_orders
                                 ELSE [processed_orders EXCEPT ![SaleOf[d]] = RowFor(d)]
      BY <1>9 DEF Save
    <3>2. /\ SaleOf[d] \in Sales
          /\ Invoiced(SaleOf[d])
          /\ found[d] \in DOMAIN docs
          /\ docs[found[d]].sale = SaleOf[d]
      BY <1>9 DEF Save, FoundOK, ClearOK, Holding
    <3>3. UNCHANGED <<docs, sale_kind>>
      BY <1>9 DEF Save
    <3>. SUFFICES ASSUME NEW s \in Sales, processed_orders'[s].invoice # 0
         PROVE  /\ processed_orders'[s].invoice \in DOMAIN docs
                /\ docs[processed_orders'[s].invoice].sale = s
                /\ processed_orders'[s].hold <=> sale_kind[s] = "hold"
                /\ processed_orders'[s].finalize <=> sale_kind[s] # "draftOnly"
                /\ Invoiced(s)
      BY <3>3 DEF RowOK, Invoiced
    <3>4. CASE processed_orders'[s] = processed_orders[s]
      BY <3>4 DEF RowOK
    <3>5. CASE s = SaleOf[d] /\ processed_orders'[s] = RowFor(d)
      <4>1. /\ RowFor(d).invoice = found[d]
            /\ RowFor(d).hold = (sale_kind[SaleOf[d]] = "hold")
            /\ RowFor(d).finalize = (sale_kind[SaleOf[d]] # "draftOnly")
        BY Zenon DEF RowFor
      <4>. QED  BY <3>2, <3>5, <4>1
    <3>. QED  BY <3>1, <3>4, <3>5 DEF TypeOK
  <2>5. ClearOK'
    BY <1>9 DEF TypeOK, ClearOK, Invoiced, Cleared, Save, RowFor
  <2>. QED  BY <2>1, <2>2, <2>3, <2>4, <2>5
<1>10. ASSUME NEW d \in Deliveries, Decide(d) PROVE Core'
  <2>1. TypeOK'
    BY <1>10 DEF TypeOK, Waiting, Working, Ended, Decide
  <2>2. AttemptLeft'
    BY <1>10 DEF TypeOK, AttemptLeft, Waiting, Decide
  <2>3. FoundOK'
    BY <1>10 DEF TypeOK, FoundOK, Holding, Decide
  <2>4. RowOK'
    BY <1>10 DEF TypeOK, RowOK, Invoiced, Decide
  <2>5. ClearOK'
    <3>1. PICK R \in ReadFaults :
             pc' = [pc EXCEPT ![d] =
               IF /\ ~SeparatePaid /\ ~TestConnection /\ ~RunInHolds(R)
                  /\ sale_kind[SaleOf[d]] \notin {"hold", "draftOnly"} THEN "certify" ELSE "leaveAck"]
      BY <1>10 DEF Decide
    <3>2. pc[d] = "decide" /\ sale_kind' = sale_kind
      BY <1>10 DEF Decide
    <3>3. pc'[d] = "certify" => Cleared(SaleOf[d])
      BY <3>1, <3>2 DEF TypeOK, ClearOK, Invoiced, Cleared, AllKinds
    <3>. QED  BY <3>1, <3>2, <3>3 DEF TypeOK, ClearOK, Invoiced, Cleared
  <2>. QED  BY <2>1, <2>2, <2>3, <2>4, <2>5
<1>11. ASSUME NEW d \in Deliveries, Row(d) PROVE Core'
  <2>. DEFINE row == processed_orders[SaleOf[d]]
  <2>0. /\ SaleOf[d] \in Sales
        /\ row \in [invoice : Nat, hold : BOOLEAN, finalize : BOOLEAN]
        /\ UNCHANGED <<attempts, stores, world>>
        /\ noted' \in [Sales -> BOOLEAN]
    BY <1>11 DEF TypeOK, Row, Note
  <2>a. \/ pc' = [pc EXCEPT ![d] = "leaveRetry"] /\ UNCHANGED <<flow, found>>
        \/ /\ pc' = [pc EXCEPT ![d] = "check"]
           /\ flow' = [flow EXCEPT ![d] = "created"]
           /\ UNCHANGED found
        \/ pc' = [pc EXCEPT ![d] = "leaveAck"] /\ UNCHANGED <<flow, found>>
        \/ /\ row.invoice # 0 /\ \E Q \in ReadFaults : ~KeptDraft(row, Q)
           /\ pc' = [pc EXCEPT ![d] = "read"]
           /\ found' = [found EXCEPT ![d] = row.invoice]
           /\ UNCHANGED flow
    BY <1>11 DEF Row, NoRow, Unmatched
  <2>1. TypeOK'
    <3>1. pc' \in [Deliveries -> Waiting \cup Working \cup Ended \cup {"claim", "dlq"}]
      BY <2>a DEF TypeOK, Working
    <3>2. flow' \in [Deliveries -> {"created", "paid"}] /\ found' \in [Deliveries -> Nat]
      BY <2>0, <2>a DEF TypeOK
    <3>. QED  BY <2>0, <3>1, <3>2 DEF TypeOK
  <2>2. AttemptLeft'
    BY <2>0, <2>a DEF TypeOK, AttemptLeft, Waiting
  <2>3. FoundOK'
    <3>1. row.invoice # 0 => /\ row.invoice \in DOMAIN docs
                             /\ docs[row.invoice].sale = SaleOf[d]
      BY <2>0 DEF RowOK
    <3>. HIDE DEF row
    <3>2. docs' = docs /\ \A e \in Deliveries \ {d} : pc'[e] = pc[e] /\ found'[e] = found[e]
      BY <2>0, <2>a DEF TypeOK
    <3>3. \/ pc'[d] \in {"leaveRetry", "check", "leaveAck"}
          \/ row.invoice # 0 /\ pc'[d] = "read" /\ found'[d] = row.invoice
      BY <2>a DEF TypeOK
    <3>. QED  BY <3>1, <3>2, <3>3 DEF FoundOK, Holding
  <2>4. RowOK'
    BY <2>0 DEF RowOK, Invoiced
  <2>5. ClearOK'
    <3>1. row.invoice # 0 /\ (\E Q \in ReadFaults : ~KeptDraft(row, Q)) => Cleared(SaleOf[d])
      BY <2>0 DEF TypeOK, RowOK, KeptDraft, Cleared, Invoiced, AllKinds
    <3>. QED  BY <2>0, <2>a, <3>1 DEF TypeOK, ClearOK, Invoiced, Cleared
  <2>. QED  BY <2>1, <2>2, <2>3, <2>4, <2>5
<1>12. ASSUME NEW d \in Deliveries, Read(d) PROVE Core'
  <2>1. TypeOK'
    BY <1>12 DEF TypeOK, Waiting, Working, Ended, Read
  <2>2. AttemptLeft'
    BY <1>12 DEF TypeOK, AttemptLeft, Waiting, Read
  <2>3. FoundOK'
    BY <1>12 DEF TypeOK, FoundOK, Holding, Read
  <2>4. RowOK'
    BY <1>12 DEF TypeOK, RowOK, Invoiced, Read
  <2>5. ClearOK'
    BY <1>12 DEF TypeOK, ClearOK, Invoiced, Cleared, Read
  <2>. QED  BY <2>1, <2>2, <2>3, <2>4, <2>5
<1>13. ASSUME NEW d \in Deliveries, Certify(d) PROVE Core'
  <2>0. /\ docs \in Documents
        /\ found[d] \in DOMAIN docs
        /\ \/ docs' = [docs EXCEPT ![found[d]].state = "final"]
           \/ docs' = docs
    BY <1>13 DEF TypeOK, FoundOK, Holding, Certify, Documents, Document
  <2>a. /\ docs' \in Documents
        /\ DOMAIN docs' = DOMAIN docs
        /\ \A i \in DOMAIN docs : docs'[i].sale = docs[i].sale
    BY <2>0, StateUpdated DEF DocStates
  <2>1. TypeOK'
    <3>1. docs' \in Seq([sale : Sales, state : DocStates, visible : BOOLEAN])
      BY <2>a DEF Documents, Document
    <3>. QED  BY <1>13, <3>1 DEF TypeOK, Working, Certify, Note
  <2>2. AttemptLeft'
    BY <1>13 DEF TypeOK, AttemptLeft, Waiting, Certify
  <2>3. FoundOK'
    BY SMTT(30), <1>13, <2>a DEF TypeOK, FoundOK, Holding, Certify
  <2>4. RowOK'
    BY <1>13, <2>a DEF TypeOK, RowOK, Invoiced, Certify
  <2>5. ClearOK'
    BY <1>13 DEF TypeOK, ClearOK, Invoiced, Cleared, Certify
  <2>. QED  BY <2>1, <2>2, <2>3, <2>4, <2>5
<1>14. ASSUME NEW d \in Deliveries, Fail(d) PROVE Core'
  <2>1. TypeOK'
    BY <1>14 DEF TypeOK, Waiting, Working, Ended, Fail, Note
  <2>2. AttemptLeft'
    BY <1>14 DEF TypeOK, AttemptLeft, Waiting, Fail, Note
  <2>3. FoundOK'
    BY <1>14 DEF TypeOK, FoundOK, Holding, Fail, Note
  <2>4. RowOK'
    BY <1>14 DEF TypeOK, RowOK, Invoiced, Fail, Note
  <2>5. ClearOK'
    BY <1>14 DEF TypeOK, ClearOK, Invoiced, Cleared, Fail, Note
  <2>. QED  BY <2>1, <2>2, <2>3, <2>4, <2>5
<1>15. ASSUME NEW d \in Deliveries, Crash(d) PROVE Core'
  <2>1. TypeOK'
    BY <1>15 DEF TypeOK, Waiting, Working, Ended, Crash, Bounce, Inside
  <2>2. AttemptLeft'
    BY <1>15 DEF TypeOK, AttemptLeft, Waiting, Crash, Bounce, Inside
  <2>3. FoundOK'
    BY <1>15 DEF TypeOK, FoundOK, Holding, Crash, Bounce, Inside
  <2>4. RowOK'
    BY <1>15 DEF TypeOK, RowOK, Invoiced, Crash, Bounce, Inside
  <2>5. ClearOK'
    BY <1>15 DEF TypeOK, ClearOK, Invoiced, Cleared, Crash, Bounce, Inside
  <2>. QED  BY <2>1, <2>2, <2>3, <2>4, <2>5
<1>16. ASSUME NEW d \in Deliveries, DeadLetter(d) PROVE Core'
  <2>1. TypeOK'
    BY <1>16 DEF TypeOK, Waiting, Working, Ended, DeadLetter, Note
  <2>2. AttemptLeft'
    BY <1>16 DEF TypeOK, AttemptLeft, Waiting, DeadLetter, Note
  <2>3. FoundOK'
    BY <1>16 DEF TypeOK, FoundOK, Holding, DeadLetter, Note
  <2>4. RowOK'
    BY <1>16 DEF TypeOK, RowOK, Invoiced, DeadLetter, Note
  <2>5. ClearOK'
    BY <1>16 DEF TypeOK, ClearOK, Invoiced, Cleared, DeadLetter, Note
  <2>. QED  BY <2>1, <2>2, <2>3, <2>4, <2>5
<1>17. ASSUME NEW s \in Sales, Age(s) PROVE Core'
  <2>0. \A e \in Deliveries :
           \/ pc'[e] = pc[e]
           \/ pc[e] = "delayed" /\ pc'[e] = "queued"
    BY <1>17 DEF Age, Wake
  <2>1. TypeOK'
    BY <1>17 DEF TypeOK, Age, Wake, Waiting
  <2>2. AttemptLeft'
    BY <1>17, <2>0 DEF AttemptLeft, Waiting, Age
  <2>3. FoundOK'
    BY <1>17, <2>0 DEF FoundOK, Holding, Age
  <2>4. RowOK'
    BY <1>17 DEF RowOK, Invoiced, Age
  <2>5. ClearOK'
    BY <1>17, <2>0 DEF ClearOK, Invoiced, Cleared, Age
  <2>. QED  BY <2>1, <2>2, <2>3, <2>4, <2>5
<1>18. ASSUME NEW i \in DOMAIN docs, Surface(i) PROVE Core'
  <2>0. docs \in Documents
    BY DEF TypeOK, Documents, Document
  <2>a. /\ docs' \in Documents
        /\ DOMAIN docs' = DOMAIN docs
        /\ \A j \in DOMAIN docs : docs'[j].sale = docs[j].sale
    BY <1>18, <2>0, VisibleUpdated DEF Surface
  <2>1. TypeOK'
    <3>1. docs' \in Seq([sale : Sales, state : DocStates, visible : BOOLEAN])
      BY <2>a DEF Documents, Document
    <3>. QED  BY <1>18, <3>1 DEF TypeOK, Surface
  <2>2. AttemptLeft'
    BY <1>18 DEF AttemptLeft, Surface
  <2>3. FoundOK'
    BY <1>18, <2>a DEF FoundOK, Holding, Surface
  <2>4. RowOK'
    BY <1>18, <2>a DEF RowOK, Invoiced, Surface
  <2>5. ClearOK'
    BY <1>18 DEF ClearOK, Invoiced, Cleared, Surface
  <2>. QED  BY <2>1, <2>2, <2>3, <2>4, <2>5
<1>19. ASSUME ConfirmRunIn PROVE Core'
  BY <1>19 DEF ConfirmRunIn, TypeOK, AttemptLeft, FoundOK, RowOK, ClearOK, Invoiced, Cleared
<1>21. ASSUME WithdrawRunIn PROVE Core'
  BY <1>21 DEF WithdrawRunIn, TypeOK, AttemptLeft, FoundOK, RowOK, ClearOK, Invoiced, Cleared
<1>20. ASSUME UNCHANGED vars PROVE Core'
  BY <1>20 DEF vars, TypeOK, AttemptLeft, FoundOK, RowOK, ClearOK, Invoiced, Cleared
<1>. QED
  BY <1>1, <1>2, <1>3, <1>4, <1>5, <1>6, <1>7, <1>8, <1>9, <1>10, <1>11, <1>12,
     <1>13, <1>14, <1>15, <1>16, <1>17, <1>18, <1>19, <1>20, <1>21 DEF Next, Step

\* The state is well typed and every local names a document of its own sale.
THEOREM CoreInvariant == Spec => []Core
BY InitCore, CoreStep, PTL DEF Spec

\* Every reachable state has its type, for all constants: in particular no
\* message is handed over more often than the queue's max_retries allow.
THEOREM TypeCorrect == Spec => []TypeOK
BY CoreInvariant, PTL DEF Core

-----------------------------------------------------------------------------
(* Certificates.                                                           *)

\* Only createDraft, finalize and the index touch the documents.
LEMMA DocsStep ==
    [Next]_vars => \/ UNCHANGED docs
                   \/ \E d \in Deliveries : Create(d)
                   \/ \E d \in Deliveries : Certify(d)
                   \/ \E i \in DOMAIN docs : Surface(i)
BY DEF vars, stores, world, Next, Step, Age, ConfirmRunIn, WithdrawRunIn,
      Receive, StopAtGate, Claim, ClaimRefused, Release, Check, Lookup, Save, Decide,
      Row, Read, Fail, Crash, DeadLetter

\* Who gets past the run-in was told it did not hold, or held no more.
LEMMA LiftedStep == Core /\ LiftedOK /\ [Next]_vars => LiftedOK'
<1>. SUFFICES ASSUME Core, LiftedOK, [Next]_vars, RunIn PROVE LiftedOK'
  BY DEF LiftedOK
<1>. USE ConstantsOK DEF Core, Goto, stores, world, Away, Inside, Working
<1>0. pc \in [Deliveries -> Waiting \cup Working \cup Ended \cup {"claim", "dlq"}]
      /\ lifted \subseteq Deliveries
  BY DEF TypeOK
<1>1. ASSUME NEW d \in Deliveries, Receive(d) PROVE LiftedOK'
  BY <1>0, <1>1 DEF LiftedOK, Receive
<1>2. ASSUME NEW d \in Deliveries, StopAtGate(d) \/ ClaimRefused(d) \/ Crash(d) PROVE LiftedOK'
  <2>1. /\ pc'[d] \in {"acked", "delayed", "dlq", "queued"} /\ lifted' = lifted \ {d}
        /\ run_in' = run_in /\ \A e \in Deliveries \ {d} : pc'[e] = pc[e]
    BY <1>0, <1>2 DEF StopAtGate, ClaimRefused, Crash, Bounce
  <2>. QED  BY <2>1 DEF LiftedOK
<1>3. ASSUME NEW d \in Deliveries, Claim(d) \/ Check(d) \/ Lookup(d) \/ Create(d) \/ Save(d) \/ Fail(d)
                                    \/ DeadLetter(d)
      PROVE  LiftedOK'
  <2>. DEFINE Moves == /\ UNCHANGED <<run_in, lifted>>
                       /\ \A e \in Deliveries \ {d} : pc'[e] = pc[e]
                       /\ pc'[d] \notin {"claim", "read", "certify"}
                       /\ pc[d] = "claim" \/ Inside(d) \/ pc'[d] = "dead"
  <2>1. CASE Claim(d) \/ Check(d)
    <3>. Moves
      BY <1>0, <2>1 DEF Claim, Check
    <3>. QED  BY DEF LiftedOK
  <2>2. CASE Lookup(d) \/ Create(d)
    <3>. Moves
      BY <1>0, <2>2 DEF Lookup, Create
    <3>. QED  BY DEF LiftedOK
  <2>3. CASE Save(d) \/ Fail(d) \/ DeadLetter(d)
    <3>. Moves
      BY <1>0, <2>3 DEF Save, Fail, DeadLetter
    <3>. QED  BY DEF LiftedOK
  <2>. QED  BY <1>3, <2>1, <2>2, <2>3
<1>4. ASSUME NEW d \in Deliveries, Release(d) PROVE LiftedOK'
  <2>1. \A e \in Deliveries : pc'[e] = pc[e] \/ pc'[e] \in {"acked", "queued", "dlq"}
    BY <1>0, <1>4 DEF Release, Wake, Bounce
  <2>2. run_in' = run_in /\ lifted' = lifted \ {d} /\ pc'[d] \in {"acked", "queued", "dlq"}
    BY <1>0, <1>4 DEF Release, Wake, Bounce
  <2>. QED  BY <2>1, <2>2 DEF LiftedOK
<1>5. ASSUME NEW d \in Deliveries, Decide(d) \/ Row(d) \/ Read(d) \/ Certify(d) PROVE LiftedOK'
  <2>1. /\ UNCHANGED <<run_in, lifted>> /\ Inside(d)
        /\ \A e \in Deliveries \ {d} : pc'[e] = pc[e]
    BY <1>0, <1>5 DEF Decide, Row, Read, Certify
  <2>2. pc'[d] # "claim"
    BY <1>0, <1>5 DEF Decide, Row, Read, Certify, Unmatched
  <2>3. pc'[d] \in {"read", "certify"} => ~run_in \/ pc[d] \in {"read", "certify"}
    <3>1. CASE Decide(d)
      BY <1>0, <3>1 DEF Decide, RunInHolds
    <3>2. CASE Row(d)
      <4>1. PICK R, Q \in ReadFaults :
              \/ pc' = [pc EXCEPT ![d] = "leaveRetry"] \/ pc' = [pc EXCEPT ![d] = "check"]
              \/ pc' = [pc EXCEPT ![d] = "leaveAck"]
              \/ ~KeptDraft(IF "d1" \in R THEN NoRow ELSE processed_orders[SaleOf[d]], Q)
        BY <3>2 DEF Row, Unmatched
      <4>. QED  BY <1>0, <4>1 DEF KeptDraft, RunInHolds
    <3>3. CASE Read(d) \/ Certify(d)
      BY <3>3 DEF Read, Certify
    <3>. QED  BY <1>5, <3>1, <3>2, <3>3
  <2>. QED  BY <2>1, <2>2, <2>3 DEF LiftedOK
<1>6. ASSUME NEW s \in Sales, Age(s) PROVE LiftedOK'
  <2>1. \A e \in Deliveries : pc'[e] = pc[e] \/ pc'[e] = "queued"
    BY <1>0, <1>6 DEF Age, Wake
  <2>2. UNCHANGED <<run_in, lifted>>
    BY <1>6 DEF Age
  <2>. QED  BY <2>1, <2>2 DEF LiftedOK
<1>7. ASSUME ConfirmRunIn PROVE LiftedOK'
  BY <1>7 DEF LiftedOK, ConfirmRunIn
<1>8. ASSUME WithdrawRunIn PROVE LiftedOK'
  BY <1>8 DEF LiftedOK, WithdrawRunIn
<1>9. ASSUME UNCHANGED vars \/ \E i \in DOMAIN docs : Surface(i) PROVE LiftedOK'
  BY <1>9 DEF LiftedOK, vars, Surface
<1>. QED
  BY <1>1, <1>2, <1>3, <1>4, <1>5, <1>6, <1>7, <1>8, <1>9 DEF Next, Step

\* On both branches, claimed or not, whatever fails, dies or is redelivered, a document
\* becomes fiscal only when nothing holds it back: not its hold reason, its route or its
\* connection's test mode, nor a run-in that held through the whole of the delivery's
\* work.  The answer may change at any time, back to "no" as well.
THEOREM Clearance == Spec => CertifiedOnlyWhenCleared
<1>. DEFINE Safe == \A i \in DOMAIN docs :
                       docs[i].state = "draft" /\ docs'[i].state = "final"
                       => /\ sale_kind[docs[i].sale] = "clean"
                          /\ ~TestConnection
                          /\ RunIn => \E d \in lifted : pc[d] = "certify" /\ found[d] = i
<1>1. Core /\ LiftedOK /\ [Next]_vars => Safe
  <2>. SUFFICES ASSUME Core, LiftedOK, [Next]_vars PROVE Safe
    OBVIOUS
  <2>0. docs \in Documents
    BY DEF Core, TypeOK, Documents, Document
  <2>1. CASE UNCHANGED docs
    BY <2>1
  <2>2. ASSUME NEW d \in Deliveries, Create(d) PROVE Safe
    <3>1. SaleOf[d] \in Sales /\ docs' = Append(docs, NewDocument(SaleOf[d]))
      BY <2>2, ConstantsOK DEF Create
    <3>. QED  BY <2>0, <3>1, DraftAppended
  <2>3. ASSUME NEW d \in Deliveries, Certify(d) PROVE Safe
    <3>1. /\ found[d] \in DOMAIN docs
          /\ docs[found[d]].sale = SaleOf[d]
          /\ Cleared(SaleOf[d])
          /\ pc[d] = "certify" /\ (RunIn => d \in lifted)
          /\ \/ docs' = [docs EXCEPT ![found[d]].state = "final"]
             \/ docs' = docs
      BY <2>3 DEF Core, Certify, FoundOK, ClearOK, LiftedOK, Holding
    <3>2. \A i \in DOMAIN docs : docs[i].state = "draft" /\ docs'[i].state = "final" => i = found[d]
      BY <2>0, <3>1, StateUpdated DEF DocStates
    <3>. QED  BY <3>1, <3>2 DEF Cleared
  <2>4. ASSUME NEW i \in DOMAIN docs, Surface(i) PROVE Safe
    <3>1. docs' = [docs EXCEPT ![i].visible = TRUE]
      BY <2>4 DEF Surface
    <3>. QED  BY <2>0, <3>1, VisibleUpdated
  <2>. QED  BY <2>1, <2>2, <2>3, <2>4, DocsStep
<1>2. Init => LiftedOK
  BY DEF Init, LiftedOK, Inside, Working
<1>3. Core /\ LiftedOK /\ [Next]_vars => LiftedOK'
  BY LiftedStep
<1>. QED
  BY <1>1, <1>2, <1>3, CoreInvariant, PTL DEF Spec, CertifiedOnlyWhenCleared

-----------------------------------------------------------------------------
(* The claim.                                                              *)

LEMMA InitExclusive == Init => Exclusive
BY ConstantsOK DEF Init, Exclusive, ClaimExclusion, Inside, Working

LEMMA ExclusiveStep ==
    ASSUME Claimed, ~ClaimFaults, ~SlowHolders
    PROVE  Core /\ Exclusive /\ [Next]_vars => Exclusive'
<1>. SUFFICES ASSUME Core, Exclusive, [Next]_vars PROVE Exclusive'
  OBVIOUS
<1>0. /\ pc \in [Deliveries -> Waiting \cup Working \cup Ended \cup {"claim", "dlq"}]
      /\ order_claims \in [Sales -> {"none", "fresh", "stale"}]
      /\ SaleOf \in [Deliveries -> Sales]
  BY ConstantsOK DEF Core, TypeOK
\* Nobody enters the claimed region but by claiming.
<1>1. ASSUME UNCHANGED order_claims,
             \A e \in Deliveries : pc'[e] \in Working => pc[e] \in Working
      PROVE  Exclusive'
  BY <1>1 DEF Exclusive, ClaimExclusion, Inside
<1>2. ASSUME NEW d \in Deliveries, Claim(d) PROVE Exclusive'
  <2>1. /\ order_claims[SaleOf[d]] # "fresh"
        /\ order_claims' = [order_claims EXCEPT ![SaleOf[d]] = "fresh"]
        /\ pc' = [pc EXCEPT ![d] = "check"]
    BY <1>2 DEF Claim, Goto
  <2>2. \A e \in Deliveries : SaleOf[e] = SaleOf[d] => ~Inside(e)
    BY <2>1 DEF Exclusive
  <2>. QED  BY <1>0, <2>1, <2>2 DEF Exclusive, ClaimExclusion, Inside, Working
<1>3. ASSUME NEW d \in Deliveries, Release(d) PROVE Exclusive'
  <2>1. /\ Inside(d)
        /\ order_claims' = [order_claims EXCEPT ![SaleOf[d]] = "none"]
        /\ \A e \in Deliveries : pc'[e] \in Working => e # d /\ pc[e] \in Working
    BY <1>0, <1>3 DEF Release, Wake, Bounce, Inside, Working
  <2>2. \A e \in Deliveries : e # d /\ Inside(e) => SaleOf[e] # SaleOf[d]
    BY <2>1 DEF Exclusive, ClaimExclusion
  <2>. QED  BY <1>0, <2>1, <2>2 DEF Exclusive, ClaimExclusion, Inside
<1>4. ASSUME NEW s \in Sales, Age(s) PROVE Exclusive'
  <2>1. /\ ~IsHeld(s)
        /\ order_claims' = [order_claims EXCEPT ![s] = "stale"]
        /\ \A e \in Deliveries : pc'[e] \in Working => pc[e] \in Working
    BY <1>0, <1>4 DEF Age, Wake, Working
  <2>. QED  BY <1>0, <2>1 DEF Exclusive, ClaimExclusion, Inside, IsHeld
<1>5. ASSUME NEW d \in Deliveries,
             \/ Receive(d) \/ StopAtGate(d) \/ ClaimRefused(d) \/ Check(d)
             \/ Lookup(d) \/ Create(d) \/ Save(d) \/ Decide(d) \/ Row(d)
             \/ Read(d) \/ Certify(d) \/ Fail(d) \/ Crash(d) \/ DeadLetter(d)
      PROVE  Exclusive'
  <2>1. UNCHANGED order_claims
    BY <1>5 DEF stores, Receive, StopAtGate, ClaimRefused, Check, Lookup, Create, Save,
          Decide, Row, Read, Certify, Fail, Crash, DeadLetter
  <2>2. \A e \in Deliveries : pc'[e] \in Working => pc[e] \in Working
    BY <1>0, <1>5 DEF Goto, Working, Receive, StopAtGate, ClaimRefused, Check, Lookup,
          Create, Save, Decide, Row, Unmatched, Read, Certify, Fail, Crash, Bounce, DeadLetter
  <2>. QED  BY <2>1, <2>2, <1>1
<1>6. ASSUME NEW i \in DOMAIN docs, Surface(i) PROVE Exclusive'
  BY <1>1, <1>6 DEF Surface
<1>7. ASSUME ConfirmRunIn \/ WithdrawRunIn PROVE Exclusive'
  BY <1>1, <1>7 DEF ConfirmRunIn, WithdrawRunIn, stores
<1>8. ASSUME UNCHANGED vars PROVE Exclusive'
  BY <1>1, <1>8 DEF vars
<1>. QED
  BY <1>2, <1>3, <1>4, <1>5, <1>6, <1>7, <1>8 DEF Next, Step

\* claimOrder is a mutual exclusion lock on the sale as long as the claim table
\* answers and a claim outlives the work done under it, whatever crashes.
THEOREM Exclusion ==
    ASSUME Claimed, ~ClaimFaults, ~SlowHolders
    PROVE  Spec => []ClaimExclusion
<1>1. Init => Core /\ Exclusive
  BY InitCore, InitExclusive
<1>2. Core /\ Exclusive /\ [Next]_vars => Core' /\ Exclusive'
  BY CoreStep, ExclusiveStep
<1>3. Exclusive => ClaimExclusion
  BY DEF Exclusive
<1>. QED
  BY <1>1, <1>2, <1>3, PTL DEF Spec

-----------------------------------------------------------------------------
(* One document.                                                           *)

LEMMA InitLedgered == Init => Ledgered
BY ConstantsOK DEF Init, Ledgered, OneDocument

\* After saveProcessedInvoice no idempotency read of the sale can miss it.
LEMMA SavedIsKnown ==
    ASSUME Tolerated, Core, NEW d \in Deliveries, Save(d)
    PROVE  /\ Known(SaleOf[d])'
           /\ \A s \in Sales : Known(s) => Known(s)'
<1>1. PICK W \in SaveFaults :
         /\ processed_orders' = IF "d1" \in W THEN processed_orders
                                ELSE [processed_orders EXCEPT ![SaleOf[d]] = RowFor(d)]
         /\ kv' = IF "kv" \in W THEN kv ELSE [kv EXCEPT ![SaleOf[d]] = TRUE]
  BY DEF Save
<1>2. \A R \in ReadFaults : "d1" \notin W \cup R \/ "kv" \notin W \cup R
  <2>. SUFFICES ASSUME NEW R \in ReadFaults, {"d1", "kv"} \subseteq W \cup R PROVE FALSE
    OBVIOUS
  <2>1. W \subseteq Stores /\ R \subseteq Stores
    BY ConstantsOK
  <2>2. W \cup R = Stores
    BY <2>1 DEF Stores
  <2>. QED  BY <2>2 DEF Tolerated
<1>3. RowFor(d).invoice # 0
  BY DEF Core, TypeOK, FoundOK, Holding, Save, RowFor
<1>4. SaleOf[d] \in Sales
  BY ConstantsOK
<1>. QED
  BY <1>1, <1>2, <1>3, <1>4 DEF Core, TypeOK, Known, Recorded

\* A step inside one delivery that leaves the stores and documents alone.
LEMMA QuietStep ==
    ASSUME Core, Exclusive, \A i \in DOMAIN docs : Findable(i),
           NEW d \in Deliveries, NEW x,
           UNCHANGED stores, pc' = [pc EXCEPT ![d] = x],
           \/ pc[d] # "save" /\ (x \in Working => Inside(d))
           \/ Inside(d) /\ x \notin Working
    PROVE  \A i \in DOMAIN docs : Findable(i)'
<1>. SUFFICES ASSUME NEW i \in DOMAIN docs PROVE Findable(i)'
  OBVIOUS
<1>. DEFINE s == docs[i].sale
<1>0. /\ \A e \in Deliveries : pc'[e] = IF e = d THEN x ELSE pc[e]
      /\ UNCHANGED <<docs, order_claims, processed_orders, kv>>
  BY DEF Core, TypeOK, stores
<1>1. CASE docs[i].visible \/ Known(s)
  BY <1>0, <1>1 DEF Findable, Known, Recorded
<1>2. ASSUME NEW e \in Deliveries, pc[e] = "save", SaleOf[e] = s PROVE Findable(i)'
  <2>1. CASE e # d
    BY <1>0, <1>2, <2>1 DEF Findable
  <2>2. CASE e = d
    <3>1. order_claims[s] = "fresh" /\ x \notin Working
      BY <1>2, <2>2 DEF Exclusive, Inside, Working
    <3>2. \A f \in Deliveries : f # d /\ SaleOf[f] = s => ~Inside(f)
      BY <1>2, <2>2 DEF Exclusive, ClaimExclusion, Inside, Working
    <3>. QED  BY <1>0, <3>1, <3>2 DEF Findable, IsHeld, Inside
  <2>. QED  BY <2>1, <2>2
<1>3. CASE order_claims[s] = "fresh" /\ ~IsHeld(s)
  BY <1>0, <1>3 DEF Findable, IsHeld, Inside, Working
<1>. QED
  BY <1>1, <1>2, <1>3 DEF Findable

LEMMA LedgeredStep ==
    ASSUME Tolerated
    PROVE  Core /\ Exclusive /\ Ledgered /\ [Next]_vars => Ledgered'
<1>. SUFFICES ASSUME Core, Exclusive, Ledgered, [Next]_vars PROVE Ledgered'
  OBVIOUS
<1>0. /\ pc \in [Deliveries -> Waiting \cup Working \cup Ended \cup {"claim", "dlq"}]
      /\ order_claims \in [Sales -> {"none", "fresh", "stale"}]
      /\ SaleOf \in [Deliveries -> Sales]
      /\ docs \in Documents
      /\ \A i \in DOMAIN docs : docs[i].sale \in Sales /\ Findable(i)
  <2>1. docs \in Documents
    BY DEF Core, TypeOK, Documents, Document
  <2>2. \A i \in DOMAIN docs : docs[i] \in Document
    BY <2>1 DEF Documents
  <2>. QED  BY ConstantsOK, <2>1, <2>2 DEF Core, TypeOK, Ledgered, Document
\* While a delivery works, its own sale's documents are found by its reads, or
\* it is the one that saves.
<1>a. ASSUME NEW d \in Deliveries, Inside(d), pc[d] # "save",
             NEW i \in DOMAIN docs, docs[i].sale = SaleOf[d]
      PROVE  docs[i].visible \/ Known(SaleOf[d])
  BY <1>0, <1>a DEF Findable, Exclusive, ClaimExclusion, IsHeld, Inside, Working
<1>1. ASSUME NEW d \in Deliveries, Claim(d) PROVE Ledgered'
  <2>1. /\ order_claims[SaleOf[d]] # "fresh"
        /\ order_claims' = [order_claims EXCEPT ![SaleOf[d]] = "fresh"]
        /\ pc' = [pc EXCEPT ![d] = "check"]
        /\ pc[d] = "claim"
        /\ UNCHANGED <<docs, processed_orders, kv>>
    BY <1>1 DEF Tolerated, Claim, Goto
  <2>2. ASSUME NEW i \in DOMAIN docs PROVE Findable(i)'
    <3>1. CASE docs[i].sale = SaleOf[d]
      <4>1. docs[i].visible \/ Known(docs[i].sale)
        BY <1>0, <2>1, <3>1 DEF Findable, Exclusive, Inside, Working
      <4>. QED  BY <2>1, <4>1 DEF Findable, Known, Recorded
    <3>2. CASE docs[i].sale # SaleOf[d]
      BY <1>0, <2>1, <3>2 DEF Findable, Known, Recorded, IsHeld, Inside
    <3>. QED  BY <3>1, <3>2
  <2>. QED  BY <1>0, <2>1, <2>2 DEF Ledgered, OneDocument
<1>2. ASSUME NEW d \in Deliveries, Release(d) PROVE Ledgered'
  <2>1. /\ Inside(d) /\ pc[d] # "save"
        /\ order_claims' = [order_claims EXCEPT ![SaleOf[d]] = "none"]
        /\ UNCHANGED <<docs, processed_orders, kv>>
        /\ \A e \in Deliveries : \/ e # d /\ pc'[e] = pc[e]
                                 \/ pc[e] \notin Working \ {"leaveAck", "leaveRetry"}
                                    /\ pc'[e] \in {"queued", "acked", "dlq"}
    BY <1>0, <1>2 DEF Tolerated, Release, Wake, Bounce, Inside, Working
  <2>2. ASSUME NEW i \in DOMAIN docs PROVE Findable(i)'
    <3>1. CASE docs[i].sale = SaleOf[d]
      BY <1>a, <2>1, <3>1 DEF Findable, Known, Recorded
    <3>2. CASE docs[i].sale # SaleOf[d]
      BY <1>0, <2>1, <3>2 DEF Findable, Known, Recorded, IsHeld, Inside, Working
    <3>. QED  BY <3>1, <3>2
  <2>. QED  BY <1>0, <2>1, <2>2 DEF Ledgered, OneDocument
<1>3. ASSUME NEW d \in Deliveries, Save(d) PROVE Ledgered'
  <2>1. /\ pc[d] = "save" /\ pc' = [pc EXCEPT ![d] = "decide"]
        /\ UNCHANGED <<docs, order_claims>>
    BY <1>3 DEF Save, Goto
  <2>2. ASSUME NEW i \in DOMAIN docs PROVE Findable(i)'
    <3>1. CASE docs[i].sale = SaleOf[d]
      BY <1>3, <2>1, <3>1, SavedIsKnown DEF Findable
    <3>2. CASE docs[i].sale # SaleOf[d]
      <4>1. Known(docs[i].sale) => Known(docs[i].sale)'
        <5>1. \A s \in Sales : Known(s) => Known(s)'
          BY <1>3, SavedIsKnown
        <5>. QED  BY <1>0, <2>1, <5>1 DEF Known, Recorded
      <4>. QED  BY <1>0, <2>1, <3>2, <4>1 DEF Findable, IsHeld, Inside
    <3>. QED  BY <3>1, <3>2
  <2>. QED  BY <1>0, <2>1, <2>2 DEF Ledgered, OneDocument
<1>4. ASSUME NEW d \in Deliveries, Create(d) PROVE Ledgered'
  <2>. DEFINE s == SaleOf[d]
  <2>1. /\ pc[d] = "create"
        /\ docs' = Append(docs, NewDocument(s))
        /\ UNCHANGED <<order_claims, processed_orders, kv>>
        /\ \/ pc' = [pc EXCEPT ![d] = "save"]
           \/ LostAnswers /\ pc' = [pc EXCEPT ![d] = "leaveRetry"]
    BY <1>4 DEF Create, Goto
  <2>2. PICK n : /\ n \notin DOMAIN docs
                 /\ DOMAIN docs' = DOMAIN docs \cup {n}
                 /\ \A i \in DOMAIN docs : docs'[i] = docs[i]
                 /\ docs'[n].sale = s
                 /\ docs'[n].visible = (IndexLag = "none")
    <3>1. s \in Sales
      BY <1>0
    <3>2. /\ NewDocument(s).sale = s
          /\ NewDocument(s).visible = (IndexLag = "none")
      BY Zenon DEF NewDocument
    <3>. QED  BY <1>0, <2>1, <3>1, <3>2, DraftAppended
  <2>3. \A i \in DOMAIN docs : docs[i].sale # s
    BY <2>1 DEF Ledgered
  <2>4. ASSUME NEW i \in DOMAIN docs PROVE Findable(i)'
    <3>. DEFINE t == docs[i].sale
    <3>1. docs'[i] = docs[i] /\ t # s
      BY <2>2, <2>3
    <3>2. CASE docs[i].visible \/ Known(t)
      BY <2>1, <3>1, <3>2 DEF Findable, Known, Recorded
    <3>3. ASSUME NEW e \in Deliveries, pc[e] = "save", SaleOf[e] = t PROVE Findable(i)'
      <4>1. pc'[e] = "save"
        BY <1>0, <2>1, <3>1, <3>3
      <4>. QED  BY <3>1, <3>3, <4>1 DEF Findable
    <3>4. CASE order_claims[t] = "fresh" /\ ~IsHeld(t)
      <4>1. ~IsHeld(t)'
        BY <1>0, <2>1, <3>1, <3>4 DEF IsHeld, Inside
      <4>. QED  BY <2>1, <3>1, <3>4, <4>1 DEF Findable, IsHeld, Inside
    <3>. QED  BY <1>0, <3>2, <3>3, <3>4 DEF Findable
  <2>5. Findable(n)'
    <3>1. CASE LostAnswers
      BY <2>2, <3>1 DEF Findable, Tolerated
    <3>2. CASE pc' = [pc EXCEPT ![d] = "save"]
      <4>1. pc'[d] = "save"
        BY <1>0, <3>2
      <4>. QED  BY <2>2, <4>1 DEF Findable
    <3>. QED  BY <2>1, <3>1, <3>2
  <2>6. \A e \in Deliveries :
           pc'[e] \in {"lookup", "create"} => pc'[e] = pc[e] /\ SaleOf[e] # s
    <3>1. \A e \in Deliveries :
             pc'[e] \in {"lookup", "create"} => e # d /\ pc'[e] = pc[e]
      BY <1>0, <2>1
    <3>. QED  BY <2>1, <3>1 DEF Exclusive, ClaimExclusion, Inside, Working
  <2>7. (\A i \in DOMAIN docs : Findable(i))'
    BY <2>2, <2>4, <2>5
  <2>8. ASSUME NEW e \in Deliveries
        PROVE  /\ pc'[e] = "lookup" => \A i \in DOMAIN docs' :
                                          docs'[i].sale = SaleOf[e] => docs'[i].visible
               /\ pc'[e] = "create" => \A i \in DOMAIN docs' : docs'[i].sale # SaleOf[e]
    BY <2>2, <2>6 DEF Ledgered
  <2>9. OneDocument'
    BY <2>2, <2>3 DEF Ledgered, OneDocument
  <2>. QED  BY <2>7, <2>8, <2>9 DEF Ledgered
<1>5. ASSUME NEW d \in Deliveries, Check(d) PROVE Ledgered'
  <2>1. PICK x \in {"lookup", "row", "leaveAck"} :
           /\ pc[d] = "check" /\ UNCHANGED stores /\ pc' = [pc EXCEPT ![d] = x]
           /\ x = "lookup" => ~Known(SaleOf[d])
    BY <1>5 DEF Check, Goto, Known
  <2>2. \A i \in DOMAIN docs : Findable(i)'
    BY <1>0, <2>1, QuietStep DEF Inside, Working
  <2>3. x = "lookup" => \A i \in DOMAIN docs : docs[i].sale = SaleOf[d] => docs[i].visible
    BY <1>a, <2>1 DEF Inside, Working
  <2>. QED  BY <1>0, <2>1, <2>2, <2>3 DEF Ledgered, OneDocument, stores
<1>6. ASSUME NEW d \in Deliveries, Lookup(d) PROVE Ledgered'
  <2>1. PICK x \in {"create", "leaveAck"} :
           /\ pc[d] = "lookup" /\ UNCHANGED stores /\ pc' = [pc EXCEPT ![d] = x]
           /\ x = "create" => Visible(SaleOf[d]) = {}
    BY <1>6 DEF Lookup, Goto
  <2>2. \A i \in DOMAIN docs : Findable(i)'
    BY <1>0, <2>1, QuietStep DEF Inside, Working
  <2>3. x = "create" => \A i \in DOMAIN docs : docs[i].sale # SaleOf[d]
    BY <2>1 DEF Ledgered, Visible, DocsOf
  <2>. QED  BY <1>0, <2>1, <2>2, <2>3 DEF Ledgered, OneDocument, stores
<1>7. ASSUME NEW d \in Deliveries,
             \/ Receive(d) \/ StopAtGate(d) \/ ClaimRefused(d) \/ Decide(d) \/ Row(d)
             \/ Read(d) \/ Fail(d) \/ Crash(d) \/ DeadLetter(d)
      PROVE  Ledgered'
  <2>1. PICK x \in Waiting \cup Working \cup Ended \cup {"claim", "dlq"} :
           /\ UNCHANGED stores /\ pc' = [pc EXCEPT ![d] = x]
           /\ x \notin {"lookup", "create"}
           /\ \/ pc[d] # "save" /\ (x \in Working => Inside(d))
              \/ Inside(d) /\ x \notin Working
    BY <1>0, <1>7 DEF Goto, Inside, Waiting, Working, Ended, Receive, StopAtGate,
          ClaimRefused, Decide, Row, Unmatched, Read, Fail, Crash, Bounce, DeadLetter
  <2>2. \A i \in DOMAIN docs : Findable(i)'
    BY <1>0, <2>1, QuietStep
  <2>. QED  BY <1>0, <2>1, <2>2 DEF Ledgered, OneDocument, stores
<1>8. ASSUME NEW d \in Deliveries, Certify(d) PROVE Ledgered'
  <2>1. /\ pc[d] = "certify"
        /\ found[d] \in DOMAIN docs
        /\ UNCHANGED <<order_claims, processed_orders, kv>>
        /\ docs' = [docs EXCEPT ![found[d]].state = "final"] \/ docs' = docs
        /\ \E x \in {"leaveAck", "leaveRetry"} : pc' = [pc EXCEPT ![d] = x]
    BY <1>8 DEF Certify, Goto, Core, FoundOK, Holding
  <2>2. /\ DOMAIN docs' = DOMAIN docs
        /\ \A i \in DOMAIN docs : /\ docs'[i].sale = docs[i].sale
                                  /\ docs'[i].visible = docs[i].visible
    BY <1>0, <2>1, StateUpdated DEF DocStates
  <2>3. ASSUME NEW i \in DOMAIN docs PROVE Findable(i)'
    BY <1>0, <2>1, <2>2 DEF Findable, Known, Recorded, IsHeld, Inside, Working
  <2>. QED  BY <1>0, <2>1, <2>2, <2>3 DEF Ledgered, OneDocument
<1>9. ASSUME NEW s \in Sales, Age(s) PROVE Ledgered'
  <2>1. /\ Visible(s) = DocsOf(s)
        /\ order_claims' = [order_claims EXCEPT ![s] = "stale"]
        /\ UNCHANGED <<docs, processed_orders, kv>>
        /\ \A e \in Deliveries : \/ pc'[e] = pc[e]
                                 \/ pc[e] = "delayed" /\ pc'[e] = "queued"
    BY <1>0, <1>9 DEF Tolerated, Age, Wake
  <2>2. ASSUME NEW i \in DOMAIN docs PROVE Findable(i)'
    <3>1. CASE docs[i].sale = s
      BY <2>1, <3>1 DEF Findable, Visible, DocsOf
    <3>2. CASE docs[i].sale # s
      BY <1>0, <2>1, <3>2 DEF Findable, Known, Recorded, IsHeld, Inside, Working
    <3>. QED  BY <3>1, <3>2
  <2>. QED  BY <1>0, <2>1, <2>2 DEF Ledgered, OneDocument
<1>10. ASSUME NEW j \in DOMAIN docs, Surface(j) PROVE Ledgered'
  <2>1. /\ docs' = [docs EXCEPT ![j].visible = TRUE]
        /\ UNCHANGED <<pc, order_claims, processed_orders, kv>>
    BY <1>10 DEF Surface
  <2>2. /\ DOMAIN docs' = DOMAIN docs
        /\ \A i \in DOMAIN docs : /\ docs'[i].sale = docs[i].sale
                                  /\ docs[i].visible => docs'[i].visible
    BY <1>0, <2>1, VisibleUpdated
  <2>3. ASSUME NEW i \in DOMAIN docs PROVE Findable(i)'
    BY <1>0, <2>1, <2>2 DEF Findable, Known, Recorded, IsHeld, Inside
  <2>. QED  BY <2>1, <2>2, <2>3 DEF Ledgered, OneDocument
<1>11. ASSUME ConfirmRunIn \/ WithdrawRunIn \/ UNCHANGED vars PROVE Ledgered'
  BY <1>11 DEF ConfirmRunIn, WithdrawRunIn, vars, stores, Ledgered, OneDocument, Findable, Known,
       Recorded, IsHeld, Inside
<1>. QED
  BY <1>1, <1>2, <1>3, <1>4, <1>5, <1>6, <1>7, <1>8, <1>9, <1>10, <1>11 DEF Next, Step

LEMMA LedgeredInvariant ==
    ASSUME Tolerated
    PROVE  Spec => [](Core /\ Exclusive /\ Ledgered)
<1>1. Init => Core /\ Exclusive /\ Ledgered
  BY InitCore, InitExclusive, InitLedgered
<1>2. Core /\ Exclusive /\ Ledgered /\ [Next]_vars => (Core /\ Exclusive /\ Ledgered)'
  BY CoreStep, ExclusiveStep, LedgeredStep DEF Tolerated
<1>. QED
  BY <1>1, <1>2, PTL DEF Spec

\* One sale, one document, for any number of deliveries, retries and crashes, as
\* long as the circumstances named in Tolerated hold.
THEOREM OneDocumentPerSale ==
    ASSUME Tolerated
    PROVE  Spec => []OneDocument
<1>1. Ledgered => OneDocument
  BY DEF Ledgered
<1>. QED
  BY <1>1, LedgeredInvariant, PTL

-----------------------------------------------------------------------------
(* The refinement.                                                         *)

Entry == [sale : Sales, state : DocStates]

\* What the abstract ledger sees of a sequence of documents.
LedgerOf(q) == [i \in DOMAIN q |-> [sale |-> q[i].sale, state |-> q[i].state]]

LEMMA LedgerType ==
    ASSUME NEW q \in Documents
    PROVE  /\ LedgerOf(q) \in Seq(Entry)
           /\ DOMAIN LedgerOf(q) = DOMAIN q
           /\ Len(LedgerOf(q)) = Len(q)
           /\ \A i \in DOMAIN q :
                 LedgerOf(q)[i] = [sale |-> q[i].sale, state |-> q[i].state]
<1>1. Len(q) \in Nat /\ DOMAIN q = 1..Len(q) /\ \A i \in DOMAIN q : q[i] \in Document
  BY DEF Documents
<1>2. \A i \in 1..Len(q) : [sale |-> q[i].sale, state |-> q[i].state] \in Entry
  BY <1>1 DEF Document, Entry
<1>3. LedgerOf(q) = [i \in 1..Len(q) |-> [sale |-> q[i].sale, state |-> q[i].state]]
  BY <1>1 DEF LedgerOf
<1>4. LedgerOf(q) \in [1..Len(q) -> Entry]
  BY <1>2, <1>3
<1>5. LedgerOf(q) \in Seq(Entry)
  BY <1>1, <1>4, SeqDef
<1>6. Len(LedgerOf(q)) = Len(q)
  BY <1>1, <1>4, <1>5, LenProperties
<1>. QED
  BY <1>1, <1>3, <1>5, <1>6

\* createDraft issues the sale's first document.
LEMMA CreateIssues ==
    ASSUME Core, Ledgered, NEW d \in Deliveries, Create(d)
    PROVE  /\ \A i \in DOMAIN LedgerOf(docs) : LedgerOf(docs)[i].sale # SaleOf[d]
           /\ LedgerOf(docs)' = Append(LedgerOf(docs), [sale |-> SaleOf[d], state |-> "draft"])
<1>. DEFINE e == [sale |-> SaleOf[d], state |-> "draft"]
<1>1. /\ docs \in Documents
      /\ SaleOf[d] \in Sales
      /\ docs' = Append(docs, NewDocument(SaleOf[d]))
      /\ pc[d] = "create"
  BY ConstantsOK DEF Core, TypeOK, Documents, Document, Create
<1>2. /\ docs' \in Documents
      /\ DOMAIN docs' = DOMAIN docs \cup {Len(docs) + 1}
      /\ \A i \in DOMAIN docs : docs'[i] = docs[i]
      /\ docs'[Len(docs) + 1] = NewDocument(SaleOf[d])
  BY <1>1, DraftAppended
<1>3. /\ NewDocument(SaleOf[d]).sale = SaleOf[d]
      /\ NewDocument(SaleOf[d]).state = "draft"
  BY Zenon DEF NewDocument
<1>4. e \in Entry
  BY <1>1 DEF Entry, DocStates
<1>5. /\ LedgerOf(docs) \in Seq(Entry)
      /\ Len(LedgerOf(docs)) = Len(docs)
      /\ Append(LedgerOf(docs), e) \in Seq(Entry)
      /\ Len(Append(LedgerOf(docs), e)) = Len(docs) + 1
      /\ \A i \in 1..Len(docs) : Append(LedgerOf(docs), e)[i] = LedgerOf(docs)[i]
      /\ Append(LedgerOf(docs), e)[Len(docs) + 1] = e
  BY <1>1, <1>4, LedgerType, AppendProperties
<1>6. /\ LedgerOf(docs') \in Seq(Entry)
      /\ Len(LedgerOf(docs')) = Len(docs')
      /\ \A i \in DOMAIN docs' :
            LedgerOf(docs')[i] = [sale |-> docs'[i].sale, state |-> docs'[i].state]
  BY <1>2, LedgerType
<1>7. /\ DOMAIN docs = 1..Len(docs) /\ Len(docs) \in Nat
      /\ DOMAIN docs' = 1..Len(docs')
      /\ Len(docs') = Len(docs) + 1
  BY <1>1, <1>2, AppendProperties DEF Documents
<1>8. ASSUME NEW i \in 1..(Len(docs) + 1)
      PROVE  LedgerOf(docs')[i] = Append(LedgerOf(docs), e)[i]
  <2>0. i \in DOMAIN docs \/ i = Len(docs) + 1
    BY <1>7
  <2>1. CASE i \in DOMAIN docs
    <3>1. LedgerOf(docs)[i] = [sale |-> docs[i].sale, state |-> docs[i].state]
      BY <1>1, <2>1, LedgerType
    <3>. QED  BY <1>2, <1>5, <1>6, <1>7, <2>1, <3>1
  <2>2. CASE i = Len(docs) + 1
    BY <1>2, <1>3, <1>5, <1>6, <2>2
  <2>. QED  BY <2>0, <2>1, <2>2
<1>9. LedgerOf(docs') = Append(LedgerOf(docs), e)
  BY <1>5, <1>6, <1>7, <1>8, SeqEqual
<1>10. LedgerOf(docs)' = LedgerOf(docs')
  BY DEF LedgerOf
<1>11. \A i \in DOMAIN docs : docs[i].sale # SaleOf[d]
  BY <1>1 DEF Ledgered
<1>12. \A i \in DOMAIN LedgerOf(docs) : LedgerOf(docs)[i].sale # SaleOf[d]
  <2>1. /\ DOMAIN LedgerOf(docs) = DOMAIN docs
        /\ \A i \in DOMAIN docs :
              LedgerOf(docs)[i] = [sale |-> docs[i].sale, state |-> docs[i].state]
    BY <1>1, LedgerType
  <2>. QED  BY <1>11, <2>1
<1>. QED
  BY <1>9, <1>10, <1>12

\* finalize certifies a draft, or finds its document certified already.
LEMMA CertifyCertifies ==
    ASSUME Core, NEW d \in Deliveries, Certify(d)
    PROVE  \/ LedgerOf(docs)' = LedgerOf(docs)
           \/ /\ found[d] \in DOMAIN LedgerOf(docs)
              /\ LedgerOf(docs)[found[d]].state = "draft"
              /\ LedgerOf(docs)' = [LedgerOf(docs) EXCEPT ![found[d]].state = "final"]
<1>1. /\ docs \in Documents
      /\ found[d] \in DOMAIN docs
      /\ \/ docs' = docs
         \/ /\ docs[found[d]].state = "draft"
            /\ docs' = [docs EXCEPT ![found[d]].state = "final"]
  BY DEF Core, TypeOK, FoundOK, Holding, Certify, Documents, Document
<1>2. CASE docs' = docs
  BY <1>2 DEF LedgerOf
<1>3. CASE /\ docs[found[d]].state = "draft"
           /\ docs' = [docs EXCEPT ![found[d]].state = "final"]
  <2>1. /\ DOMAIN docs' = DOMAIN docs
        /\ \A j \in DOMAIN docs :
              /\ docs'[j].sale = docs[j].sale
              /\ docs'[j].state = IF j = found[d] THEN "final" ELSE docs[j].state
    BY <1>1, <1>3, StateUpdated DEF DocStates
  <2>. DEFINE L == LedgerOf(docs)
  <2>2. /\ DOMAIN L = DOMAIN docs
        /\ \A j \in DOMAIN docs : L[j] = [sale |-> docs[j].sale, state |-> docs[j].state]
        /\ L \in [DOMAIN docs -> Entry]
    <3>1. \A j \in DOMAIN docs : docs[j] \in Document
      BY <1>1 DEF Documents
    <3>. QED  BY <3>1 DEF LedgerOf, Document, Entry
  <2>3. LedgerOf(docs)' = [j \in DOMAIN docs |-> [sale |-> docs[j].sale,
                              state |-> IF j = found[d] THEN "final" ELSE docs[j].state]]
    BY <2>1 DEF LedgerOf
  <2>. HIDE DEF L
  <2>4. [L EXCEPT ![found[d]].state = "final"]
           = [j \in DOMAIN docs |-> IF j = found[d] THEN [L[j] EXCEPT !.state = "final"]
                                                    ELSE L[j]]
    BY <2>2
  <2>5. [L[found[d]] EXCEPT !.state = "final"] = [sale |-> docs[found[d]].sale, state |-> "final"]
    BY <1>1, <2>2
  <2>6. LedgerOf(docs)' = [L EXCEPT ![found[d]].state = "final"]
    BY <2>2, <2>3, <2>4, <2>5
  <2>7. found[d] \in DOMAIN L /\ L[found[d]].state = "draft"
    BY <1>1, <1>3, <2>2
  <2>. QED  BY <2>6, <2>7 DEF L
<1>. QED
  BY <1>1, <1>2, <1>3

\* The index catching up is invisible to the ledger.
LEMMA SurfaceStutters ==
    ASSUME Core, NEW i \in DOMAIN docs, Surface(i)
    PROVE  LedgerOf(docs)' = LedgerOf(docs)
<1>1. docs \in Documents /\ docs' = [docs EXCEPT ![i].visible = TRUE]
  BY DEF Core, TypeOK, Documents, Document, Surface
<1>2. /\ DOMAIN docs' = DOMAIN docs
      /\ \A j \in DOMAIN docs : docs'[j].sale = docs[j].sale /\ docs'[j].state = docs[j].state
  BY <1>1, VisibleUpdated
<1>. QED
  BY <1>2 DEF LedgerOf

\* The pipeline implements the ledger that SaleLedger specifies: whatever the
\* deliveries, retries and crashes do, the merchant's books only ever see a first
\* document of a sale and its certificate.
THEOREM LedgerRefined ==
    ASSUME Tolerated
    PROVE  Spec => LedgerSpec
<1>1. Init => Ledger!Init
  <2>. SUFFICES ASSUME Init PROVE LedgerOf(docs) = << >>
    BY DEF Ledger!Init, LedgerOf
  <2>1. docs = << >>
    BY DEF Init
  <2>2. docs \in Documents /\ Len(docs) = 0
    BY <2>1 DEF Documents
  <2>3. LedgerOf(docs) \in Seq(Entry) /\ Len(LedgerOf(docs)) = 0
    BY <2>2, LedgerType
  <2>. QED  BY <2>3, EmptySeq
<1>2. Core /\ Ledgered /\ [Next]_vars => [Ledger!Next]_(LedgerOf(docs))
  <2>. SUFFICES ASSUME Core, Ledgered, [Next]_vars
       PROVE  Ledger!Next \/ LedgerOf(docs)' = LedgerOf(docs)
    OBVIOUS
  <2>1. CASE UNCHANGED docs
    BY <2>1 DEF LedgerOf
  <2>2. ASSUME NEW d \in Deliveries, Create(d) PROVE Ledger!Next
    <3>1. SaleOf[d] \in Sales
      BY ConstantsOK
    <3>. QED  BY <2>2, <3>1, CreateIssues DEF Ledger!Next, Ledger!Issue, LedgerOf
  <2>3. ASSUME NEW d \in Deliveries, Certify(d)
        PROVE  Ledger!Next \/ LedgerOf(docs)' = LedgerOf(docs)
    BY <2>3, CertifyCertifies DEF Ledger!Next, Ledger!Certify, LedgerOf
  <2>4. ASSUME NEW i \in DOMAIN docs, Surface(i) PROVE LedgerOf(docs)' = LedgerOf(docs)
    BY <2>4, SurfaceStutters
  <2>. QED  BY <2>1, <2>2, <2>3, <2>4, DocsStep
<1>. QED
  BY <1>1, <1>2, LedgeredInvariant, PTL DEF Spec, LedgerSpec, Ledger!Spec, LedgerOf

-----------------------------------------------------------------------------
(* Every sale is accounted for.                                            *)

\* The messages whose end must answer for their sale: any, or, from a source that announces
\* payments apart, those that announce one.
Owes(d) == SeparatePaid => TopicOf[d] = "paid"

\* Each sale has one.
Announced == \A s \in Sales : \E d \in Deliveries : SaleOf[d] = s /\ Owes(d)

Explained(s) ==
    \/ noted[s]
    \/ Certified(s)
    \/ Issued(s) /\ (sale_kind[s] = "draftOnly" \/ TestConnection \/ crashes > 0)

\* Somebody who has recorded the sale still decides what becomes of its draft.
Deciding(s) ==
    /\ ~SeparatePaid
    /\ \E e \in Deliveries : SaleOf[e] = s /\ pc[e] \in {"decide", "certify"}

Answerable(s) == Explained(s) \/ Deciding(s)

Left == {"leaveAck", "acked", "dead"}

\* Which branch a delivery is on, that a held draft has raised its incident, and that a
\* record, or a message that owes an answer and has left, leaves its sale answerable.
Accounting ==
    /\ \A d \in Deliveries :
          /\ pc[d] \in {"lookup", "create", "save", "decide"} => flow[d] = "created"
          /\ SeparatePaid => flow[d] = TopicOf[d]
          /\ pc[d] = "decide" /\ sale_kind[SaleOf[d]] = "hold" => noted[SaleOf[d]]
          /\ Owes(d) /\ pc[d] \in Left => Answerable(SaleOf[d])
    /\ ~SeparatePaid => \A s \in Sales :
          processed_orders[s].invoice # 0 \/ kv[s] => Answerable(s)

LEMMA InitAccounting == Init => Accounting
BY ConstantsOK DEF Init, Accounting, Left, NoRow

\* What a step does to whom: nothing explained is taken back; a delivery comes to the first
\* branch as it is written, decides and certifies for itself, and leaves with a word said,
\* or by one of four steps; a record is written by saveProcessedInvoice alone.
Branch(e) ==
    /\ pc'[e] \in {"lookup", "create", "save", "decide"} =>
          /\ flow'[e] = flow[e]
          /\ pc[e] \in {"lookup", "create", "save", "decide"} \/ flow[e] = "created"
    /\ SeparatePaid => flow'[e] \in {flow[e], TopicOf[e]}
    /\ pc'[e] = "decide" => pc[e] = "decide" \/ Save(e)

Departs(e) ==
    /\ pc[e] \in {"decide", "certify"} =>
          pc'[e] = pc[e] \/ Decide(e) \/ Certify(e) \/ Fail(e) \/ Crash(e)
    /\ pc'[e] \in Left =>
          \/ pc[e] \in Left \/ noted'[SaleOf[e]]
          \/ Check(e) \/ Read(e) \/ Decide(e) \/ Certify(e)

Keeps(s) ==
    /\ noted[s] => noted'[s]
    /\ processed_orders'[s].invoice # 0 \/ kv'[s] =>
          \/ processed_orders[s].invoice # 0 \/ kv[s]
          \/ \E d \in Deliveries : Save(d) /\ SaleOf[d] = s

LEMMA Moves ==
    ASSUME TypeOK, [Next]_vars
    PROVE  /\ \A e \in Deliveries : Branch(e) /\ Departs(e)
           /\ \A s \in Sales : Keeps(s)
           /\ sale_kind' = sale_kind /\ (crashes > 0 => crashes' > 0)
<1>. DEFINE Fine == /\ \A e \in Deliveries : Branch(e) /\ Departs(e)
                    /\ \A s \in Sales : Keeps(s)
                    /\ sale_kind' = sale_kind /\ (crashes > 0 => crashes' > 0)
<1>. USE ConstantsOK DEF TypeOK, Goto, stores, world, Left, Branch, Departs, Keeps, Away
<1>1. ASSUME NEW d \in Deliveries, Receive(d) PROVE Fine
  BY <1>1 DEF Receive
<1>2. ASSUME NEW d \in Deliveries, StopAtGate(d) PROVE Fine
  BY <1>2 DEF StopAtGate, Note
<1>3. ASSUME NEW d \in Deliveries, Claim(d) PROVE Fine
  BY <1>3 DEF Claim
<1>4. ASSUME NEW d \in Deliveries, ClaimRefused(d) PROVE Fine
  BY <1>4 DEF ClaimRefused
<1>5. ASSUME NEW d \in Deliveries, Release(d) PROVE Fine
  BY <1>5 DEF Release, Wake, Bounce
<1>6. ASSUME NEW d \in Deliveries, Check(d) PROVE Fine
  <2>1. \A e \in Deliveries : Branch(e)
    BY <1>6 DEF Check, Note
  <2>2. \A e \in Deliveries : Departs(e)
    BY <1>6 DEF Check, Note
  <2>3. \A s \in Sales : Keeps(s)
    <3>1. UNCHANGED <<processed_orders, kv>>
      BY <1>6 DEF Check
    <3>2. noted' = noted \/ noted' = [noted EXCEPT ![SaleOf[d]] = TRUE]
      BY <1>6 DEF Check, Note
    <3>. QED  BY <3>1, <3>2
  <2>4. sale_kind' = sale_kind /\ (crashes > 0 => crashes' > 0)
    BY <1>6 DEF Check
  <2>. QED  BY <2>1, <2>2, <2>3, <2>4
<1>7. ASSUME NEW d \in Deliveries, Lookup(d) PROVE Fine
  <2>1. \A e \in Deliveries : Branch(e)
    BY <1>7 DEF Lookup, Note
  <2>2. \A e \in Deliveries : Departs(e)
    <3>1. \/ noted' = [noted EXCEPT ![SaleOf[d]] = TRUE]
          \/ pc' = [pc EXCEPT ![d] = "create"]
      BY <1>7 DEF Lookup, Note
    <3>2. pc[d] = "lookup" /\ \A e \in Deliveries \ {d} : pc'[e] = pc[e]
      BY <1>7 DEF Lookup
    <3>3. SaleOf[d] \in Sales
      OBVIOUS
    <3>. QED  BY <3>1, <3>2, <3>3
  <2>3. \A s \in Sales : Keeps(s)
    <3>1. UNCHANGED <<processed_orders, kv>>
      BY <1>7 DEF Lookup
    <3>2. noted' = noted \/ noted' = [noted EXCEPT ![SaleOf[d]] = TRUE]
      BY <1>7 DEF Lookup, Note
    <3>. QED  BY <3>1, <3>2
  <2>4. sale_kind' = sale_kind /\ (crashes > 0 => crashes' > 0)
    BY <1>7 DEF Lookup
  <2>. QED  BY <2>1, <2>2, <2>3, <2>4
<1>8. ASSUME NEW d \in Deliveries, Create(d) PROVE Fine
  <2>1. \A e \in Deliveries : Branch(e)
    BY <1>8 DEF Create, Note
  <2>2. \A e \in Deliveries : Departs(e)
    BY <1>8 DEF Create, Note
  <2>3. \A s \in Sales : Keeps(s)
    BY <1>8 DEF Create, Note
  <2>4. sale_kind' = sale_kind /\ (crashes > 0 => crashes' > 0)
    BY <1>8 DEF Create
  <2>. QED  BY <2>1, <2>2, <2>3, <2>4
<1>9. ASSUME NEW d \in Deliveries, Save(d) PROVE Fine
  <2>1. \A e \in Deliveries : Branch(e)
    BY <1>9 DEF Save
  <2>2. \A e \in Deliveries : Departs(e)
    BY <1>9 DEF Save
  <2>3. \A s \in Sales : Keeps(s)
    BY <1>9 DEF Save
  <2>4. sale_kind' = sale_kind /\ (crashes > 0 => crashes' > 0)
    BY <1>9 DEF Save
  <2>. QED  BY <2>1, <2>2, <2>3, <2>4
<1>10. ASSUME NEW d \in Deliveries, Decide(d) PROVE Fine
  <2>1. \A e \in Deliveries : Branch(e)
    BY <1>10 DEF Decide
  <2>2. \A e \in Deliveries : Departs(e)
    BY <1>10 DEF Decide
  <2>3. \A s \in Sales : Keeps(s)
    <3>1. UNCHANGED <<processed_orders, kv>>
      BY <1>10 DEF Decide
    <3>2. noted' = noted \/ noted' = [noted EXCEPT ![SaleOf[d]] = TRUE]
      BY <1>10 DEF Decide
    <3>. QED  BY <3>1, <3>2
  <2>4. sale_kind' = sale_kind /\ (crashes > 0 => crashes' > 0)
    BY <1>10 DEF Decide
  <2>. QED  BY <2>1, <2>2, <2>3, <2>4
<1>11. ASSUME NEW d \in Deliveries, Row(d) PROVE Fine
  <2>1. \A e \in Deliveries : Branch(e)
    BY <1>11 DEF Row, Note, Unmatched
  <2>2. \A e \in Deliveries : Departs(e)
    BY <1>11 DEF Row, Note, Unmatched
  <2>3. \A s \in Sales : Keeps(s)
    BY <1>11 DEF Row, Note, Unmatched
  <2>4. sale_kind' = sale_kind /\ (crashes > 0 => crashes' > 0)
    BY <1>11 DEF Row
  <2>. QED  BY <2>1, <2>2, <2>3, <2>4
<1>12. ASSUME NEW d \in Deliveries, Read(d) PROVE Fine
  BY <1>12 DEF Read
<1>13. ASSUME NEW d \in Deliveries, Certify(d) PROVE Fine
  <2>1. \A e \in Deliveries : Branch(e)
    BY <1>13 DEF Certify, Note
  <2>2. \A e \in Deliveries : Departs(e)
    BY SMTT(30), <1>13 DEF Certify, Note
  <2>3. \A s \in Sales : Keeps(s)
    BY <1>13 DEF Certify, Note
  <2>4. sale_kind' = sale_kind /\ (crashes > 0 => crashes' > 0)
    BY <1>13 DEF Certify
  <2>. QED  BY <2>1, <2>2, <2>3, <2>4
<1>14. ASSUME NEW d \in Deliveries, Fail(d) PROVE Fine
  <2>1. \A e \in Deliveries : Branch(e)
    BY <1>14 DEF Fail, Note
  <2>2. \A e \in Deliveries : Departs(e)
    BY <1>14 DEF Fail, Note
  <2>3. \A s \in Sales : Keeps(s)
    BY <1>14 DEF Fail, Note
  <2>4. sale_kind' = sale_kind /\ (crashes > 0 => crashes' > 0)
    BY <1>14 DEF Fail
  <2>. QED  BY <2>1, <2>2, <2>3, <2>4
<1>15. ASSUME NEW d \in Deliveries, Crash(d) PROVE Fine
  <2>1. \A e \in Deliveries : Branch(e)
    BY <1>15 DEF Crash, Bounce
  <2>2. \A e \in Deliveries : Departs(e)
    BY <1>15 DEF Crash, Bounce
  <2>3. \A s \in Sales : Keeps(s)
    BY <1>15 DEF Crash, Bounce
  <2>4. sale_kind' = sale_kind /\ (crashes > 0 => crashes' > 0)
    BY <1>15 DEF Crash
  <2>. QED  BY <2>1, <2>2, <2>3, <2>4
<1>16. ASSUME NEW d \in Deliveries, DeadLetter(d) PROVE Fine
  BY <1>16 DEF DeadLetter, Note
<1>17. ASSUME NEW s \in Sales, Age(s) PROVE Fine
  BY <1>17 DEF Age, Wake
<1>18. ASSUME NEW i \in DOMAIN docs, Surface(i) PROVE Fine
  BY <1>18 DEF Surface
<1>19. CASE ConfirmRunIn
  BY <1>19 DEF ConfirmRunIn
<1>21. CASE WithdrawRunIn
  BY <1>21 DEF WithdrawRunIn
<1>20. CASE UNCHANGED vars
  BY <1>20 DEF vars
<1>. QED
  BY <1>1, <1>2, <1>3, <1>4, <1>5, <1>6, <1>7, <1>8, <1>9, <1>10, <1>11, <1>12, <1>13, <1>14,
     <1>15, <1>16, <1>17, <1>18, <1>19, <1>20, <1>21 DEF Next, Step

\* Nothing that explains a sale is ever taken back.
LEMMA Remembered ==
    ASSUME Core, [Next]_vars
    PROVE  /\ \A s \in Sales : noted[s] => noted'[s]
           /\ \A i \in DOMAIN docs :
                 /\ i \in DOMAIN docs' /\ docs'[i].sale = docs[i].sale
                 /\ docs[i].state = "final" => docs'[i].state = "final"
           /\ sale_kind' = sale_kind /\ (crashes > 0 => crashes' > 0)
           /\ \A s \in Sales : Explained(s) => Explained(s)'
<1>. DEFINE Kept == \A i \in DOMAIN docs :
                      /\ i \in DOMAIN docs' /\ docs'[i].sale = docs[i].sale
                      /\ docs[i].state = "final" => docs'[i].state = "final"
<1>1. \A s \in Sales : noted[s] => noted'[s]
  BY Moves DEF Core, Keeps
<1>2. sale_kind' = sale_kind /\ (crashes > 0 => crashes' > 0)
  BY Moves DEF Core
<1>3. Kept
  <2>0. docs \in Documents
    BY DEF Core, TypeOK, Documents, Document
  <2>1. CASE UNCHANGED docs
    BY <2>1
  <2>2. ASSUME NEW d \in Deliveries, Create(d) PROVE Kept
    <3>1. SaleOf[d] \in Sales /\ docs' = Append(docs, NewDocument(SaleOf[d]))
      BY <2>2, ConstantsOK DEF Create
    <3>. QED  BY <2>0, <3>1, DraftAppended
  <2>3. ASSUME NEW d \in Deliveries, Certify(d) PROVE Kept
    <3>1. found[d] \in DOMAIN docs
      BY <2>3 DEF Certify, Core, FoundOK, Holding
    <3>2. docs' = docs \/ docs' = [docs EXCEPT ![found[d]].state = "final"]
      BY <2>3 DEF Certify
    <3>. QED  BY <2>0, <3>1, <3>2, StateUpdated DEF DocStates
  <2>4. ASSUME NEW i \in DOMAIN docs, Surface(i) PROVE Kept
    BY <2>0, <2>4, VisibleUpdated DEF Surface
  <2>. QED  BY <2>1, <2>2, <2>3, <2>4, DocsStep
<1>4. ASSUME NEW s \in Sales, Explained(s) PROVE Explained(s)'
  <2>1. Certified(s) => Certified(s)'
    BY <1>3 DEF Certified, DocsOf
  <2>2. Issued(s) => Issued(s)'
    BY <1>3 DEF Issued, DocsOf
  <2>. QED  BY <1>1, <1>2, <1>4, <2>1, <2>2 DEF Explained
<1>. QED  BY <1>1, <1>2, <1>3, <1>4

\* What is decided leaves the sale explained, or to be certified by the same delivery.
LEMMA DecisionAnswers ==
    ASSUME Core, Core', Accounting, [Next]_vars, NEW d \in Deliveries,
           Certify(d) \/ (Decide(d) /\ ~SeparatePaid)
    PROVE  \/ Explained(SaleOf[d])'
           \/ ~SeparatePaid /\ pc'[d] = "certify"
<1>. USE DEF Goto
<1>0. SaleOf[d] \in Sales /\ d \in DOMAIN pc /\ noted \in [Sales -> BOOLEAN]
  BY ConstantsOK DEF Core, TypeOK
<1>1. found[d] \in DOMAIN docs /\ docs[found[d]].sale = SaleOf[d]
  BY DEF Core, FoundOK, Holding, Decide, Certify
<1>2. Issued(SaleOf[d])'
  BY <1>0, <1>1, Remembered DEF Issued, DocsOf
<1>3. CASE Certify(d)
  <2>1. docs'[found[d]].state = "final"
    <3>1. docs \in Documents
      BY DEF Core, TypeOK, Documents, Document
    <3>2. docs' = [docs EXCEPT ![found[d]].state = "final"]
          \/ (docs' = docs /\ docs[found[d]].state = "final")
      BY <1>3 DEF Certify
    <3>. QED  BY <1>1, <3>1, <3>2, StateUpdated DEF DocStates
  <2>. QED  BY <1>0, <1>1, <2>1, Remembered DEF Explained, Certified, DocsOf
<1>4. CASE Decide(d) /\ ~SeparatePaid
  <2>0. PICK R \in ReadFaults :
           /\ pc' = [pc EXCEPT ![d] =
               IF /\ ~SeparatePaid /\ ~TestConnection /\ ~RunInHolds(R)
                  /\ sale_kind[SaleOf[d]] \notin {"hold", "draftOnly"} THEN "certify" ELSE "leaveAck"]
           /\ noted' = IF RunInHolds(R) THEN [noted EXCEPT ![SaleOf[d]] = TRUE] ELSE noted
    BY <1>4 DEF Decide
  <2>1. CASE RunInHolds(R)
    BY <1>0, <2>0, <2>1 DEF Explained
  <2>2. CASE sale_kind[SaleOf[d]] = "hold"
    BY <1>0, <1>4, <2>2, Remembered DEF Accounting, Decide, Explained
  <2>3. CASE sale_kind[SaleOf[d]] = "draftOnly" \/ TestConnection
    BY <1>0, <1>2, <2>3, Remembered DEF Explained
  <2>4. CASE /\ ~RunInHolds(R) /\ ~TestConnection
             /\ sale_kind[SaleOf[d]] \notin {"hold", "draftOnly"}
    BY <1>0, <1>4, <2>0, <2>4
  <2>. QED  BY <2>1, <2>2, <2>3, <2>4
<1>. QED  BY <1>3, <1>4

\* Who decides goes on deciding, leaves the sale explained, or dies, which is one reason
\* for a draft to be left.
LEMMA AnswerableStays ==
    ASSUME Core, Core', Accounting, [Next]_vars, NEW s \in Sales, Answerable(s)
    PROVE  Answerable(s)'
<1>. USE DEF Goto
<1>1. CASE Explained(s)
  BY <1>1, Remembered DEF Answerable
<1>2. ASSUME ~SeparatePaid, NEW e \in Deliveries, SaleOf[e] = s, pc[e] \in {"decide", "certify"}
      PROVE  Answerable(s)'
  <2>0. DOMAIN pc = Deliveries /\ noted \in [Sales -> BOOLEAN]
    BY DEF Core, TypeOK
  <2>1. CASE pc'[e] = pc[e]
    BY <1>2, <2>1 DEF Answerable, Deciding
  <2>2. CASE Decide(e) \/ Certify(e)
    BY <1>2, <2>2, DecisionAnswers DEF Answerable, Deciding
  <2>3. CASE Fail(e)
    BY <1>2, <2>0, <2>3 DEF Fail, Note, Answerable, Explained
  <2>4. CASE Crash(e)
    <3>1. found[e] \in DOMAIN docs /\ docs[found[e]].sale = s
      BY <1>2 DEF Core, FoundOK, Holding
    <3>2. Issued(s)'
      BY <3>1, Remembered DEF Issued, DocsOf
    <3>3. crashes' > 0
      BY <2>4, ConstantsOK DEF Crash, Core, TypeOK
    <3>. QED  BY <3>2, <3>3 DEF Answerable, Explained
  <2>5. \/ pc'[e] = pc[e]
        \/ Decide(e) \/ Certify(e) \/ Fail(e) \/ Crash(e)
    BY <1>2, Moves DEF Core, Departs
  <2>. QED  BY <2>1, <2>2, <2>3, <2>4, <2>5
<1>. QED  BY <1>1, <1>2 DEF Answerable, Deciding

LEMMA AccountingStep ==
    Core /\ Core' /\ Accounting /\ [Next]_vars => Accounting'
<1>. SUFFICES ASSUME Core, Core', Accounting, [Next]_vars PROVE Accounting'
  OBVIOUS
<1>. USE ConstantsOK DEF Goto
<1>0. /\ DOMAIN pc = Deliveries /\ flow \in [Deliveries -> {"created", "paid"}]
      /\ noted \in [Sales -> BOOLEAN] /\ SaleOf \in [Deliveries -> Sales]
  BY DEF Core, TypeOK
<1>1. ASSUME NEW d \in Deliveries, pc'[d] \in {"lookup", "create", "save", "decide"}
      PROVE  flow'[d] = "created"
  BY <1>1, Moves DEF Core, Branch, Accounting
<1>2. ASSUME NEW d \in Deliveries, SeparatePaid PROVE flow'[d] = TopicOf[d]
  BY <1>2, Moves DEF Core, Branch, Accounting
<1>3. ASSUME NEW d \in Deliveries, pc'[d] = "decide", sale_kind'[SaleOf[d]] = "hold"
      PROVE  noted'[SaleOf[d]]
  <2>1. CASE Save(d)
    BY <1>0, <1>3, <2>1 DEF Save, world
  <2>2. pc[d] = "decide" \/ Save(d)
    BY <1>3, Moves DEF Core, Branch
  <2>. QED  BY <1>0, <1>3, <2>1, <2>2, Remembered DEF Accounting
<1>4. ASSUME NEW s \in Sales, ~SeparatePaid, processed_orders'[s].invoice # 0 \/ kv'[s]
      PROVE  Answerable(s)'
  <2>1. CASE processed_orders[s].invoice # 0 \/ kv[s]
    BY <1>4, <2>1, AnswerableStays DEF Accounting
  <2>2. ASSUME NEW d \in Deliveries, Save(d), SaleOf[d] = s PROVE Answerable(s)'
    BY <1>0, <1>4, <2>2 DEF Save, Answerable, Deciding
  <2>3. \/ processed_orders[s].invoice # 0 \/ kv[s]
        \/ \E d \in Deliveries : Save(d) /\ SaleOf[d] = s
    BY <1>4, Moves DEF Core, Keeps
  <2>. QED  BY <2>1, <2>2, <2>3
<1>5. ASSUME NEW d \in Deliveries, Owes(d), pc'[d] \in Left PROVE Answerable(SaleOf[d])'
  <2>0. SaleOf[d] \in Sales
    BY <1>0
  <2>1. CASE pc[d] \in Left
    BY <1>5, <2>0, <2>1, AnswerableStays DEF Accounting
  <2>2. CASE noted'[SaleOf[d]]
    BY <2>2 DEF Answerable, Explained
  <2>3. CASE Check(d) /\ ~noted'[SaleOf[d]]
    <3>1. flow[d] = "created" /\ (processed_orders[SaleOf[d]].invoice # 0 \/ kv[SaleOf[d]])
      BY <1>0, <1>5, <2>3 DEF Check, Note, Recorded, Left
    <3>2. ~SeparatePaid
      BY <1>5, <3>1 DEF Accounting, Owes
    <3>. QED  BY <2>0, <3>1, <3>2, AnswerableStays DEF Accounting
  <2>4. CASE Read(d)
    <3>1. /\ found[d] \in DOMAIN docs /\ docs[found[d]].sale = SaleOf[d]
          /\ docs[found[d]].state = "final"
      BY <1>0, <1>5, <2>4 DEF Read, Core, FoundOK, Holding, Left
    <3>2. Certified(SaleOf[d])'
      BY <3>1, Remembered DEF Certified, DocsOf
    <3>. QED  BY <3>2 DEF Answerable, Explained
  <2>5. CASE Decide(d) \/ Certify(d)
    <3>1. SeparatePaid => ~Decide(d)
      BY <1>5 DEF Accounting, Owes, Decide
    <3>2. pc'[d] # "certify"
      BY <1>5 DEF Left
    <3>. QED  BY <2>5, <3>1, <3>2, DecisionAnswers DEF Answerable
  <2>6. \/ pc[d] \in Left \/ noted'[SaleOf[d]]
        \/ Check(d) \/ Read(d) \/ Decide(d) \/ Certify(d)
    BY <1>5, Moves DEF Core, Departs
  <2>. QED  BY <2>1, <2>2, <2>3, <2>4, <2>5, <2>6
<1>. QED
  BY <1>1, <1>2, <1>3, <1>4, <1>5 DEF Accounting

\* No payment vanishes, whatever fails, dies, races or is delivered again: once every
\* message about a sale has ended, the sale is certified, rightly a draft, or explained.
\* The claim may be unreachable or go stale, the stores miss any write and any read: only
\* the announcement of the sale (of its payment, where the source sends one) is assumed.
THEOREM SalesAlwaysAccounted ==
    ASSUME Announced
    PROVE  Spec => []EverySaleAccounted
<1>1. Core /\ Accounting => EverySaleAccounted
  <2>. SUFFICES ASSUME Core, Accounting, NEW s \in Sales, Settled(s) PROVE Explained(s)
    BY DEF EverySaleAccounted, Explained
  <2>1. PICK d \in Deliveries : SaleOf[d] = s /\ Owes(d)
    BY DEF Announced
  <2>2. Answerable(s)
    BY <2>1 DEF Accounting, Settled, Ended, Left
  <2>. QED  BY <2>2 DEF Answerable, Deciding, Settled, Ended
<1>2. Core /\ Accounting /\ [Next]_vars => (Core /\ Accounting)'
  BY CoreStep, AccountingStep
<1>. QED
  BY InitCore, InitAccounting, <1>1, <1>2, PTL DEF Spec
=============================================================================
