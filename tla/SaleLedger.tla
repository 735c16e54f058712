----------------------------- MODULE SaleLedger -----------------------------
(***************************************************************************)
(* What the invoicing engine promises about the documents of a merchant:   *)
(* at most one document is ever issued for a sale, a document is born a    *)
(* draft, and the only thing that later happens to it is that it is        *)
(* certified, once.  Nothing here knows of webhooks, queues, claims or     *)
(* databases; the detailed pipelines are shown to implement it.            *)
(***************************************************************************)
EXTENDS Naturals, Sequences

CONSTANT Sales

VARIABLE ledger   \* the documents in the order in which they were issued

Document == [sale : Sales, state : {"draft", "final"}]

Init == ledger = << >>

\* A sale without a document gets one.
Issue(s) ==
    /\ \A i \in DOMAIN ledger : ledger[i].sale # s
    /\ ledger' = Append(ledger, [sale |-> s, state |-> "draft"])

\* A draft becomes a fiscal document, for good.
Certify(i) ==
    /\ ledger[i].state = "draft"
    /\ ledger' = [ledger EXCEPT ![i].state = "final"]

Next == \/ \E s \in Sales : Issue(s)
        \/ \E i \in DOMAIN ledger : Certify(i)

Spec == Init /\ [][Next]_ledger
=============================================================================
