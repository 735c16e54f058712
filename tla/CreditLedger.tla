---------------------------- MODULE CreditLedger ----------------------------
(***************************************************************************)
(* Credit notes for refunds: handleRefundCreate (Shopify on InvoiceXpress) *)
(* and the "refund" topic of runPipelineCore (every other connection),     *)
(* which share the credit_notes table, one row per refund.                 *)
(*                                                                         *)
(* A message announces one refund, but whoever handles it works through    *)
(* every refund its order has by then, one after the other.  The messages  *)
(* of an order therefore compete for the same rows, and the row is all     *)
(* that stands between a retry and a second fiscal document.               *)
(***************************************************************************)
EXTENDS Integers, Sequences, FiniteSets, FiniteSetsExt

CONSTANTS
    Refunds,        \* refunds of one order, numbered as the order lists them
    Paths,          \* which code handles the order: "legacy", "adapter"
    MaxAttempts,    \* hand-overs of a message before an incident ends it
    MaxNotes,       \* bound on the credit notes ever created
    MaxCrashes,     \* bound on Worker invocations that die half way
    RelatedFaults,  \* the legacy read of related documents may fail
    LedgerFaults,   \* the credit_notes table may be unreachable
    MissedLookups,  \* the search by reference may miss a note: it is not indexed
                    \* yet, or a search that was refused reads as "none"
    LostAnswers     \* the destination may act and its answer be lost

ASSUME ConstantsOK ==
    /\ Refunds \subseteq Nat /\ IsFiniteSet(Refunds)
    /\ Paths \subseteq {"legacy", "adapter"}
    /\ MaxAttempts \in Nat \ {0}
    /\ MaxNotes \in Nat /\ MaxCrashes \in Nat
    /\ {RelatedFaults, LedgerFaults, MissedLookups, LostAnswers} \subseteq BOOLEAN

VARIABLES
    path,          \* the path of the order's connection
    invoice,       \* the order's own document: "none", "draft", "final", "gone"
    pc,            \* where the message of each refund stands
    attempts,      \* message.attempts
    todo,          \* the refunds the message has still to look at
    note,          \* the credit note it holds in a local, 0 for none
    verdict,       \* what it is about to write to the row
    credit_notes,  \* the ledger, one row per refund
    notes,         \* the credit notes the destination holds, by id
    noted,         \* an incident, a document event or a log row explains it
    crashes        \* invocations that died so far

local == <<attempts, todo, note, verdict>>
vars  == <<path, invoice, pc, local, credit_notes, notes, noted, crashes>>

NoRow   == [state |-> "none", note |-> 0, stale |-> FALSE]
Claimed == [state |-> "issuing", note |-> 0, stale |-> FALSE]

Working  == {"read", "claim", "lookup", "issue", "finalize", "withdraw", "write"}
Ended    == {"acked", "given up"}
Verdicts == {"none", "issued", "refused", "named", "released", "on draft"}

\* The refund a message is at: the loop takes them in the order's own order.
Current(m) == Min(todo[m])
Holds(m, r) == pc[m] \in Working \ {"read"} /\ r \in todo[m]
Announced   == {r \in Refunds : pc[r] # "unborn"}

Live(r) == {i \in DOMAIN notes : notes[i].refund = r /\ notes[i].state # "deleted"}

Init ==
    /\ path \in Paths
    /\ invoice = "none"
    /\ pc = [m \in Refunds |-> "unborn"]
    /\ attempts = [m \in Refunds |-> 0]
    /\ todo = [m \in Refunds |-> {}]
    /\ note = [m \in Refunds |-> 0]
    /\ verdict = [m \in Refunds |-> "none"]
    /\ credit_notes = [r \in Refunds |-> NoRow]
    /\ notes = << >>
    /\ noted = [r \in Refunds |-> FALSE]
    /\ crashes = 0

Goto(m, label) == pc' = [pc EXCEPT ![m] = label]
Note(R)        == noted' = [r \in Refunds |-> noted[r] \/ r \in R]

-----------------------------------------------------------------------------
(* The sale and the queue.                                                 *)

\* The sale's own document is issued, certified, deleted as a draft, canceled.
Invoice ==
    /\ \/ invoice = "none"  /\ invoice' = "draft"
       \/ invoice = "draft" /\ invoice' \in {"final", "gone"}
       \/ invoice = "final" /\ invoice' = "gone"
    /\ UNCHANGED <<path, pc, local, credit_notes, notes, noted, crashes>>

\* The merchant refunds; the order's refunds grow at the end of the list.
Refund(r) ==
    /\ pc[r] = "unborn"
    /\ \A q \in Refunds : q < r => q \in Announced
    /\ Goto(r, "queued")
    /\ UNCHANGED <<path, invoice, local, credit_notes, notes, noted, crashes>>

Receive(m) ==
    /\ pc[m] = "queued"
    /\ attempts' = [attempts EXCEPT ![m] = @ + 1]
    /\ Goto(m, "read")
    /\ UNCHANGED <<path, invoice, todo, note, verdict, credit_notes, notes, noted, crashes>>

\* Forgetting the locals at the end of an invocation.
Leave(m) ==
    /\ todo' = [todo EXCEPT ![m] = {}]
    /\ note' = [note EXCEPT ![m] = 0]
    /\ verdict' = [verdict EXCEPT ![m] = "none"]
    /\ UNCHANGED attempts

\* Faulty: no attempt is the last.
ThrowForever(m, R) == Goto(m, "queued") /\ UNCHANGED noted

\* The consumers' catch: an error the classifier calls permanent, or one that
\* used up its attempts, is an incident and an ack; the others come back.  The
\* incident names the message's refund and, in the error text, those in R.
Throw(m, R) ==
    \/ /\ attempts[m] < MaxAttempts
       /\ Goto(m, "queued")
       /\ UNCHANGED noted
    \/ /\ Goto(m, "given up")
       /\ Note({m} \cup R)

-----------------------------------------------------------------------------
(* One delivery.                                                           *)

\* The pause, the subscription gate, and on Shopify's path an order never paid, a
\* document that is a draft or no longer stands, a VIES answer to wait for: what is
\* recorded names the order, and the message is acknowledged.
Stop(m) ==
    /\ pc[m] = "read"
    /\ Goto(m, "acked")
    /\ Note(Announced)
    /\ UNCHANGED <<path, invoice, local, credit_notes, notes, crashes>>

\* The order is normalized and its document read: without one, or when a call
\* fails, the message is thrown back.
\* The refunds to look at are the order's, less those the related documents show
\* a credit note for; a failed read of those shows none.
Read(m) ==
    /\ pc[m] = "read"
    /\ \/ /\ invoice # "none"
          /\ path = "adapter" \/ invoice = "final"
          /\ \/ todo' = [todo EXCEPT ![m] =
                            IF path = "legacy" THEN {r \in Announced : Live(r) = {}}
                            ELSE Announced]
             \/ /\ path = "legacy" /\ RelatedFaults
                /\ todo' = [todo EXCEPT ![m] = Announced]
          /\ Goto(m, "claim")
          /\ UNCHANGED <<attempts, note, verdict, noted>>
       \/ /\ Throw(m, {})
          /\ UNCHANGED local
    /\ UNCHANGED <<path, invoice, credit_notes, notes, crashes>>

\* Faulty variants, one at a time put in the place of the operator they precede,
\* show that the properties notice: here, a takeover that forgets claimed_at < ?.
TakeableFresh(row) ==
    \/ row.state = "none"
    \/ row.state = "issuing" /\ row.note = 0

\* Faulty: a refused refund is tried again.
TakeableRefused(row) ==
    \/ row.state \in {"none", "refused"}
    \/ row.state = "issuing" /\ row.note = 0 /\ row.stale

\* May claimRefundCredit hand the row over?  A row that names a document never.
Takeable(row) ==
    \/ row.state = "none"
    \/ row.state = "issuing" /\ row.note = 0 /\ row.stale

\* claimRefundCredit: won; or done or held, and the loop goes on; or blocked,
\* the ledger not answering, and nothing is issued blind.
Claim(m) ==
    /\ pc[m] = "claim" /\ todo[m] # {}
    /\ LET r == Current(m)
       IN \/ /\ Takeable(credit_notes[r])
             /\ credit_notes' = [credit_notes EXCEPT ![r] = Claimed]
             /\ Goto(m, IF path = "adapter" THEN "lookup" ELSE "issue")
             /\ UNCHANGED <<local, noted>>
          \/ /\ ~Takeable(credit_notes[r])
             /\ todo' = [todo EXCEPT ![m] = @ \ {r}]
             /\ UNCHANGED <<pc, attempts, note, verdict, credit_notes, noted>>
          \/ /\ LedgerFaults
             /\ Throw(m, {r})
             /\ Leave(m)
             /\ UNCHANGED credit_notes
    /\ UNCHANGED <<path, invoice, notes, crashes>>

\* Every refund looked at: the message is acknowledged.
Finish(m) ==
    /\ pc[m] = "claim" /\ todo[m] = {}
    /\ Goto(m, "acked")
    /\ Leave(m)
    /\ UNCHANGED <<path, invoice, credit_notes, notes, noted, crashes>>

Decide(m, v) ==
    /\ verdict' = [verdict EXCEPT ![m] = v]
    /\ Goto(m, "write")

\* The adapter path asks the destination for the refund's reference under the
\* claim; what it is shown is never given a twin.  A search that fails for the moment
\* is thrown, one Moloni refuses (any other status) is taken for a miss.
Lookup(m) ==
    /\ pc[m] = "lookup"
    /\ \/ Live(Current(m)) # {} /\ Decide(m, "refused")
       \/ /\ Live(Current(m)) = {} \/ MissedLookups
          /\ Goto(m, "issue") /\ UNCHANGED verdict
       \/ Decide(m, "released")
    /\ UNCHANGED <<path, invoice, attempts, todo, note, credit_notes, notes, noted, crashes>>

\* planRefundCredit and the create: refused for good, failed with nothing
\* created, or created; an answer that is lost counts as failed.  On the adapter
\* path this is where a draft invoice shows.
Issue(m) ==
    /\ pc[m] = "issue"
    /\ \/ /\ Decide(m, "refused") \/ Decide(m, "released")
          /\ UNCHANGED <<note, notes>>
       \/ /\ invoice = "draft"
          /\ Decide(m, "on draft")
          /\ UNCHANGED <<note, notes>>
       \/ /\ invoice = "final" /\ Len(notes) < MaxNotes
          /\ notes' = Append(notes, [refund |-> Current(m), state |-> "draft"])
          /\ \/ /\ note' = [note EXCEPT ![m] = Len(notes) + 1]
                /\ Goto(m, "finalize")
                /\ UNCHANGED verdict
             \/ /\ LostAnswers
                /\ Decide(m, "released")
                /\ UNCHANGED note
    /\ UNCHANGED <<path, invoice, attempts, todo, credit_notes, noted, crashes>>

\* Faulty: the problem of the finalize call is discarded.
FinalizeUnread(m) ==
    /\ pc[m] = "finalize"
    /\ \/ notes' = [notes EXCEPT ![note[m]].state = "final"]
       \/ UNCHANGED notes
    /\ Decide(m, "issued")
    /\ UNCHANGED <<path, invoice, attempts, todo, note, credit_notes, noted, crashes>>

\* changeState to finalized, or a problem: then the draft is to be taken back.
Finalize(m) ==
    /\ pc[m] = "finalize"
    /\ \/ /\ notes' = [notes EXCEPT ![note[m]].state = "final"]
          /\ \/ Decide(m, "issued")
             \/ LostAnswers /\ Goto(m, "withdraw") /\ UNCHANGED verdict
       \/ Goto(m, "withdraw") /\ UNCHANGED <<notes, verdict>>
    /\ UNCHANGED <<path, invoice, attempts, todo, note, credit_notes, noted, crashes>>

\* Faulty: the row is given back although the draft could not be removed.
WithdrawCareless(m) ==
    /\ pc[m] = "withdraw"
    /\ Decide(m, "released")
    /\ UNCHANGED <<path, invoice, attempts, todo, note, credit_notes, notes, noted, crashes>>

\* changeState to deleted, which a final document refuses.  Gone: the refund is
\* refused for good or may be tried again.  Still there: the row will name it.
Withdraw(m) ==
    /\ pc[m] = "withdraw"
    /\ \/ /\ notes[note[m]].state = "draft"
          /\ notes' = [notes EXCEPT ![note[m]].state = "deleted"]
          /\ Decide(m, "refused") \/ Decide(m, "released")
       \/ Decide(m, "named") /\ UNCHANGED notes
    /\ UNCHANGED <<path, invoice, attempts, todo, note, credit_notes, noted, crashes>>

\* The row after markRefundCredited, markRefundCreditRefused,
\* noteRefundCreditDraft or releaseRefundCredit.
Written(row, v, i) ==
    CASE v = "issued"  -> [row EXCEPT !.state = "issued", !.note = i]
      [] v = "refused" -> [row EXCEPT !.state = "refused"]
      [] v = "named"   -> [row EXCEPT !.note = i]
      [] OTHER -> IF row.state = "issuing" /\ row.note = 0 THEN NoRow ELSE row

\* The ledger write, whose error is swallowed, and what follows it: the next
\* refund, or the throw that sends the message round again.  A refusal and a
\* refund on a draft are reported.
Write(m) ==
    /\ pc[m] = "write"
    /\ LET r == Current(m)
           v == verdict[m]
       IN /\ \/ credit_notes' = [credit_notes EXCEPT ![r] = Written(@, v, note[m])]
             \/ LedgerFaults /\ UNCHANGED credit_notes
          /\ \/ /\ v \in {"issued", "refused", "on draft"}
                /\ Goto(m, "claim")
                /\ todo' = [todo EXCEPT ![m] = @ \ {r}]
                /\ note' = [note EXCEPT ![m] = 0]
                /\ verdict' = [verdict EXCEPT ![m] = "none"]
                /\ Note(IF v = "issued" THEN {} ELSE {r})
                /\ UNCHANGED attempts
             \/ /\ v \in {"named", "released"}
                /\ Throw(m, {r})
                /\ Leave(m)
    /\ UNCHANGED <<path, invoice, notes, crashes>>

-----------------------------------------------------------------------------

\* The invocation dies; its row stays and the queue redelivers its message.
Crash(m) ==
    /\ crashes < MaxCrashes
    /\ pc[m] \in Working
    /\ crashes' = crashes + 1
    /\ Throw(m, {})
    /\ Leave(m)
    /\ UNCHANGED <<path, invoice, credit_notes, notes>>

\* A claim passes staleAfterMs: ten minutes, longer than any invocation lasts,
\* so nobody alive has planned around this refund since before it was taken.
Age(r) ==
    /\ credit_notes[r].state = "issuing" /\ ~credit_notes[r].stale
    /\ \A m \in Refunds : ~Holds(m, r)
    /\ credit_notes' = [credit_notes EXCEPT ![r].stale = TRUE]
    /\ UNCHANGED <<path, invoice, pc, local, notes, noted, crashes>>

Next ==
    \/ Invoice
    \/ \E r \in Refunds :
          \/ Refund(r) \/ Receive(r) \/ Stop(r) \/ Read(r) \/ Claim(r) \/ Finish(r)
          \/ Lookup(r) \/ Issue(r) \/ Finalize(r) \/ Withdraw(r) \/ Write(r)
          \/ Crash(r) \/ Age(r)

Spec == Init /\ [][Next]_vars

-----------------------------------------------------------------------------
(* Properties.                                                             *)

Rows == [state : {"none", "issuing", "issued", "refused"},
         note : 0..MaxNotes, stale : BOOLEAN]

TypeOK ==
    /\ path \in Paths
    /\ invoice \in {"none", "draft", "final", "gone"}
    /\ pc \in [Refunds -> {"unborn", "queued"} \cup Working \cup Ended]
    /\ attempts \in [Refunds -> 0..MaxAttempts]
    /\ todo \in [Refunds -> SUBSET Refunds]
    /\ note \in [Refunds -> 0..MaxNotes]
    /\ verdict \in [Refunds -> Verdicts]
    /\ credit_notes \in [Refunds -> Rows]
    /\ notes \in Seq([refund : Refunds, state : {"draft", "final", "deleted"}])
    /\ noted \in [Refunds -> BOOLEAN]
    /\ crashes \in 0..MaxCrashes

\* "One row per refund, so a credit note is issued once and only once"
\* (migrations/0066_credit_notes.sql:1): a refund never has two credit notes at
\* the destination, certified or draft, whatever its messages go through as long as
\* the row or the search shows the first (Seen, in CreditLedgerProofs).
NoTwin == \A r \in Refunds : Cardinality(Live(r)) <= 1

\* The ledger does not lie: a row that says "issued" names a certified note of
\* its own refund, and one that names a draft names one of its own.
RowTellsTruth ==
    \A r \in Refunds :
        LET row == credit_notes[r]
        IN /\ row.note # 0 => notes[row.note].refund = r
           /\ row.state = "issued" => notes[row.note].state = "final"

\* A refund whose row is issued, refused or names a document is closed: it stays
\* so, and no step of any message ever creates a credit note for it.
Closed(row) == row.state \in {"issued", "refused"} \/ row.note # 0

ClosedStaysClosed ==
    [][\A r \in Refunds :
          Closed(credit_notes[r]) => /\ Closed(credit_notes'[r])
                                     /\ Live(r)' \subseteq Live(r)]_vars

Settled == \A m \in Announced : pc[m] \in Ended
Credited(r) == \E i \in Live(r) : notes[i].state = "final"

\* No refund vanishes without a trace: when all messages have ended, each refund
\* has a certified note, a report, a row left in the ledger, or the order has an
\* incident, that of the message which held this refund while its own was
\* acknowledged ("let that one finish") and then was given up.
RefundTraceable ==
    Settled => \A r \in Announced :
        \/ Credited(r) \/ noted[r] \/ credit_notes[r].state # "none"
        \/ \E m \in Announced : pc[m] = "given up"

\* "A refund is never lost by waiting" (refunds-create.ts:139), "a refund
\* credited late is recoverable" (storage.ts:1555): when all messages have been
\* acknowledged, each refund has a certified note or was refused or reported.
RefundNotLost ==
    Settled => \A r \in Announced :
        Credited(r) \/ noted[r] \/ credit_notes[r].state = "refused"
=============================================================================
