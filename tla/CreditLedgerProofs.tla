------------------------- MODULE CreditLedgerProofs -------------------------
(***************************************************************************)
(* CreditLedger, for every set of refunds and every bound: whoever works   *)
(* on a refund owns its row; what is on record is true and stays closed,   *)
(* whatever fails; and, where nothing is created unseen, a refund has one  *)
(* credit note and never vanishes without a trace.                         *)
(***************************************************************************)
EXTENDS CreditLedger, SequenceTheorems, FiniteSetTheorems, WellFoundedInduction, TLAPS

\* Where a message owns the row of the refund it is at.
Holding == {"lookup", "issue", "finalize", "withdraw", "write"}

\* A message that may be handed over has an attempt left.
AttemptLeft == \A m \in Refunds : pc[m] \in {"unborn", "queued"} => attempts[m] < MaxAttempts

\* Between its claim and its write a message alone owns a row that is issuing, names no
\* document and is not stale.
Owned ==
    \A m \in Refunds : pc[m] \in Holding =>
        /\ todo[m] # {}
        /\ credit_notes[Current(m)] = Claimed
        /\ \A n \in Refunds : pc[n] \in Holding /\ Current(n) = Current(m) => n = m

\* What a message holds in a local is a note of the refund it is at, in the state its next
\* step takes it to be in.
HeldBy(m) ==
    LET i == note[m] IN
    pc[m] \in {"finalize", "withdraw"} \/ (pc[m] = "write" /\ verdict[m] \in {"issued", "named"}) =>
        /\ i \in DOMAIN notes /\ notes[i].refund = Current(m) /\ notes[i].state # "deleted"
        /\ pc[m] = "finalize" => notes[i].state = "draft"
        /\ pc[m] = "write" /\ verdict[m] = "issued" => notes[i].state = "final"

NoteHeld == \A m \in Refunds : HeldBy(m)

\* What is on record exists, and is certified if the row says so.
RowHolds ==
    \A r \in Refunds :
        LET row == credit_notes[r] IN
        /\ row.note # 0 => row.note \in DOMAIN notes /\ notes[row.note].refund = r
        /\ row.state = "issued" => row.note # 0 /\ notes[row.note].state = "final"
        /\ row.state = "none" => row.note = 0

LedgerInv == TypeOK /\ Len(notes) <= MaxNotes /\ AttemptLeft /\ Owned /\ NoteHeld /\ RowHolds

\* Nothing is created unseen: the adapter path searches under the claim, which must show what
\* stands; Shopify's reads the related documents, which a failed read does not show, before it.
Seen ==
    /\ "adapter" \in Paths => ~MissedLookups
    /\ "legacy" \in Paths => ~RelatedFaults /\ ~LostAnswers

\* No two notes of a refund stand.
Single == \A r \in Refunds : \A i, j \in Live(r) : i = j

\* Whoever is about to create finds nothing.  On Shopify's path, what may be claimed by somebody
\* who has planned for it has no note, nor has what a claim is given back for.
Unissued ==
    /\ \A m \in Refunds : pc[m] = "issue" => Live(Current(m)) = {}
    /\ path = "legacy" =>
          /\ \A m \in Refunds : /\ pc[m] # "lookup"
                                /\ pc[m] = "write" /\ verdict[m] \in {"none", "released", "on draft"}
                                     => Live(Current(m)) = {}
          /\ \A m, r \in Refunds : Holds(m, r) /\ Takeable(credit_notes[r]) => Live(r) = {}
          /\ \A r \in Refunds : credit_notes[r].state = "none" => Live(r) = {}

\* A message that will come to a refund.
Owes(m, r) == pc[m] \in {"queued", "read"} \/ Holds(m, r)

Trace(r) ==
    \/ pc[r] = "unborn" \/ Credited(r) \/ noted[r] \/ credit_notes[r].state # "none"
    \/ \E m \in Refunds : pc[m] = "given up" \/ Owes(m, r)

Traced == \A r \in Refunds : Trace(r)

TwinInv == Single /\ Unissued

-----------------------------------------------------------------------------
(* What the refunds of an order are looked at in the order of.             *)

\* A set of naturals that is not empty has a least member.
LEMMA LeastMember ==
    ASSUME NEW S \in SUBSET Nat, S # {}
    PROVE  Min(S) \in S
<1> DEFINE Less == {p \in Nat \X Nat : p[1] < p[2]}
<1>1. IsWellFoundedOn(Less, Nat)
  BY NatLessThanWellFounded DEF OpToRel
<1>2. \E x \in S : \A y \in S : <<y, x>> \notin Less
  <2> HIDE DEF Less
  <2> QED
    BY <1>1, WFMin
<1>3. \A x, y \in S : <<y, x>> \notin Less => x <= y
  OBVIOUS
<1> QED
  BY <1>2, <1>3 DEF Min

LEMMA CurrentIsToDo ==
    ASSUME TypeOK, NEW m \in Refunds, todo[m] # {}
    PROVE  Current(m) \in todo[m] /\ Current(m) \in Refunds
BY LeastMember, ConstantsOK DEF TypeOK, Current

-----------------------------------------------------------------------------
(* What the destination holds.                                             *)

NoteStates == {"draft", "final", "deleted"}
NoteRec    == [refund : Refunds, state : NoteStates]

\* The create adds one note and disturbs no other.
LEMMA NoteAdded ==
    ASSUME notes \in Seq(NoteRec), NEW r \in Refunds,
           notes' = Append(notes, [refund |-> r, state |-> "draft"])
    PROVE  /\ notes' \in Seq(NoteRec) /\ Len(notes') = Len(notes) + 1
           /\ Len(notes) \in Nat /\ DOMAIN notes = 1..Len(notes)
           /\ DOMAIN notes' = 1..(Len(notes) + 1)
           /\ notes'[Len(notes) + 1] = [refund |-> r, state |-> "draft"]
           /\ \A i \in DOMAIN notes : notes'[i] = notes[i]
BY DEF NoteRec, NoteStates

\* A change of state is of that note alone, which stays of its refund.
LEMMA NoteChanged ==
    ASSUME notes \in Seq(NoteRec), NEW i \in DOMAIN notes, NEW s \in NoteStates,
           notes' = [notes EXCEPT ![i].state = s]
    PROVE  /\ notes' \in Seq(NoteRec) /\ Len(notes') = Len(notes) /\ DOMAIN notes' = DOMAIN notes
           /\ notes'[i].refund = notes[i].refund /\ notes'[i].state = s
           /\ \A j \in DOMAIN notes : j # i => notes'[j] = notes[j]
<1>1. DOMAIN notes = 1..Len(notes) /\ notes[i] \in NoteRec
  OBVIOUS
<1>2. [notes[i] EXCEPT !.state = s] \in NoteRec
  BY <1>1 DEF NoteRec
<1> QED
  BY <1>1, <1>2, ExceptSeq DEF NoteRec

-----------------------------------------------------------------------------
(* Types.                                                                  *)

Typed == TypeOK /\ Len(notes) <= MaxNotes /\ AttemptLeft

LEMMA TypesInit == Init => Typed
BY ConstantsOK DEF Init, Typed, TypeOK, AttemptLeft, NoRow, Rows, Verdicts, Working, Ended

\* A message that is thrown back has an attempt left, one that is given up needs none.
LEMMA ThrownTypes ==
    ASSUME Typed, NEW m \in Refunds, NEW R, Throw(m, R), UNCHANGED attempts
    PROVE  /\ pc' \in [Refunds -> {"unborn", "queued"} \cup Working \cup Ended]
           /\ noted' \in [Refunds -> BOOLEAN]
           /\ AttemptLeft'
<1>1. CASE attempts[m] < MaxAttempts /\ Goto(m, "queued") /\ UNCHANGED noted
  BY <1>1 DEF Typed, TypeOK, AttemptLeft, Goto
<1>2. CASE Goto(m, "given up") /\ Note({m} \cup R)
  BY <1>2 DEF Typed, TypeOK, AttemptLeft, Goto, Note, Ended
<1> QED
  BY <1>1, <1>2 DEF Throw

LEMMA MovedTypes ==
    ASSUME Typed, NEW m \in Refunds, NEW label \in Working \cup {"acked"}, Goto(m, label),
           UNCHANGED attempts
    PROVE  /\ pc' \in [Refunds -> {"unborn", "queued"} \cup Working \cup Ended]
           /\ AttemptLeft'
<1>1. label \notin {"unborn", "queued"} /\ label \in Working \cup Ended
  BY DEF Working, Ended
<1> QED
  BY <1>1 DEF Typed, TypeOK, AttemptLeft, Goto

LEMMA LeftTypes ==
    ASSUME Typed, NEW m \in Refunds, Leave(m)
    PROVE  /\ todo' \in [Refunds -> SUBSET Refunds] /\ note' \in [Refunds -> 0..MaxNotes]
           /\ verdict' \in [Refunds -> Verdicts] /\ attempts' = attempts
<1>1. todo' \in [Refunds -> SUBSET Refunds]
  BY DEF Typed, TypeOK, Leave
<1>2. note' \in [Refunds -> 0..MaxNotes]
  BY ConstantsOK DEF Typed, TypeOK, Leave
<1>3. verdict' \in [Refunds -> Verdicts]
  BY DEF Typed, TypeOK, Leave, Verdicts
<1> QED
  BY <1>1, <1>2, <1>3 DEF Leave

\* An invocation that ends, acknowledged or not.
LEMMA ThrownAndLeft ==
    ASSUME Typed, NEW m \in Refunds, NEW R, Throw(m, R), Leave(m),
           credit_notes' \in [Refunds -> Rows], crashes' \in 0..MaxCrashes,
           UNCHANGED <<path, invoice, notes>>
    PROVE  Typed'
<1>1. attempts' = attempts
  BY DEF Leave
<1>2. /\ pc' \in [Refunds -> {"unborn", "queued"} \cup Working \cup Ended]
      /\ noted' \in [Refunds -> BOOLEAN]
      /\ AttemptLeft'
  BY <1>1, ThrownTypes
<1> QED
  BY <1>1, <1>2, LeftTypes DEF Typed, TypeOK

LEMMA WrittenTypes ==
    ASSUME NEW row \in Rows, NEW v, NEW i \in 0..MaxNotes
    PROVE  Written(row, v, i) \in Rows
BY ConstantsOK DEF Written, Rows, NoRow

LEMMA TypesNext == LedgerInv /\ [Next]_vars => Typed'
<1> SUFFICES ASSUME LedgerInv, [Next]_vars PROVE Typed'
  OBVIOUS
<1> USE ConstantsOK DEF LedgerInv, Typed
<1>1. ASSUME Invoice PROVE Typed'
  BY <1>1 DEF Invoice, TypeOK, AttemptLeft, local
<1>2. ASSUME NEW r \in Refunds, Refund(r) PROVE Typed'
  BY <1>2 DEF Refund, Goto, TypeOK, AttemptLeft, local
<1>3. ASSUME NEW m \in Refunds, Receive(m) PROVE Typed'
  BY SMTT(30), <1>3 DEF Receive, Goto, TypeOK, AttemptLeft, Working
<1>4. ASSUME NEW m \in Refunds, Stop(m) PROVE Typed'
  BY <1>4 DEF Stop, Goto, Note, TypeOK, AttemptLeft, Ended, local
<1>5. ASSUME NEW m \in Refunds, Read(m) PROVE Typed'
  <2>1. CASE Throw(m, {}) /\ UNCHANGED local
    BY <1>5, <2>1, ThrownTypes DEF Read, TypeOK, local
  <2>2. CASE ~(Throw(m, {}) /\ UNCHANGED local)
    <3>1. /\ todo' \in [Refunds -> SUBSET Refunds]
          /\ Goto(m, "claim") /\ UNCHANGED <<path, invoice, attempts, note, verdict, credit_notes, notes, noted, crashes>>
      BY <1>5, <2>2 DEF Read, TypeOK, Announced
    <3> QED
      BY <3>1, MovedTypes DEF TypeOK, Working
  <2> QED
    BY <2>1, <2>2
<1>6. ASSUME NEW m \in Refunds, Claim(m) PROVE Typed'
  <2>1. CASE Throw(m, {Current(m)}) /\ Leave(m) /\ UNCHANGED credit_notes
    BY <1>6, <2>1, ThrownAndLeft DEF Claim, TypeOK
  <2>2. CASE /\ credit_notes' = [credit_notes EXCEPT ![Current(m)] = Claimed]
             /\ Goto(m, IF path = "adapter" THEN "lookup" ELSE "issue")
             /\ UNCHANGED <<local, noted>>
    <3>1. Claimed \in Rows
      BY DEF Claimed, Rows
    <3>2. credit_notes' \in [Refunds -> Rows]
      BY <2>2, <3>1 DEF TypeOK
    <3>3. UNCHANGED <<path, invoice, attempts, todo, note, verdict, notes, noted, crashes>>
      BY <1>6, <2>2 DEF Claim, local
    <3>4. Goto(m, "lookup") \/ Goto(m, "issue")
      BY <2>2
    <3> QED
      BY <3>2, <3>3, <3>4, MovedTypes DEF TypeOK, Working
  <2>3. CASE /\ todo' = [todo EXCEPT ![m] = @ \ {Current(m)}]
             /\ UNCHANGED <<pc, attempts, note, verdict, credit_notes, noted>>
    BY <1>6, <2>3 DEF Claim, TypeOK, AttemptLeft
  <2> QED
    BY <1>6, <2>1, <2>2, <2>3 DEF Claim
<1>7. ASSUME NEW m \in Refunds, Finish(m) PROVE Typed'
  <2>1. Goto(m, "acked") /\ Leave(m) /\ UNCHANGED <<path, invoice, credit_notes, notes, noted, crashes>>
    BY <1>7 DEF Finish
  <2> QED
    BY <2>1, MovedTypes, LeftTypes DEF TypeOK
<1>8. ASSUME NEW m \in Refunds, Lookup(m) PROVE Typed'
  <2>1. /\ Goto(m, "issue") \/ Goto(m, "write")
        /\ verdict' \in [Refunds -> Verdicts]
        /\ UNCHANGED <<path, invoice, attempts, todo, note, credit_notes, notes, noted, crashes>>
    BY <1>8 DEF Lookup, Decide, TypeOK, Verdicts
  <2> QED
    BY <2>1, MovedTypes DEF TypeOK, Working
<1>9. ASSUME NEW m \in Refunds, Issue(m) PROVE Typed'
  <2>1. /\ Goto(m, "finalize") \/ Goto(m, "write")
        /\ verdict' \in [Refunds -> Verdicts]
        /\ UNCHANGED <<path, invoice, attempts, todo, credit_notes, noted, crashes>>
    BY <1>9 DEF Issue, Decide, TypeOK, Verdicts
  <2>2. CASE UNCHANGED <<note, notes>>
    BY <2>1, <2>2, MovedTypes DEF TypeOK, Working
  <2>3. CASE ~UNCHANGED <<note, notes>>
    <3>1. /\ Len(notes) < MaxNotes
          /\ notes' = Append(notes, [refund |-> Current(m), state |-> "draft"])
          /\ note' = [note EXCEPT ![m] = Len(notes) + 1] \/ UNCHANGED note
      BY <1>9, <2>3 DEF Issue
    <3>2. Current(m) \in Refunds
      BY <1>9, CurrentIsToDo DEF Issue, Owned, Holding
    <3>3. notes' \in Seq(NoteRec) /\ Len(notes') = Len(notes) + 1 /\ Len(notes) \in Nat
      BY <3>1, <3>2, NoteAdded DEF TypeOK, NoteRec, NoteStates
    <3>4. note' \in [Refunds -> 0..MaxNotes]
      <4>1. Len(notes) + 1 \in 0..MaxNotes
        BY <3>1, <3>3
      <4> QED
        BY <3>1, <4>1 DEF TypeOK
    <3>5. Len(notes') <= MaxNotes
      BY <3>1, <3>3
    <3> QED
      BY <2>1, <3>3, <3>4, <3>5, MovedTypes DEF TypeOK, Working, NoteRec, NoteStates
  <2> QED
    BY <2>2, <2>3
<1>10. ASSUME NEW m \in Refunds, Finalize(m) PROVE Typed'
  <2>1. notes' \in Seq(NoteRec) /\ Len(notes') = Len(notes)
    BY <1>10, NoteChanged DEF Finalize, NoteHeld, HeldBy, TypeOK, NoteRec, NoteStates
  <2>2. /\ Goto(m, "withdraw") \/ Goto(m, "write")
        /\ verdict' \in [Refunds -> Verdicts]
        /\ UNCHANGED <<path, invoice, attempts, todo, note, credit_notes, noted, crashes>>
    BY <1>10 DEF Finalize, Decide, TypeOK, Verdicts
  <2> QED
    BY <2>1, <2>2, MovedTypes DEF TypeOK, Working, NoteRec, NoteStates
<1>11. ASSUME NEW m \in Refunds, Withdraw(m) PROVE Typed'
  <2>1. notes' \in Seq(NoteRec) /\ Len(notes') = Len(notes)
    BY <1>11, NoteChanged DEF Withdraw, NoteHeld, HeldBy, TypeOK, NoteRec, NoteStates
  <2>2. /\ Goto(m, "write")
        /\ verdict' \in [Refunds -> Verdicts]
        /\ UNCHANGED <<path, invoice, attempts, todo, note, credit_notes, noted, crashes>>
    BY <1>11 DEF Withdraw, Decide, TypeOK, Verdicts
  <2> QED
    BY <2>1, <2>2, MovedTypes DEF TypeOK, Working, NoteRec, NoteStates
<1>12. ASSUME NEW m \in Refunds, Write(m) PROVE Typed'
  <2>1. credit_notes' \in [Refunds -> Rows]
    <3>1. Current(m) \in Refunds
      BY <1>12, CurrentIsToDo DEF Write, Owned, Holding
    <3>2. Written(credit_notes[Current(m)], verdict[m], note[m]) \in Rows
      BY <3>1, WrittenTypes DEF TypeOK
    <3> QED
      BY <1>12, <3>2 DEF Write, TypeOK
  <2>2. CASE Throw(m, {Current(m)}) /\ Leave(m)
    BY <1>12, <2>1, <2>2, ThrownAndLeft DEF Write, TypeOK
  <2>3. CASE ~(Throw(m, {Current(m)}) /\ Leave(m))
    <3>1. /\ Goto(m, "claim") /\ UNCHANGED <<path, invoice, notes, crashes, attempts>>
          /\ todo' = [todo EXCEPT ![m] = @ \ {Current(m)}]
          /\ note' = [note EXCEPT ![m] = 0]
          /\ verdict' = [verdict EXCEPT ![m] = "none"]
          /\ Note(IF verdict[m] = "issued" THEN {} ELSE {Current(m)})
      BY <1>12, <2>3 DEF Write
    <3>2. todo' \in [Refunds -> SUBSET Refunds] /\ note' \in [Refunds -> 0..MaxNotes]
      BY <3>1 DEF TypeOK
    <3>3. verdict' \in [Refunds -> Verdicts] /\ noted' \in [Refunds -> BOOLEAN]
      BY <3>1 DEF Note, TypeOK, Verdicts
    <3> QED
      BY <2>1, <3>1, <3>2, <3>3, MovedTypes DEF TypeOK, Working
  <2> QED
    BY <2>2, <2>3
<1>13. ASSUME NEW m \in Refunds, Crash(m) PROVE Typed'
  <2>1. crashes' \in 0..MaxCrashes
    BY <1>13 DEF Crash, TypeOK
  <2>2. Throw(m, {}) /\ Leave(m) /\ UNCHANGED <<path, invoice, credit_notes, notes>>
    BY <1>13 DEF Crash
  <2> QED
    BY <2>1, <2>2, ThrownAndLeft DEF TypeOK
<1>14. ASSUME NEW r \in Refunds, Age(r) PROVE Typed'
  BY <1>14 DEF Age, TypeOK, AttemptLeft, Rows, local
<1>15. ASSUME UNCHANGED vars PROVE Typed'
  BY <1>15 DEF vars, TypeOK, AttemptLeft, local
<1> QED
  BY <1>1, <1>2, <1>3, <1>4, <1>5, <1>6, <1>7, <1>8, <1>9, <1>10, <1>11, <1>12, <1>13, <1>14, <1>15
     DEF Next

-----------------------------------------------------------------------------
(* What a step of one message leaves alone.                                *)

\* What the other messages have in hand.
Others(m) ==
    \A n \in Refunds \ {m} :
        pc'[n] = pc[n] /\ todo'[n] = todo[n] /\ note'[n] = note[n] /\ verdict'[n] = verdict[n]

\* A step of a message that ends outside its claim and touches neither table nor destination.
Quiet(m) == Others(m) /\ pc'[m] \notin Holding /\ UNCHANGED <<notes, credit_notes>>

\* The notes of other refunds are left alone, and a note stays of its refund.
NotesKept(m) ==
    /\ DOMAIN notes \subseteq DOMAIN notes'
    /\ \A i \in DOMAIN notes :
          /\ notes'[i].refund = notes[i].refund
          /\ notes[i].refund # Current(m) => notes'[i] = notes[i]
    /\ \A i \in DOMAIN notes' \ DOMAIN notes : notes'[i].refund = Current(m)

\* A step under a claim: neither the table nor what others have in hand is touched.
Work(m) ==
    /\ pc[m] \in Holding /\ pc'[m] \in Holding
    /\ Others(m) /\ todo'[m] = todo[m] /\ UNCHANGED credit_notes
    /\ NotesKept(m) /\ HeldBy(m)'

LEMMA GoneElsewhere ==
    ASSUME TypeOK, NEW m \in Refunds, NEW label, Goto(m, label)
    PROVE  pc'[m] = label /\ \A n \in Refunds \ {m} : pc'[n] = pc[n]
BY DEF TypeOK, Goto

LEMMA LeftElsewhere ==
    ASSUME TypeOK, NEW m \in Refunds, Leave(m)
    PROVE  \A n \in Refunds \ {m} : todo'[n] = todo[n] /\ note'[n] = note[n] /\ verdict'[n] = verdict[n]
BY DEF TypeOK, Leave

LEMMA ThrownElsewhere ==
    ASSUME TypeOK, NEW m \in Refunds, NEW R, Throw(m, R)
    PROVE  pc'[m] \in {"queued", "given up"} /\ \A n \in Refunds \ {m} : pc'[n] = pc[n]
BY GoneElsewhere DEF Throw

LEMMA QuietSteps ==
    ASSUME TypeOK, NEW m \in Refunds,
           \/ Refund(m) \/ Receive(m) \/ Stop(m) \/ Read(m) \/ Finish(m) \/ Crash(m)
           \/ Claim(m) /\ pc'[m] \notin Holding
    PROVE  Quiet(m)
<1> USE DEF Quiet, Others, Holding
<1>1. CASE Refund(m)
  BY <1>1, GoneElsewhere DEF Refund, local
<1>2. CASE Receive(m)
  BY <1>2, GoneElsewhere DEF Receive
<1>3. CASE Stop(m)
  BY <1>3, GoneElsewhere DEF Stop, local
<1>4. CASE Read(m)
  <2>1. CASE Throw(m, {}) /\ UNCHANGED local
    BY <1>4, <2>1, ThrownElsewhere DEF Read, local
  <2>2. CASE ~(Throw(m, {}) /\ UNCHANGED local)
    <3>1. /\ Goto(m, "claim") /\ UNCHANGED <<note, verdict, credit_notes, notes>>
          /\ \A n \in Refunds \ {m} : todo'[n] = todo[n]
      BY <1>4, <2>2 DEF Read, TypeOK
    <3> QED
      BY <3>1, GoneElsewhere
  <2> QED
    BY <2>1, <2>2
<1>5. CASE Finish(m)
  BY <1>5, GoneElsewhere, LeftElsewhere DEF Finish
<1>6. CASE Crash(m)
  BY <1>6, ThrownElsewhere, LeftElsewhere DEF Crash
<1>7. CASE Claim(m) /\ pc'[m] \notin Holding
  <2>0. CASE Goto(m, IF path = "adapter" THEN "lookup" ELSE "issue")
    BY <1>7, <2>0, GoneElsewhere
  <2>1. CASE Throw(m, {Current(m)}) /\ Leave(m) /\ UNCHANGED credit_notes
    BY <1>7, <2>1, ThrownElsewhere, LeftElsewhere DEF Claim
  <2>2. CASE /\ todo' = [todo EXCEPT ![m] = @ \ {Current(m)}]
             /\ UNCHANGED <<pc, attempts, note, verdict, credit_notes, noted>>
    BY <1>7, <2>2 DEF Claim, TypeOK
  <2> QED
    BY <1>7, <2>0, <2>1, <2>2 DEF Claim
<1> QED
  BY <1>1, <1>2, <1>3, <1>4, <1>5, <1>6, <1>7

-----------------------------------------------------------------------------
(* Ownership, and what is in hand and on record.                           *)

LEMMA QuietInv ==
    ASSUME LedgerInv, NEW m \in Refunds, Quiet(m)
    PROVE  Owned' /\ NoteHeld' /\ RowHolds'
<1>1. Owned'
  BY DEF LedgerInv, Quiet, Others, Owned, Current
<1>2. NoteHeld'
  BY DEF LedgerInv, Quiet, Others, NoteHeld, HeldBy, Current, Holding
<1>3. RowHolds'
  BY DEF LedgerInv, Quiet, RowHolds
<1> QED
  BY <1>1, <1>2, <1>3

\* Work under a claim: only the worker's own note is left to see to.
LEMMA WorkInv ==
    ASSUME LedgerInv, NEW m \in Refunds, Work(m)
    PROVE  Owned' /\ NoteHeld' /\ RowHolds'
<1> USE DEF LedgerInv, Work
<1>1. Owned'
  BY DEF Others, Owned, Current
<1>2. ASSUME NEW n \in Refunds, n # m PROVE HeldBy(n)'
  <2> SUFFICES ASSUME pc'[n] \in {"finalize", "withdraw"} \/ (pc'[n] = "write" /\ verdict'[n] \in {"issued", "named"})
               PROVE  HeldBy(n)'
    BY DEF HeldBy
  <2>1. /\ pc'[n] = pc[n] /\ todo'[n] = todo[n] /\ note'[n] = note[n] /\ verdict'[n] = verdict[n]
        /\ Current(n)' = Current(n) /\ pc[n] \in Holding
    BY <1>2 DEF Others, Current, Holding
  <2>2. HeldBy(n) /\ Current(n) # Current(m)
    BY <1>2, <2>1 DEF NoteHeld, Owned
  <2> QED
    BY <2>1, <2>2 DEF HeldBy, NotesKept
<1>3. RowHolds'
  <2> SUFFICES ASSUME NEW r \in Refunds
               PROVE  LET row == credit_notes[r] IN
                      /\ row.note # 0 => row.note \in DOMAIN notes' /\ notes'[row.note].refund = r
                      /\ row.state = "issued" => row.note # 0 /\ notes'[row.note].state = "final"
                      /\ row.state = "none" => row.note = 0
    BY DEF RowHolds
  <2>1. credit_notes[r].state = "issued" => r # Current(m)
    BY DEF Owned, Claimed
  <2> QED
    BY <2>1 DEF RowHolds, NotesKept
<1> QED
  BY <1>1, <1>2, <1>3 DEF NoteHeld

\* The claim that is won: nobody else can be at work on what may be taken.
LEMMA TakenInv ==
    ASSUME LedgerInv, NEW m \in Refunds, Claim(m), pc'[m] \in Holding
    PROVE  Owned' /\ NoteHeld' /\ RowHolds'
<1> USE DEF LedgerInv
<1>1. Current(m) \in Refunds /\ todo[m] # {}
  BY CurrentIsToDo DEF Claim
<1>2. /\ Takeable(credit_notes[Current(m)])
      /\ credit_notes' = [credit_notes EXCEPT ![Current(m)] = Claimed]
      /\ pc'[m] \in {"lookup", "issue"} /\ \A n \in Refunds \ {m} : pc'[n] = pc[n]
      /\ UNCHANGED <<todo, note, verdict, notes>>
  <2>1. CASE /\ Takeable(credit_notes[Current(m)])
             /\ credit_notes' = [credit_notes EXCEPT ![Current(m)] = Claimed]
             /\ Goto(m, IF path = "adapter" THEN "lookup" ELSE "issue")
             /\ UNCHANGED <<local, noted>>
    BY <2>1, GoneElsewhere DEF Claim, local
  <2>2. CASE Throw(m, {Current(m)})
    BY <2>2, ThrownElsewhere DEF Holding
  <2>3. CASE UNCHANGED pc
    BY <2>3 DEF Claim, Holding
  <2> QED
    BY <2>1, <2>2, <2>3 DEF Claim
<1>3. /\ credit_notes'[Current(m)] = Claimed
      /\ \A r \in Refunds \ {Current(m)} : credit_notes'[r] = credit_notes[r]
  BY <1>1, <1>2 DEF TypeOK
<1>4. \A n \in Refunds : Current(n)' = Current(n)
  BY <1>2 DEF Current
<1>5. ASSUME NEW n \in Refunds, n # m, pc'[n] \in Holding
      PROVE  pc[n] \in Holding /\ Current(n) # Current(m) /\ Current(n) \in Refunds
  BY <1>2, <1>5, CurrentIsToDo DEF Owned, Takeable, Claimed
<1>6. Owned'
  <2>1. ASSUME NEW n \in Refunds, pc'[n] \in Holding
        PROVE  todo'[n] # {} /\ credit_notes'[Current(n)] = Claimed
    BY <1>1, <1>2, <1>3, <1>5, <2>1 DEF Owned
  <2>2. ASSUME NEW n \in Refunds, NEW k \in Refunds, pc'[n] \in Holding, pc'[k] \in Holding,
               Current(n) = Current(k)
        PROVE  n = k
    BY <1>5, <2>2 DEF Owned
  <2> QED
    BY <1>4, <2>1, <2>2 DEF Owned
<1>7. NoteHeld'
  BY <1>2, <1>4 DEF NoteHeld, HeldBy
<1>8. RowHolds'
  BY <1>2, <1>3 DEF RowHolds, Claimed
<1> QED
  BY <1>6, <1>7, <1>8

\* The write: the worker's own row takes what its verdict and its note make of it.
LEMMA WriteInv ==
    ASSUME LedgerInv, NEW m \in Refunds, Write(m)
    PROVE  Owned' /\ NoteHeld' /\ RowHolds'
<1> USE DEF LedgerInv
<1> DEFINE r0 == Current(m)
           new == Written(credit_notes[r0], verdict[m], note[m])
<1>1. /\ r0 \in Refunds /\ pc[m] \in Holding /\ credit_notes[r0] = Claimed
      /\ \A n \in Refunds \ {m} : pc[n] \in Holding => Current(n) # r0 /\ Current(n) \in Refunds
  BY CurrentIsToDo DEF Write, Owned, Holding
<1>2. Others(m) /\ pc'[m] \notin Holding /\ UNCHANGED notes
  <2>1. CASE Throw(m, {r0}) /\ Leave(m)
    BY <2>1, ThrownElsewhere, LeftElsewhere DEF Write, Others, Holding
  <2>2. CASE ~(Throw(m, {r0}) /\ Leave(m))
    <3>1. /\ Goto(m, "claim") /\ UNCHANGED notes
          /\ todo' = [todo EXCEPT ![m] = @ \ {r0}]
          /\ note' = [note EXCEPT ![m] = 0]
          /\ verdict' = [verdict EXCEPT ![m] = "none"]
      BY <2>2 DEF Write
    <3> QED
      BY <3>1, GoneElsewhere DEF Others, Holding, TypeOK
  <2> QED
    BY <2>1, <2>2
<1>3. /\ \A r \in Refunds \ {r0} : credit_notes'[r] = credit_notes[r]
      /\ credit_notes'[r0] = credit_notes[r0] \/ credit_notes'[r0] = new
  BY <1>1 DEF Write, TypeOK
<1>4. \A n \in Refunds \ {m} : Current(n)' = Current(n)
  BY <1>2 DEF Others, Current
<1>5. Owned'
  BY <1>1, <1>2, <1>3, <1>4 DEF Owned, Others
<1>6. NoteHeld'
  BY <1>2, <1>4 DEF NoteHeld, HeldBy, Others, Holding
<1>7. /\ new.note # 0 => new.note \in DOMAIN notes /\ notes[new.note].refund = r0
      /\ new.state = "issued" => new.note # 0 /\ notes[new.note].state = "final"
      /\ new.state = "none" => new.note = 0
  <2>1. verdict[m] \in {"issued", "named"} =>
           /\ note[m] \in DOMAIN notes /\ notes[note[m]].refund = r0
           /\ verdict[m] = "issued" => notes[note[m]].state = "final"
    BY DEF NoteHeld, HeldBy, Write
  <2>2. \A i \in DOMAIN notes : i # 0
    BY DEF TypeOK
  <2> QED
    BY <1>1, <2>1, <2>2 DEF Written, Claimed, NoRow
<1>8. RowHolds'
  BY <1>2, <1>3, <1>7 DEF RowHolds
<1> QED
  BY <1>5, <1>6, <1>8

\* What goes stale is nobody's.
LEMMA AgeInv ==
    ASSUME LedgerInv, NEW r \in Refunds, Age(r)
    PROVE  Owned' /\ NoteHeld' /\ RowHolds'
<1> USE DEF LedgerInv
<1>1. UNCHANGED <<pc, todo, note, verdict, notes>> /\ \A n \in Refunds : Current(n)' = Current(n)
  BY DEF Age, local, Current
<1>2. \A n \in Refunds : pc[n] \in Holding => Current(n) # r
  BY CurrentIsToDo DEF Age, Holds, Owned, Holding, Working
<1>3. /\ \A q \in Refunds \ {r} : credit_notes'[q] = credit_notes[q]
      /\ credit_notes'[r].state = "issuing" /\ credit_notes'[r].note = credit_notes[r].note
  BY DEF Age, TypeOK, Rows
<1>4. Owned'
  BY <1>1, <1>2, <1>3, CurrentIsToDo DEF Owned
<1>5. NoteHeld'
  BY <1>1 DEF NoteHeld, HeldBy
<1>6. RowHolds'
  BY <1>1, <1>3 DEF RowHolds
<1> QED
  BY <1>4, <1>5, <1>6

\* A create adds a note behind all there are.
LEMMA CreateKeeps ==
    ASSUME TypeOK, NEW m \in Refunds, Current(m) \in Refunds,
           notes' = Append(notes, [refund |-> Current(m), state |-> "draft"])
    PROVE  NotesKept(m)
<1>1. notes \in Seq(NoteRec)
  BY DEF TypeOK, NoteRec, NoteStates
<1>2. /\ Len(notes) \in Nat /\ DOMAIN notes = 1..Len(notes) /\ DOMAIN notes' = 1..(Len(notes) + 1)
      /\ \A i \in DOMAIN notes : notes'[i] = notes[i]
      /\ notes'[Len(notes) + 1].refund = Current(m)
  BY <1>1, NoteAdded
<1> QED
  BY <1>2 DEF NotesKept

LEMMA ChangeKeeps ==
    ASSUME TypeOK, NEW m \in Refunds, note[m] \in DOMAIN notes, NEW s \in NoteStates,
           notes[note[m]].refund = Current(m), notes' = [notes EXCEPT ![note[m]].state = s]
    PROVE  NotesKept(m)
BY NoteChanged DEF TypeOK, NotesKept, NoteRec, NoteStates

LEMMA WorkSteps ==
    ASSUME LedgerInv, NEW m \in Refunds, Lookup(m) \/ Issue(m) \/ Finalize(m) \/ Withdraw(m)
    PROVE  Work(m)
<1> USE DEF LedgerInv, Work
<1>1. pc[m] \in Holding /\ UNCHANGED <<todo, credit_notes>> /\ Current(m) \in Refunds
      /\ Current(m)' = Current(m)
  BY CurrentIsToDo DEF Lookup, Issue, Finalize, Withdraw, Owned, Holding, Current
<1>2. ASSUME NEW v, Decide(m, v)
      PROVE  /\ pc'[m] = "write" /\ verdict'[m] = v
             /\ \A n \in Refunds \ {m} : pc'[n] = pc[n] /\ verdict'[n] = verdict[n]
  BY <1>2, GoneElsewhere DEF Decide, TypeOK
<1>3. CASE Lookup(m)
  <2>1. /\ pc'[m] = "issue" \/ (pc'[m] = "write" /\ verdict'[m] \notin {"issued", "named"})
        /\ Others(m) /\ UNCHANGED notes
    BY <1>1, <1>2, <1>3, GoneElsewhere DEF Lookup, Others
  <2>2. HeldBy(m)' /\ NotesKept(m) /\ pc'[m] \in Holding
    BY <2>1 DEF HeldBy, NotesKept, Holding
  <2> QED
    BY <1>1, <2>1, <2>2
<1>4. CASE Issue(m)
  <2>1. CASE notes' # Append(notes, [refund |-> Current(m), state |-> "draft"])
    <3>0. UNCHANGED <<note, notes>> /\ \E v \in {"refused", "released", "on draft"} : Decide(m, v)
      BY <1>4, <2>1 DEF Issue
    <3>1. pc'[m] = "write" /\ verdict'[m] \notin {"issued", "named"} /\ Others(m)
      BY <1>1, <1>2, <3>0 DEF Others
    <3>2. HeldBy(m)' /\ NotesKept(m) /\ pc'[m] \in Holding
      BY <3>0, <3>1 DEF HeldBy, NotesKept, Holding
    <3> QED
      BY <1>1, <3>1, <3>2
  <2>2. CASE notes' = Append(notes, [refund |-> Current(m), state |-> "draft"])
    <3>1. NotesKept(m)
      BY <1>1, <2>2, CreateKeeps
    <3>2. CASE LostAnswers /\ Decide(m, "released") /\ UNCHANGED note
      <4>1. Others(m) /\ pc'[m] = "write" /\ verdict'[m] = "released"
        BY <1>1, <1>2, <3>2 DEF Others
      <4> QED
        BY <1>1, <3>1, <4>1 DEF HeldBy, Holding
    <3>3. CASE note' = [note EXCEPT ![m] = Len(notes) + 1] /\ Goto(m, "finalize") /\ UNCHANGED verdict
      <4>1. Others(m) /\ pc'[m] = "finalize" /\ note'[m] = Len(notes) + 1
        BY <1>1, <3>3, GoneElsewhere DEF Others, TypeOK
      <4>2. Len(notes) + 1 \in DOMAIN notes' /\ notes'[Len(notes) + 1] = [refund |-> Current(m), state |-> "draft"]
        BY <1>1, <2>2, NoteAdded DEF TypeOK, NoteRec, NoteStates
      <4>3. HeldBy(m)'
        BY <1>1, <4>1, <4>2 DEF HeldBy
      <4> QED
        BY <1>1, <3>1, <4>1, <4>3 DEF Holding
    <3> QED
      <4>1. notes' # notes
        BY <1>1, <2>2, NoteAdded DEF TypeOK, NoteRec, NoteStates
      <4> QED
        BY <1>4, <4>1, <3>2, <3>3 DEF Issue
  <2> QED
    BY <1>4, <2>1, <2>2 DEF Issue
<1>5. CASE Finalize(m) \/ Withdraw(m)
  <2> DEFINE i == note[m]
  <2>1. i \in DOMAIN notes /\ notes[i].refund = Current(m) /\ notes[i].state # "deleted" /\ UNCHANGED note
    BY <1>5 DEF Finalize, Withdraw, NoteHeld, HeldBy
  <2>2. notes' = notes \/ \E s \in NoteStates : notes' = [notes EXCEPT ![i].state = s]
    BY <1>5 DEF Finalize, Withdraw, NoteStates
  <2>3. NotesKept(m)
    BY <2>1, <2>2, ChangeKeeps DEF NotesKept
  <2>4. \/ notes' = notes /\ pc'[m] = "withdraw" /\ Others(m)
        \/ notes' = [notes EXCEPT ![i].state = "final"] /\ pc'[m] = "withdraw" /\ Others(m)
        \/ notes' = [notes EXCEPT ![i].state = "final"] /\ pc'[m] = "write" /\ verdict'[m] = "issued" /\ Others(m)
        \/ notes' = notes /\ pc'[m] = "write" /\ verdict'[m] = "named" /\ Others(m)
        \/ pc'[m] = "write" /\ verdict'[m] \in {"refused", "released"} /\ Others(m)
    BY <1>1, <1>2, <1>5, <2>1, GoneElsewhere DEF Finalize, Withdraw, Others
  <2>5. notes' = [notes EXCEPT ![i].state = "final"] =>
           i \in DOMAIN notes' /\ notes'[i].refund = Current(m) /\ notes'[i].state = "final"
    BY <2>1, NoteChanged DEF TypeOK, NoteRec, NoteStates
  <2>6. HeldBy(m)'
    BY <1>1, <2>1, <2>4, <2>5 DEF HeldBy
  <2> QED
    BY <1>1, <2>3, <2>4, <2>6 DEF Holding
<1> QED
  BY <1>3, <1>4, <1>5

LEMMA IdleInv ==
    ASSUME LedgerInv, UNCHANGED <<pc, todo, note, verdict, credit_notes, notes>>
    PROVE  Owned' /\ NoteHeld' /\ RowHolds'
<1>1. \A m \in Refunds : Current(m)' = Current(m)
  BY DEF Current
<1>2. Owned' /\ RowHolds'
  BY <1>1 DEF LedgerInv, Owned, RowHolds
<1>3. NoteHeld'
  BY <1>1 DEF LedgerInv, NoteHeld, HeldBy
<1> QED
  BY <1>2, <1>3

\* Nobody's step takes a claim away from whoever works under it.
LEMMA LedgerNext == LedgerInv /\ [Next]_vars => LedgerInv'
<1> SUFFICES ASSUME LedgerInv, [Next]_vars PROVE LedgerInv'
  OBVIOUS
<1>1. Typed'
  BY TypesNext
<1>2. ASSUME Invoice \/ UNCHANGED vars PROVE Owned' /\ NoteHeld' /\ RowHolds'
  BY <1>2, IdleInv DEF Invoice, vars, local
<1>3. ASSUME NEW m \in Refunds,
             \/ Refund(m) \/ Receive(m) \/ Stop(m) \/ Read(m) \/ Finish(m) \/ Crash(m)
      PROVE  Owned' /\ NoteHeld' /\ RowHolds'
  BY <1>3, QuietSteps, QuietInv DEF LedgerInv
<1>4. ASSUME NEW m \in Refunds, Claim(m) PROVE Owned' /\ NoteHeld' /\ RowHolds'
  BY <1>4, QuietSteps, QuietInv, TakenInv DEF LedgerInv
<1>6. Owned' /\ NoteHeld' /\ RowHolds'
  BY <1>2, <1>3, <1>4, WorkSteps, WorkInv, WriteInv, AgeInv DEF Next, LedgerInv
<1> QED
  BY <1>1, <1>6 DEF LedgerInv, Typed

LEMMA LedgerAlways == Spec => []LedgerInv
<1>1. Init => LedgerInv
  <2> SUFFICES ASSUME Init PROVE LedgerInv
    OBVIOUS
  <2>1. Typed
    BY TypesInit
  <2>2. Owned /\ NoteHeld /\ RowHolds
    BY DEF Init, Owned, NoteHeld, HeldBy, RowHolds, Holding, NoRow
  <2> QED
    BY <2>1, <2>2 DEF LedgerInv, Typed
<1> QED
  BY <1>1, LedgerNext, PTL DEF Spec

\* Every variable keeps its type: a message that may be handed over always has an attempt left,
\* and a note a message holds is one the destination holds.
THEOREM CreditTypes == Spec => []TypeOK
BY LedgerAlways, PTL DEF LedgerInv

\* The ledger does not lie, whatever fails and wherever an invocation dies: a row that says
\* issued names a certified note of its own refund, and one that names a draft names its own.
THEOREM RowAlwaysTrue == Spec => []RowTellsTruth
<1>1. LedgerInv => RowTellsTruth
  BY DEF LedgerInv, RowHolds, RowTellsTruth
<1> QED
  BY <1>1, LedgerAlways, PTL

-----------------------------------------------------------------------------
(* What is closed stays closed.                                            *)

LEMMA LiveElsewhere ==
    ASSUME NEW m \in Refunds, NotesKept(m), NEW r \in Refunds, r # Current(m)
    PROVE  Live(r)' = Live(r)
BY DEF NotesKept, Live

\* The claim that is won is of a row that may be taken, and becomes the winner's.
LEMMA TakenRow ==
    ASSUME LedgerInv, NEW m \in Refunds, Claim(m), pc'[m] \in Holding
    PROVE  /\ Takeable(credit_notes[Current(m)]) /\ Current(m) \in Refunds
           /\ pc'[m] = (IF path = "adapter" THEN "lookup" ELSE "issue")
           /\ \A n \in Refunds \ {m} : pc'[n] = pc[n]
           /\ UNCHANGED <<todo, note, verdict, notes>>
           /\ credit_notes'[Current(m)] = Claimed
           /\ \A r \in Refunds \ {Current(m)} : credit_notes'[r] = credit_notes[r]
<1> USE DEF LedgerInv
<1>1. Current(m) \in Refunds
  BY CurrentIsToDo DEF Claim
<1>2. CASE /\ Takeable(credit_notes[Current(m)])
           /\ credit_notes' = [credit_notes EXCEPT ![Current(m)] = Claimed]
           /\ Goto(m, IF path = "adapter" THEN "lookup" ELSE "issue")
           /\ UNCHANGED <<local, noted>>
  BY <1>1, <1>2, GoneElsewhere DEF Claim, local, TypeOK
<1>3. CASE Throw(m, {Current(m)})
  BY <1>3, ThrownElsewhere DEF Holding
<1>4. CASE UNCHANGED pc
  BY <1>4 DEF Claim, Holding
<1> QED
  BY <1>2, <1>3, <1>4 DEF Claim

\* The write touches the writer's own row, which leaves its claim.
LEMMA WrittenRow ==
    ASSUME LedgerInv, NEW m \in Refunds, Write(m)
    PROVE  /\ Current(m) \in Refunds /\ pc[m] = "write" /\ credit_notes[Current(m)] = Claimed
           /\ Others(m) /\ pc'[m] \in {"claim", "queued", "given up"} /\ UNCHANGED notes
           /\ todo'[m] \subseteq todo[m]
           /\ \A r \in Refunds \ {Current(m)} : credit_notes'[r] = credit_notes[r]
           /\ \/ credit_notes'[Current(m)] = Claimed
              \/ credit_notes'[Current(m)] = Written(Claimed, verdict[m], note[m])
<1> USE DEF LedgerInv
<1>1. Current(m) \in Refunds /\ pc[m] = "write" /\ credit_notes[Current(m)] = Claimed
  BY CurrentIsToDo DEF Write, Owned, Holding
<1>2. CASE Throw(m, {Current(m)}) /\ Leave(m)
  <2>1. todo'[m] = {} /\ pc'[m] \in {"queued", "given up"} /\ Others(m)
    BY <1>2, ThrownElsewhere, LeftElsewhere DEF Leave, Others, TypeOK
  <2> QED
    BY <1>1, <2>1 DEF Write, TypeOK
<1>3. CASE ~(Throw(m, {Current(m)}) /\ Leave(m))
  <2>1. /\ Goto(m, "claim") /\ UNCHANGED notes
        /\ todo' = [todo EXCEPT ![m] = @ \ {Current(m)}]
        /\ note' = [note EXCEPT ![m] = 0]
        /\ verdict' = [verdict EXCEPT ![m] = "none"]
    BY <1>3 DEF Write
  <2>2. todo'[m] \subseteq todo[m] /\ pc'[m] = "claim" /\ Others(m)
    BY <2>1, GoneElsewhere DEF Others, TypeOK
  <2> QED
    BY <1>1, <2>1, <2>2 DEF Write, TypeOK
<1> QED
  BY <1>2, <1>3

\* A row that is done, refused or names a document is never claimed again, so nobody is at work
\* on its refund and no step creates a note for it, whatever messages come or come again.
THEOREM ClosedForGood == Spec => ClosedStaysClosed
<1>1. LedgerInv /\ [Next]_vars =>
        [\A r \in Refunds :
            Closed(credit_notes[r]) => /\ Closed(credit_notes'[r])
                                       /\ Live(r)' \subseteq Live(r)]_vars
  <2> SUFFICES ASSUME LedgerInv, [Next]_vars, NEW r \in Refunds, Closed(credit_notes[r])
               PROVE  Closed(credit_notes'[r]) /\ Live(r)' \subseteq Live(r)
    OBVIOUS
  <2> USE DEF LedgerInv
  <2>1. CASE UNCHANGED <<notes, credit_notes>>
    BY <2>1 DEF Live
  <2>2. ASSUME NEW m \in Refunds, Claim(m), pc'[m] \in Holding
        PROVE  Closed(credit_notes'[r]) /\ Live(r)' \subseteq Live(r)
    <3>1. Takeable(credit_notes[Current(m)])
      BY <2>2, TakenRow
    <3>2. r # Current(m)
      BY <3>1 DEF Takeable, Closed, RowHolds
    <3> QED
      BY <2>2, <3>2, TakenRow DEF Live
  <2>3. ASSUME NEW m \in Refunds, Work(m)
        PROVE  Closed(credit_notes'[r]) /\ Live(r)' \subseteq Live(r)
    <3>1. r # Current(m)
      BY <2>3 DEF Work, Owned, Claimed, Closed
    <3> QED
      BY <2>3, <3>1, LiveElsewhere DEF Work
  <2>4. ASSUME NEW m \in Refunds, Write(m)
        PROVE  Closed(credit_notes'[r]) /\ Live(r)' \subseteq Live(r)
    <3>1. credit_notes[Current(m)] = Claimed
      BY <2>4, WrittenRow
    <3>2. r # Current(m)
      BY <3>1 DEF Claimed, Closed
    <3> QED
      BY <2>4, <3>2, WrittenRow DEF Live
  <2>5. ASSUME NEW q \in Refunds, Age(q)
        PROVE  Closed(credit_notes'[r]) /\ Live(r)' \subseteq Live(r)
    BY <2>5 DEF Age, Live, Closed, TypeOK, Rows
  <2>6. ASSUME NEW m \in Refunds,
               \/ Refund(m) \/ Receive(m) \/ Stop(m) \/ Read(m) \/ Finish(m) \/ Crash(m)
               \/ Claim(m) /\ pc'[m] \notin Holding
        PROVE  UNCHANGED <<notes, credit_notes>>
    BY <2>6, QuietSteps DEF Quiet
  <2>7. ASSUME Invoice \/ UNCHANGED vars PROVE UNCHANGED <<notes, credit_notes>>
    BY <2>7 DEF Invoice, vars
  <2> QED
    BY <2>1, <2>2, <2>3, <2>4, <2>5, <2>6, <2>7, WorkSteps DEF Next
<1> QED
  BY <1>1, LedgerAlways, PTL DEF Spec, ClosedStaysClosed

-----------------------------------------------------------------------------
(* One credit note for a refund, where nothing is created unseen.          *)

LEMMA PathStays == LedgerInv /\ [Next]_vars => path' = path
BY DEF LedgerInv, TypeOK, vars, local, Next, Invoice, Refund, Receive, Stop, Read, Claim, Finish, Lookup,
       Issue, Finalize, Withdraw, Write, Crash, Age

LEMMA LegacySeen ==
    ASSUME Seen, TypeOK, path = "legacy"
    PROVE  ~RelatedFaults /\ ~LostAnswers
BY DEF Seen, TypeOK

LEMMA AdapterSeen ==
    ASSUME Seen, TypeOK, path # "legacy"
    PROVE  ~MissedLookups
BY ConstantsOK DEF Seen, TypeOK

\* What a step outside a claim leaves a message to look at: on Shopify's path, what it was at, or
\* what the related documents show nothing for.
LEMMA QuietToDo ==
    ASSUME Seen, LedgerInv, path = "legacy", NEW m \in Refunds, pc'[m] = "claim",
           \/ Refund(m) \/ Receive(m) \/ Stop(m) \/ Read(m) \/ Finish(m) \/ Crash(m)
           \/ Claim(m)
    PROVE  \A r \in todo'[m] : Holds(m, r) \/ Live(r) = {}
<1> USE DEF LedgerInv
<1>1. CASE Read(m)
  <2>1. ~Throw(m, {})
    BY ThrownElsewhere
  <2>2. todo' = [todo EXCEPT ![m] = {r \in Announced : Live(r) = {}}]
    BY <1>1, <2>1, LegacySeen DEF Read
  <2> QED
    BY <2>2 DEF TypeOK
<1>2. CASE Claim(m)
  <2>1. pc[m] = "claim" /\ ~Throw(m, {Current(m)})
    BY <1>2, ThrownElsewhere DEF Claim
  <2>2. todo'[m] \subseteq todo[m]
    BY <1>2, <2>1 DEF Claim, TypeOK, local
  <2> QED
    BY <2>1, <2>2 DEF Holds, Working
<1>3. CASE Refund(m) \/ Receive(m) \/ Stop(m) \/ Finish(m) \/ Crash(m)
  <2>1. pc'[m] \in {"queued", "read", "acked", "given up"}
    BY <1>3, GoneElsewhere, ThrownElsewhere DEF Refund, Receive, Stop, Finish, Crash
  <2> QED
    BY <2>1
<1> QED
  BY <1>1, <1>2, <1>3

\* What a step under a claim does to the notes of the refund it is at.
LEMMA WorkLive ==
    ASSUME LedgerInv, NEW m \in Refunds, Lookup(m) \/ Issue(m) \/ Finalize(m) \/ Withdraw(m)
    PROVE  /\ \/ Live(Current(m))' \subseteq Live(Current(m))
              \/ pc[m] = "issue" /\ \E i : Live(Current(m))' \subseteq Live(Current(m)) \cup {i}
           /\ pc'[m] = "issue" => pc[m] = "lookup" /\ (Live(Current(m))' = {} \/ MissedLookups)
           /\ pc'[m] = "lookup" => FALSE
           /\ pc'[m] = "write" /\ verdict'[m] \in {"none", "released", "on draft"} =>
                 \/ pc[m] = "lookup"
                 \/ pc[m] = "issue" /\ (LostAnswers \/ Live(Current(m))' \subseteq Live(Current(m)))
                 \/ pc[m] = "withdraw" /\ Live(Current(m))' \subseteq Live(Current(m)) \ {note[m]}
                       /\ note[m] \in Live(Current(m))
<1> USE DEF LedgerInv
<1>1. Current(m)' = Current(m) /\ Current(m) \in Refunds
  BY WorkSteps, CurrentIsToDo DEF Work, Current, Owned
<1>2. ASSUME NEW v, Decide(m, v) PROVE pc'[m] = "write" /\ verdict'[m] = v
  BY <1>2, GoneElsewhere DEF Decide, TypeOK
<1>3. UNCHANGED notes => Live(Current(m))' = Live(Current(m))
  BY <1>1 DEF Live
<1>4. CASE Lookup(m)
  <2>1. \/ pc'[m] = "write"
        \/ pc'[m] = "issue" /\ (Live(Current(m)) = {} \/ MissedLookups)
    BY <1>2, <1>4, GoneElsewhere DEF Lookup
  <2> QED
    BY <1>3, <1>4, <2>1 DEF Lookup
<1>5. CASE Issue(m)
  <2>1. CASE notes' # Append(notes, [refund |-> Current(m), state |-> "draft"])
    <3>1. UNCHANGED notes /\ \E v \in {"refused", "released", "on draft"} : Decide(m, v)
      BY <1>5, <2>1 DEF Issue
    <3> QED
      BY <1>2, <1>3, <1>5, <3>1 DEF Issue
  <2>2. CASE notes' = Append(notes, [refund |-> Current(m), state |-> "draft"])
    <3>1. Live(Current(m))' \subseteq Live(Current(m)) \cup {Len(notes) + 1}
      BY <1>1, <2>2, NoteAdded DEF Live, TypeOK, NoteRec, NoteStates
    <3>2. notes' # notes
      BY <1>1, <2>2, NoteAdded DEF TypeOK, NoteRec, NoteStates
    <3>3. \/ pc'[m] = "finalize"
          \/ LostAnswers /\ pc'[m] = "write"
      BY <1>2, <1>5, <3>2, GoneElsewhere DEF Issue
    <3> QED
      BY <1>5, <3>1, <3>3 DEF Issue
  <2> QED
    BY <2>1, <2>2
<1>6. CASE Finalize(m) \/ Withdraw(m)
  <2> DEFINE i == note[m]
  <2>1. i \in DOMAIN notes /\ i \in Live(Current(m))
    BY <1>6 DEF Finalize, Withdraw, NoteHeld, HeldBy, Live
  <2>2. \/ notes' = notes /\ pc'[m] \in {"withdraw", "write"} /\ (pc'[m] = "write" => verdict'[m] = "named")
        \/ /\ notes' = [notes EXCEPT ![i].state = "final"]
           /\ pc'[m] \in {"withdraw", "write"} /\ (pc'[m] = "write" => verdict'[m] = "issued")
        \/ /\ notes' = [notes EXCEPT ![i].state = "deleted"]
           /\ pc'[m] = "write" /\ pc[m] = "withdraw"
    BY <1>2, <1>6, GoneElsewhere DEF Finalize, Withdraw
  <2>3. ASSUME NEW s \in NoteStates, notes' = [notes EXCEPT ![i].state = s]
        PROVE  /\ Live(Current(m))' \subseteq Live(Current(m))
               /\ s = "deleted" => i \notin Live(Current(m))'
    BY <1>1, <2>1, <2>3, NoteChanged DEF Live, TypeOK, NoteRec, NoteStates
  <2>4. /\ notes' = [notes EXCEPT ![i].state = "final"] => Live(Current(m))' \subseteq Live(Current(m))
        /\ notes' = [notes EXCEPT ![i].state = "deleted"] =>
              Live(Current(m))' \subseteq Live(Current(m)) \ {i}
    BY <2>3 DEF NoteStates
  <2> QED
    BY <1>3, <2>1, <2>2, <2>4
<1> QED
  BY <1>4, <1>5, <1>6

LEMMA ClaimedRow == Claimed.state = "issuing" /\ ~Takeable(Claimed)
BY DEF Claimed, Takeable

\* Steps that leave the destination alone.
LEMMA TwinQuiet ==
    ASSUME Seen, LedgerInv, TwinInv, path' = path, NEW m \in Refunds, Quiet(m),
           pc'[m] = "claim" /\ path = "legacy" => \A r \in todo'[m] : Holds(m, r) \/ Live(r) = {}
    PROVE  TwinInv'
<1>1. \A r : Live(r)' = Live(r)
  BY DEF Quiet, Live
<1>2. Single'
  BY <1>1 DEF TwinInv, Single
<1>3. \A n \in Refunds \ {m} :
         /\ pc'[n] = pc[n] /\ verdict'[n] = verdict[n] /\ Current(n)' = Current(n)
         /\ \A r : Holds(n, r)' => Holds(n, r)
  BY DEF Quiet, Others, Current, Holds
<1>4. /\ pc'[m] \notin {"lookup", "issue", "write"}
      /\ \A r : Holds(m, r)' => pc'[m] = "claim" /\ r \in todo'[m]
  BY DEF Quiet, Holds, Holding, Working
<1>5. Unissued'
  BY <1>1, <1>3, <1>4 DEF TwinInv, Unissued, Quiet
<1> QED
  BY <1>2, <1>5 DEF TwinInv

LEMMA TwinTaken ==
    ASSUME Seen, LedgerInv, TwinInv, path' = path, NEW m \in Refunds, Claim(m), pc'[m] \in Holding
    PROVE  TwinInv'
<1> USE DEF LedgerInv
<1> DEFINE r0 == Current(m)
<1>1. /\ Takeable(credit_notes[r0]) /\ r0 \in todo[m] /\ r0 \in Refunds /\ pc[m] = "claim"
      /\ pc'[m] = (IF path = "adapter" THEN "lookup" ELSE "issue")
      /\ \A n \in Refunds \ {m} : pc'[n] = pc[n]
      /\ UNCHANGED <<todo, note, verdict, notes>>
      /\ credit_notes'[r0] = Claimed
      /\ \A r \in Refunds \ {r0} : credit_notes'[r] = credit_notes[r]
  BY TakenRow, CurrentIsToDo DEF Claim
<1>2. (\A r : Live(r)' = Live(r)) /\ \A n : Current(n)' = Current(n)
  BY <1>1 DEF Live, Current
<1>3. \A n \in Refunds, r \in Refunds : Holds(n, r)' => Holds(n, r)
  BY <1>1 DEF Holds, Working
<1>4. path = "legacy" => Live(r0) = {}
  BY <1>1 DEF TwinInv, Unissued, Holds, Working
<1>5. path \in {"legacy", "adapter"}
  BY ConstantsOK DEF TypeOK
<1>6. Single'
  BY <1>2 DEF TwinInv, Single
<1>7. \A n \in Refunds : pc'[n] = "issue" => Live(Current(n)) = {}
  BY <1>1, <1>4, <1>5 DEF TwinInv, Unissued
<1>8. path = "legacy" => \A n \in Refunds :
         /\ pc'[n] # "lookup"
         /\ pc'[n] = "write" /\ verdict[n] \in {"none", "released", "on draft"} => Live(Current(n)) = {}
  BY <1>1, <1>5 DEF TwinInv, Unissued
<1>9. path = "legacy" => \A n, r \in Refunds : Holds(n, r)' /\ Takeable(credit_notes'[r]) => Live(r) = {}
  BY <1>1, <1>3, ClaimedRow DEF TwinInv, Unissued
<1>10. path = "legacy" => \A r \in Refunds : credit_notes'[r].state = "none" => Live(r) = {}
  BY <1>1, ClaimedRow DEF TwinInv, Unissued
<1> QED
  BY <1>1, <1>2, <1>6, <1>7, <1>8, <1>9, <1>10 DEF TwinInv, Unissued

LEMMA TwinWork ==
    ASSUME Seen, LedgerInv, TwinInv, path' = path, NEW m \in Refunds,
           Lookup(m) \/ Issue(m) \/ Finalize(m) \/ Withdraw(m)
    PROVE  TwinInv'
<1> USE DEF LedgerInv
<1> DEFINE r0 == Current(m)
<1>1. Work(m) /\ r0 \in Refunds /\ r0' = r0 /\ todo[m] # {}
  BY WorkSteps, CurrentIsToDo DEF Work, Current, Owned
<1>2. \A r \in Refunds \ {r0} : Live(r)' = Live(r)
  BY <1>1, LiveElsewhere DEF Work
<1>3. \A n \in Refunds \ {m} :
         /\ pc'[n] = pc[n] /\ verdict'[n] = verdict[n] /\ Current(n)' = Current(n)
         /\ pc[n] \in Holding => Current(n) \in Refunds \ {r0}
         /\ \A r : Holds(n, r)' => Holds(n, r)
  BY <1>1, CurrentIsToDo DEF Work, Others, Current, Owned, Holds
<1>4. credit_notes[r0] = Claimed /\ UNCHANGED credit_notes
  BY <1>1 DEF Work, Owned
<1>5. \A r : Holds(m, r)' => Holds(m, r)
  BY <1>1 DEF Work, Holds, Holding, Working
<1>6. Single'
  <2>1. \A i, j \in Live(r0)' : i = j
    BY <1>1, WorkLive DEF TwinInv, Single, Unissued
  <2> QED
    <3>1. \A r \in Refunds : \A i, j \in Live(r) : i = j
      BY DEF TwinInv, Single
    <3>2. \A r \in Refunds : \A i, j \in Live(r)' : i = j
      BY <1>1, <1>2, <2>1, <3>1
    <3> QED
      BY <3>2 DEF Single
<1>7. pc'[m] = "issue" => Live(r0)' = {}
  <2>1. pc[m] = "lookup" => ~MissedLookups
    BY AdapterSeen DEF TwinInv, Unissued
  <2> QED
    BY <2>1, WorkLive
<1>8. path = "legacy" =>
        /\ pc'[m] # "lookup"
        /\ pc'[m] = "write" /\ verdict'[m] \in {"none", "released", "on draft"} => Live(r0)' = {}
  <2> SUFFICES ASSUME path = "legacy"
               PROVE  /\ pc'[m] # "lookup"
                      /\ pc'[m] = "write" /\ verdict'[m] \in {"none", "released", "on draft"} => Live(r0)' = {}
    OBVIOUS
  <2>1. pc[m] # "lookup" /\ ~LostAnswers
    BY LegacySeen DEF TwinInv, Unissued
  <2>2. pc[m] = "issue" => Live(r0) = {}
    BY DEF TwinInv, Unissued
  <2>3. note[m] \in Live(r0) => Live(r0) \ {note[m]} = {}
    BY <1>1 DEF TwinInv, Single
  <2> QED
    BY <2>1, <2>2, <2>3, WorkLive
<1>9. \A n \in Refunds : pc'[n] = "issue" => Live(Current(n))' = {}
  <2>1. ASSUME NEW n \in Refunds \ {m}, pc'[n] = "issue" PROVE Live(Current(n))' = {}
    <3>1. Current(n)' = Current(n) /\ Live(Current(n)) = {} /\ Current(n) \in Refunds \ {r0}
      BY <1>3, <2>1 DEF TwinInv, Unissued, Holding
    <3> QED
      BY <1>2, <3>1 DEF Live
  <2> QED
    BY <1>1, <1>7, <2>1 DEF Live
<1>10. path = "legacy" => \A n \in Refunds :
         /\ pc'[n] # "lookup"
         /\ pc'[n] = "write" /\ verdict'[n] \in {"none", "released", "on draft"} => Live(Current(n))' = {}
  <2>1. ASSUME path = "legacy", NEW n \in Refunds \ {m}
        PROVE  /\ pc'[n] # "lookup"
               /\ pc'[n] = "write" /\ verdict'[n] \in {"none", "released", "on draft"} => Live(Current(n))' = {}
    <3>1. pc'[n] # "lookup"
      BY <1>3, <2>1 DEF TwinInv, Unissued
    <3>2. ASSUME pc'[n] = "write", verdict'[n] \in {"none", "released", "on draft"}
          PROVE  Live(Current(n))' = {}
      <4>1. Current(n)' = Current(n) /\ Live(Current(n)) = {} /\ Current(n) \in Refunds \ {r0}
        BY <1>3, <2>1, <3>2 DEF TwinInv, Unissued, Holding
      <4> QED
        BY <1>2, <4>1 DEF Live
    <3> QED
      BY <3>1, <3>2
  <2> QED
    BY <1>1, <1>8, <2>1 DEF Live
<1>11. path = "legacy" => \A n, r \in Refunds : Holds(n, r)' /\ Takeable(credit_notes'[r]) => Live(r)' = {}
  <2>1. \A n, r \in Refunds : Holds(n, r)' => Holds(n, r)
    BY <1>3, <1>5
  <2>2. \A r \in Refunds : Takeable(credit_notes'[r]) => r # r0 /\ Takeable(credit_notes[r])
    BY <1>4, ClaimedRow
  <2> QED
    BY <1>2, <2>1, <2>2 DEF TwinInv, Unissued
<1>12. path = "legacy" => \A r \in Refunds : credit_notes'[r].state = "none" => Live(r)' = {}
  <2>1. \A r \in Refunds : credit_notes'[r].state = "none" => r # r0 /\ credit_notes[r].state = "none"
    BY <1>4, ClaimedRow
  <2> QED
    BY <1>2, <2>1 DEF TwinInv, Unissued
<1> QED
  BY <1>6, <1>9, <1>10, <1>11, <1>12 DEF TwinInv, Unissued

LEMMA TwinWrite ==
    ASSUME Seen, LedgerInv, TwinInv, path' = path, NEW m \in Refunds, Write(m)
    PROVE  TwinInv'
<1> USE DEF LedgerInv
<1> DEFINE r0 == Current(m)
<1>1. /\ r0 \in Refunds /\ pc[m] = "write"
      /\ Others(m) /\ pc'[m] \in {"claim", "queued", "given up"} /\ UNCHANGED notes
      /\ todo'[m] \subseteq todo[m]
      /\ \A r \in Refunds \ {r0} : credit_notes'[r] = credit_notes[r]
      /\ credit_notes'[r0] = Claimed \/ credit_notes'[r0] = Written(Claimed, verdict[m], note[m])
  BY WrittenRow
<1>2. \A r : Live(r)' = Live(r)
  BY <1>1 DEF Live
<1>3. \A n \in Refunds \ {m} :
         pc'[n] = pc[n] /\ verdict'[n] = verdict[n] /\ Current(n)' = Current(n)
  BY <1>1 DEF Others, Current
<1>4. \A n \in Refunds, r \in Refunds : Holds(n, r)' => Holds(n, r)
  BY <1>1 DEF Others, Holds, Working
<1>5. verdict[m] = "named" => note[m] # 0
  <2>1. verdict[m] = "named" => note[m] \in DOMAIN notes
    BY <1>1 DEF NoteHeld, HeldBy
  <2>2. 0 \notin DOMAIN notes
    BY DEF TypeOK
  <2> QED
    BY <2>1, <2>2
<1>6. Takeable(credit_notes'[r0]) => verdict[m] \in {"none", "released", "on draft"}
  <2>1. verdict[m] \in {"issued", "refused", "named"} => ~Takeable(Written(Claimed, verdict[m], note[m]))
    BY <1>5 DEF Takeable, Written, Claimed
  <2>2. verdict[m] \in {"none", "issued", "refused", "named", "released", "on draft"}
    BY DEF TypeOK, Verdicts
  <2> QED
    BY <1>1, <2>1, <2>2, ClaimedRow
<1>7. path = "legacy" => (Takeable(credit_notes'[r0]) => Live(r0) = {})
  BY <1>1, <1>6 DEF TwinInv, Unissued
<1>8. Single'
  BY <1>2 DEF TwinInv, Single
<1>9. \A n \in Refunds : pc'[n] = "issue" => Live(Current(n))' = {}
  BY <1>1, <1>2, <1>3 DEF TwinInv, Unissued
<1>10. path = "legacy" => \A n \in Refunds :
         /\ pc'[n] # "lookup"
         /\ pc'[n] = "write" /\ verdict'[n] \in {"none", "released", "on draft"} => Live(Current(n))' = {}
  BY <1>1, <1>2, <1>3 DEF TwinInv, Unissued
<1>11. path = "legacy" => \A n, r \in Refunds : Holds(n, r)' /\ Takeable(credit_notes'[r]) => Live(r)' = {}
  BY <1>1, <1>2, <1>4, <1>7 DEF TwinInv, Unissued
<1>12. path = "legacy" => \A r \in Refunds : credit_notes'[r].state = "none" => Live(r)' = {}
  BY <1>1, <1>2, <1>7 DEF TwinInv, Unissued, Takeable
<1> QED
  BY <1>8, <1>9, <1>10, <1>11, <1>12 DEF TwinInv, Unissued

LEMMA TwinAge ==
    ASSUME Seen, LedgerInv, TwinInv, path' = path, NEW q \in Refunds, Age(q)
    PROVE  TwinInv'
<1>1. UNCHANGED <<pc, todo, verdict, notes>> /\ \A m \in Refunds : ~Holds(m, q)
  BY DEF Age, local
<1>2. (\A r : Live(r)' = Live(r)) /\ \A n : Current(n)' = Current(n)
  BY <1>1 DEF Live, Current
<1>3. /\ \A r \in Refunds \ {q} : credit_notes'[r] = credit_notes[r]
      /\ credit_notes'[q].state = "issuing"
  BY DEF Age, LedgerInv, TypeOK, Rows
<1>4. Single'
  BY <1>2 DEF TwinInv, Single
<1>5. \A n, r \in Refunds : Holds(n, r)' => Holds(n, r)
  BY <1>1 DEF Holds
<1>6. Unissued'
  BY <1>1, <1>2, <1>3, <1>5 DEF TwinInv, Unissued
<1> QED
  BY <1>4, <1>6 DEF TwinInv

LEMMA TwinNext == ASSUME Seen PROVE LedgerInv /\ TwinInv /\ [Next]_vars => TwinInv'
<1> SUFFICES ASSUME LedgerInv, TwinInv, [Next]_vars PROVE TwinInv'
  OBVIOUS
<1>1. path' = path
  BY PathStays
<1>2. ASSUME Invoice \/ UNCHANGED vars PROVE TwinInv'
  <2>1. UNCHANGED <<pc, todo, verdict, credit_notes, notes>>
    BY <1>2 DEF Invoice, vars, local
  <2>2. /\ \A r : Live(r)' = Live(r)
        /\ \A n : Current(n)' = Current(n)
        /\ \A n, r \in Refunds : Holds(n, r)' = Holds(n, r)
    BY <2>1 DEF Live, Current, Holds
  <2> QED
    BY <1>1, <2>1, <2>2 DEF TwinInv, Single, Unissued
<1>3. ASSUME NEW m \in Refunds,
             \/ Refund(m) \/ Receive(m) \/ Stop(m) \/ Read(m) \/ Finish(m) \/ Crash(m)
             \/ Claim(m) /\ pc'[m] \notin Holding
      PROVE  TwinInv'
  BY <1>1, <1>3, QuietSteps, QuietToDo, TwinQuiet DEF LedgerInv
<1> QED
  BY <1>1, <1>2, <1>3, TwinTaken, TwinWork, TwinWrite, TwinAge DEF Next

LEMMA TwinAlways == ASSUME Seen PROVE Spec => [](LedgerInv /\ TwinInv)
<1>1. Init => TwinInv
  BY DEF Init, TwinInv, Single, Unissued, Live, Holds, Working
<1> QED
  BY <1>1, LedgerAlways, TwinNext, PTL DEF Spec

\* One row per refund, so a credit note is issued once and only once: with the search under the
\* claim (the adapter pipeline) under every fault, and on Shopify's path as long as the read of the
\* related documents and the destination's answers arrive, a refund never has two credit notes,
\* certified or draft, whatever its messages go through.
THEOREM NoTwinEver == ASSUME Seen PROVE Spec => []NoTwin
<1>1. TwinInv => NoTwin
  <2> SUFFICES ASSUME TwinInv, NEW r \in Refunds PROVE Cardinality(Live(r)) <= 1
    BY DEF NoTwin
  <2>1. CASE Live(r) = {}
    BY <2>1, FS_EmptySet
  <2>2. CASE Live(r) # {}
    <3>1. PICK i \in Live(r) : TRUE
      BY <2>2
    <3>2. Live(r) = {i}
      BY <3>1 DEF TwinInv, Single
    <3>3. Cardinality({i}) = 1
      BY FS_Singleton
    <3> QED
      BY <3>2, <3>3
  <2> QED
    BY <2>1, <2>2
<1> QED
  BY <1>1, TwinAlways, PTL

-----------------------------------------------------------------------------
(* No refund vanishes without a trace.                                     *)

LEMMA CreditedStays ==
    ASSUME LedgerInv, NEW m \in Refunds, NEW r \in Refunds, Credited(r),
           Lookup(m) \/ Issue(m) \/ Finalize(m) \/ Withdraw(m)
    PROVE  Credited(r)'
<1> USE DEF LedgerInv
<1>1. PICK i \in DOMAIN notes : notes[i].refund = r /\ notes[i].state = "final"
  BY DEF Credited, Live
<1>2. i \in DOMAIN notes' /\ notes'[i].refund = r
  BY <1>1, WorkSteps DEF Work, NotesKept
<1>3. notes'[i].state = "final"
  <2>1. CASE UNCHANGED notes
    BY <1>1, <2>1
  <2>2. CASE notes' = Append(notes, [refund |-> Current(m), state |-> "draft"]) /\ Issue(m)
    <3>1. Current(m) \in Refunds
      BY <2>2, CurrentIsToDo DEF Issue, Owned, Holding
    <3> QED
      BY <1>1, <2>2, <3>1, NoteAdded DEF TypeOK, NoteRec, NoteStates
  <2>3. CASE \E s \in NoteStates : /\ notes' = [notes EXCEPT ![note[m]].state = s]
                                   /\ s = "final" \/ notes[note[m]].state = "draft"
                                   /\ Finalize(m) \/ Withdraw(m)
    <3>1. note[m] \in DOMAIN notes
      BY <2>3 DEF Finalize, Withdraw, NoteHeld, HeldBy
    <3>2. PICK s \in NoteStates : /\ notes' = [notes EXCEPT ![note[m]].state = s]
                                  /\ s = "final" \/ notes[note[m]].state = "draft"
      BY <2>3
    <3> QED
      BY <1>1, <3>1, <3>2, NoteChanged DEF TypeOK, NoteRec, NoteStates
  <2> QED
    BY <2>1, <2>2, <2>3 DEF Lookup, Issue, Finalize, Withdraw, NoteStates
<1> QED
  BY <1>1, <1>2, <1>3 DEF Credited, Live

\* What explains a refund is never taken back.
LEMMA NotedStays ==
    LedgerInv /\ [Next]_vars => \A r \in Refunds : noted[r] => noted'[r]
<1> SUFFICES ASSUME LedgerInv, [Next]_vars, NEW r \in Refunds, noted[r] PROVE noted'[r]
  OBVIOUS
<1>1. ASSUME NEW m \in Refunds, NEW R, Throw(m, R) PROVE noted'[r]
  BY <1>1 DEF Throw, Note
<1>2. ASSUME NEW m \in Refunds, Write(m) PROVE noted'[r]
  BY <1>1, <1>2 DEF Write, Note
<1>3. ASSUME NEW m \in Refunds, Read(m) \/ Claim(m) \/ Crash(m) PROVE noted'[r]
  BY <1>1, <1>3 DEF Read, Claim, Crash
<1>4. ASSUME NEW m \in Refunds,
             \/ Refund(m) \/ Receive(m) \/ Stop(m) \/ Finish(m) \/ Lookup(m) \/ Issue(m)
             \/ Finalize(m) \/ Withdraw(m) \/ Age(m)
      PROVE  noted'[r]
  BY <1>4 DEF Refund, Receive, Stop, Finish, Lookup, Issue, Finalize, Withdraw, Age, Note
<1>5. CASE Invoice \/ UNCHANGED vars
  BY <1>5 DEF Invoice, vars
<1> QED
  BY <1>2, <1>3, <1>4, <1>5 DEF Next

\* A step of one message keeps every trace but, perhaps, that it was itself to come to a refund.
LEMMA TraceKept ==
    ASSUME LedgerInv, [Next]_vars, NEW m \in Refunds, NEW r \in Refunds, Trace(r), Others(m),
           pc[m] # "given up", Credited(r) => Credited(r)',
           credit_notes[r].state # "none" => credit_notes'[r].state # "none",
           r = m /\ pc[m] = "unborn" => Trace(r)',
           Owes(m, r) /\ pc'[r] # "unborn" => Trace(r)'
    PROVE  Trace(r)'
<1>1. ASSUME NEW n \in Refunds, n # m PROVE Owes(n, r) => Owes(n, r)'
  BY <1>1 DEF Others, Owes, Holds
<1>2. ASSUME NEW n \in Refunds, pc[n] = "given up" \/ Owes(n, r), pc'[r] # "unborn" PROVE Trace(r)'
  <2>1. CASE n = m
    BY <1>2, <2>1
  <2>2. CASE n # m
    BY <1>1, <1>2, <2>2 DEF Others, Trace
  <2> QED
    BY <2>1, <2>2
<1>3. pc[r] = "unborn" => Trace(r)'
  BY DEF Others, Trace
<1>4. (Credited(r) \/ noted[r] \/ credit_notes[r].state # "none") => Trace(r)'
  BY NotedStays DEF Trace
<1>5. pc'[r] = "unborn" => Trace(r)'
  BY DEF Trace
<1> QED
  BY <1>2, <1>3, <1>4, <1>5 DEF Trace

LEMMA TracedQuiet ==
    ASSUME LedgerInv, TwinInv, Traced, [Next]_vars, NEW m \in Refunds, NEW r \in Refunds,
           \/ Refund(m) \/ Receive(m) \/ Stop(m) \/ Read(m) \/ Finish(m) \/ Crash(m)
           \/ Claim(m) /\ pc'[m] \notin Holding
    PROVE  Trace(r)'
<1> USE DEF LedgerInv
<1>1. Quiet(m)
  BY QuietSteps
<1>2. Credited(r) => Credited(r)'
  BY <1>1 DEF Quiet, Credited, Live
<1>3. pc[m] # "given up"
  BY DEF Refund, Receive, Stop, Read, Finish, Crash, Claim, Working
<1>4. pc'[m] \in {"queued", "read", "given up"} => Trace(r)'
  BY DEF Trace, Owes
<1>5. ASSUME NEW R, Throw(m, R) PROVE Trace(r)'
  BY <1>4, <1>5, ThrownElsewhere
<1>6. CASE Refund(m) \/ Receive(m) \/ Crash(m)
  BY <1>4, <1>5, <1>6, GoneElsewhere DEF Refund, Receive, Crash
<1>7. r = m /\ pc[m] = "unborn" => Trace(r)'
  BY <1>6 DEF Stop, Read, Finish, Claim
<1>8. ASSUME Owes(m, r), pc'[r] # "unborn" PROVE Trace(r)'
  <2>1. CASE Stop(m)
    <3>1. r \in Announced
      BY <1>8, <2>1, GoneElsewhere DEF Stop, Announced
    <3> QED
      BY <2>1, <3>1 DEF Stop, Note, Trace
  <2>2. CASE Read(m) /\ ~Throw(m, {})
    <3>1. pc'[m] = "claim" /\ r \in Announced
      BY <1>8, <2>2, GoneElsewhere DEF Read, Announced
    <3>2. CASE r \in todo'[m]
      BY <3>1, <3>2 DEF Trace, Owes, Holds, Working
    <3>3. CASE r \notin todo'[m]
      <4>1. path = "legacy" /\ Live(r) # {}
        BY <2>2, <3>1, <3>3 DEF Read, TypeOK
      <4>2. credit_notes[r].state # "none"
        BY <4>1 DEF TwinInv, Unissued
      <4> QED
        BY <1>1, <4>2 DEF Quiet, Trace
    <3> QED
      BY <3>2, <3>3
  <2>3. CASE Claim(m) /\ pc'[m] \notin Holding /\ ~Throw(m, {Current(m)})
    <3>1. /\ pc[m] = "claim" /\ pc'[m] = "claim"
          /\ ~Takeable(credit_notes[Current(m)])
          /\ todo'[m] = todo[m] \ {Current(m)}
      BY <2>3, GoneElsewhere DEF Claim, Holding, TypeOK
    <3>2. CASE r = Current(m)
      BY <1>1, <3>1, <3>2 DEF Quiet, Takeable, Trace
    <3>3. CASE r # Current(m)
      BY <1>8, <3>1, <3>3 DEF Owes, Holds, Trace
    <3> QED
      BY <3>2, <3>3
  <2>4. ~Finish(m)
    BY <1>8 DEF Finish, Owes, Holds
  <2> QED
    BY <1>5, <1>6, <2>1, <2>2, <2>3, <2>4
<1> QED
  BY <1>1, <1>2, <1>3, <1>7, <1>8, TraceKept DEF Quiet, Traced

LEMMA TracedNext ==
    ASSUME LedgerInv, TwinInv, Traced, [Next]_vars PROVE Traced'
<1> SUFFICES ASSUME NEW r \in Refunds PROVE Trace(r)'
  BY DEF Traced
<1> USE DEF LedgerInv
<1>1. Trace(r)
  BY DEF Traced
<1>2. ASSUME Invoice \/ UNCHANGED vars PROVE Trace(r)'
  <2>1. UNCHANGED <<pc, todo, credit_notes, notes, noted>>
    BY <1>2 DEF Invoice, vars, local
  <2> QED
    BY <1>1, <2>1 DEF Trace, Credited, Live, Owes, Holds
<1>3. ASSUME NEW m \in Refunds, Claim(m), pc'[m] \in Holding PROVE Trace(r)'
  <2>1. /\ pc[m] = "claim" /\ pc'[m] \in {"lookup", "issue"}
        /\ UNCHANGED <<todo, note, verdict, notes>> /\ Others(m)
        /\ credit_notes'[r] = credit_notes[r] \/ credit_notes'[r] = Claimed
    BY <1>3, TakenRow DEF Claim, Others
  <2>2. Owes(m, r) => Trace(r)'
    BY <2>1 DEF Owes, Holds, Working, Trace
  <2>3. Credited(r) => Credited(r)'
    BY <2>1 DEF Credited, Live
  <2>4. credit_notes[r].state # "none" => credit_notes'[r].state # "none"
    BY <2>1, ClaimedRow
  <2> QED
    BY <1>1, <2>1, <2>2, <2>3, <2>4, TraceKept
<1>4. ASSUME NEW m \in Refunds, Lookup(m) \/ Issue(m) \/ Finalize(m) \/ Withdraw(m) PROVE Trace(r)'
  <2>1. Work(m)
    BY <1>4, WorkSteps
  <2>2. Owes(m, r) => Trace(r)'
    BY <2>1 DEF Work, Owes, Holds, Holding, Working, Trace
  <2>3. Credited(r) => Credited(r)'
    BY <1>4, CreditedStays
  <2>4. pc[m] \notin {"given up", "unborn"}
    BY <2>1 DEF Work, Holding
  <2> QED
    BY <1>1, <2>1, <2>2, <2>3, <2>4, TraceKept DEF Work
<1>5. ASSUME NEW m \in Refunds, Write(m) PROVE Trace(r)'
  <2>1. /\ pc[m] = "write" /\ Others(m) /\ UNCHANGED notes
        /\ \A q \in Refunds \ {Current(m)} : credit_notes'[q] = credit_notes[q]
        /\ \/ credit_notes'[Current(m)] = Claimed
           \/ credit_notes'[Current(m)] = Written(Claimed, verdict[m], note[m])
    BY <1>5, WrittenRow
  <2>2. CASE Throw(m, {Current(m)})
    <3>1. pc'[m] \in {"queued", "given up"}
      BY <2>2, ThrownElsewhere
    <3> QED
      BY <3>1 DEF Trace, Owes
  <2>3. CASE ~Throw(m, {Current(m)})
    <3>1. /\ verdict[m] \in {"issued", "refused", "on draft"}
          /\ Goto(m, "claim") /\ todo' = [todo EXCEPT ![m] = @ \ {Current(m)}]
          /\ Note(IF verdict[m] = "issued" THEN {} ELSE {Current(m)})
      BY <1>5, <2>3 DEF Write
    <3>2. pc'[m] = "claim" /\ todo'[m] = todo[m] \ {Current(m)}
      BY <3>1, GoneElsewhere DEF TypeOK
    <3>3. CASE r = Current(m)
      <4>1. verdict[m] \in {"issued", "refused"} => Written(Claimed, verdict[m], note[m]).state # "none"
        BY DEF Written, Claimed
      <4>2. verdict[m] = "on draft" => noted'[r]
        BY <3>1, <3>3 DEF Note
      <4> QED
        BY <2>1, <3>1, <3>3, <4>1, <4>2, ClaimedRow DEF Trace
    <3>4. CASE r # Current(m)
      <4>1. Owes(m, r) => Trace(r)'
        BY <2>1, <3>2, <3>4 DEF Owes, Holds, Working, Trace
      <4>2. Credited(r) => Credited(r)'
        BY <2>1 DEF Credited, Live
      <4> QED
        BY <1>1, <2>1, <3>4, <4>1, <4>2, TraceKept
    <3> QED
      BY <3>3, <3>4
  <2> QED
    BY <2>2, <2>3
<1>6. ASSUME NEW q \in Refunds, Age(q) PROVE Trace(r)'
  <2>1. UNCHANGED <<pc, todo, notes, noted>>
    BY <1>6 DEF Age, local
  <2>2. credit_notes[r].state # "none" => credit_notes'[r].state # "none"
    BY <1>6 DEF Age, TypeOK, Rows
  <2> QED
    BY <1>1, <2>1, <2>2 DEF Trace, Credited, Live, Owes, Holds
<1> QED
  BY <1>2, <1>3, <1>4, <1>5, <1>6, TracedQuiet DEF Next

\* A refund never vanishes: under the circumstances of NoTwinEver, whatever fails and wherever an
\* invocation dies, when all messages have ended each refund has a certified note, a report or a
\* row, or the order has an incident.
THEOREM EveryRefundTraceable == ASSUME Seen PROVE Spec => []RefundTraceable
<1>1. Init => Traced
  BY DEF Init, Traced, Trace
<1>2. LedgerInv /\ Traced => RefundTraceable
  <2> SUFFICES ASSUME LedgerInv, Traced, Settled, NEW r \in Announced
               PROVE  \/ Credited(r) \/ noted[r] \/ credit_notes[r].state # "none"
                      \/ \E m \in Announced : pc[m] = "given up"
    BY DEF RefundTraceable
  <2>1. r \in Refunds /\ pc[r] # "unborn" /\ Trace(r)
    BY DEF Announced, Traced
  <2>2. \A m \in Refunds : ~Owes(m, r)
    BY DEF Settled, Announced, Owes, Holds, Working, Ended
  <2> QED
    BY <2>1, <2>2 DEF Trace, Announced
<1> QED
  BY <1>1, <1>2, TwinAlways, TracedNext, PTL DEF Spec
=============================================================================
