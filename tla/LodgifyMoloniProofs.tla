------------------------- MODULE LodgifyMoloniProofs -------------------------
(***************************************************************************)
(* An account that bills its Lodgify stays at Moloni.                      *)
(*                                                                         *)
(* MoloniGrant: its types, and that the stored refresh token is never      *)
(* stranded, for every set of workers and every bound.                     *)
(*                                                                         *)
(* LodgifyPass: its types, OneFatura, OneSettler, ReleaseIsOwn and         *)
(* ReceiptsCovered for any number of polls, desks, documents and mishaps.  *)
(* A lock names a pass that is under way (RunHeld, ClaimHeld) and, as long *)
(* as nobody was outlived, who bills or settles holds it (BillsLocked,     *)
(* SettlesLocked): hence who comes to create a document still finds none   *)
(* (Barren), and who issues a receipt has seen the others (SeenAll).       *)
(***************************************************************************)
EXTENDS LodgifyPass, MoloniGrant, FiniteSetTheorems, TLAPS

-----------------------------------------------------------------------------
(* The Moloni tokens.                                                      *)

\* Nothing refers to a pair that is yet to be minted.
Known ==
    /\ alive \subseteq 0..minted /\ stored \in 0..minted /\ consent \in 0..minted
    /\ \A w \in Workers : held[w] \in 0..minted /\ won[w] \in 0..minted

\* The pair of an authorisation under way is accepted, and nobody else has it.
ConsentIsFresh ==
    consent # 0 =>
        /\ consent \in alive /\ stored # consent
        /\ \A w \in Workers : held[w] # consent /\ won[w] # consent

\* A pair that is yet to be stored is in nobody's configuration ...
WonIsPrivate ==
    \A w \in Workers : work[w] = "persist" =>
        /\ stored # won[w]
        /\ \A v \in Workers :
              held[v] # won[w] /\ (work[v] = "persist" /\ v # w => won[v] # won[w])

\* ... and the token it came from is used up, by its holder alone.
HeldIsSpent ==
    /\ \A w \in Workers : work[w] = "persist" => held[w] \notin alive
    /\ \A v, w \in Workers :
          work[v] = "persist" /\ work[w] = "persist" /\ held[v] = held[w] => v = w

GrantInv ==
    GrantTypeOK /\ Known /\ ConsentIsFresh /\ WonIsPrivate /\ HeldIsSpent /\ NotStranded

LEMMA GrantInvInit == GrantInit => GrantInv
BY GrantConstants DEF GrantInit, GrantInv, GrantTypeOK, Known, ConsentIsFresh, WonIsPrivate,
                      HeldIsSpent, NotStranded, Pairs

\* A step of one worker that mints nothing, stores nothing and sends nobody to
\* persist: at most it refreshes its copy, and it was not replacing the token.
Quiet(w) ==
    /\ UNCHANGED <<alive, minted, stored, won, consent>>
    /\ status' \in {"active", "error"} /\ lapsed' \subseteq Pairs
    /\ losses' \in 0..MaxLosses /\ (losses' = 0 => losses = 0 /\ ~Replacing(w))
    /\ work' \in [Workers -> {"idle", "get", "refresh", "refused", "persist", "reload"}]
    /\ work'[w] # "persist" /\ \A v \in Workers \ {w} : work'[v] = work[v]
    /\ held' \in [Workers -> Pairs] /\ held'[w] \in {held[w], stored}
    /\ \A v \in Workers \ {w} : held'[v] = held[v]

LEMMA GrantQuietStep ==
    ASSUME GrantInv, NEW w \in Workers, Quiet(w)
    PROVE  GrantInv'
<1> USE GrantConstants DEF GrantInv, GrantTypeOK, Known, Pairs, Quiet
<1>1. GrantTypeOK' /\ Known'
  OBVIOUS
<1>2. \A v \in Workers : work'[v] = "persist" => v # w /\ work[v] = "persist" /\ held'[v] = held[v]
  OBVIOUS
<1>3. \A v \in Workers : held'[v] \in {held[v], stored}
  OBVIOUS
<1>4. ConsentIsFresh'
  BY <1>3 DEF ConsentIsFresh
<1>5. WonIsPrivate'
  BY <1>2, <1>3 DEF WonIsPrivate
<1>6. HeldIsSpent'
  BY <1>2 DEF HeldIsSpent
<1>7. NotStranded'
  <2> SUFFICES ASSUME losses' = 0, stored \notin alive, consent = 0
               PROVE  \E v \in Workers : Replacing(v)'
    BY DEF NotStranded
  <2>1. PICK v \in Workers : Replacing(v)
    BY DEF NotStranded
  <2>2. v # w
    BY <2>1
  <2> QED
    BY <2>1, <2>2 DEF Replacing
<1> QED
  BY <1>1, <1>4, <1>5, <1>6, <1>7

LEMMA GrantInvNext == GrantInv /\ [GrantNext]_grantVars => GrantInv'
<1> SUFFICES ASSUME GrantInv, [GrantNext]_grantVars PROVE GrantInv'
  OBVIOUS
<1> USE GrantConstants
<1>1. CASE AccessExpires
  BY <1>1 DEF AccessExpires, GrantInv, GrantTypeOK, Known, ConsentIsFresh, WonIsPrivate,
              HeldIsSpent, NotStranded, Replacing, Pairs
<1>2. CASE Authorise
  <2> USE <1>2 DEF Authorise, GrantInv, GrantTypeOK, Known, Pairs
  <2>1. GrantTypeOK' /\ Known'
    OBVIOUS
  <2>2. ConsentIsFresh' /\ NotStranded'
    BY DEF ConsentIsFresh, NotStranded
  <2>3. WonIsPrivate' /\ HeldIsSpent'
    BY DEF WonIsPrivate, HeldIsSpent
  <2> QED
    BY <2>1, <2>2, <2>3
<1>3. CASE StoreConsent
  <2> USE <1>3 DEF StoreConsent, Lost, GrantInv, GrantTypeOK, Known, Pairs
  <2>1. GrantTypeOK' /\ Known' /\ ConsentIsFresh'
    BY DEF ConsentIsFresh
  <2>2. WonIsPrivate' /\ HeldIsSpent'
    BY DEF WonIsPrivate, HeldIsSpent, ConsentIsFresh
  <2>3. NotStranded'
    BY DEF NotStranded, ConsentIsFresh
  <2> QED
    BY <2>1, <2>2, <2>3
<1>4. ASSUME NEW w \in Workers, Refreshes(w) PROVE GrantInv'
  <2>1. CASE LoadConnection(w)
    <3> Quiet(w)
      BY <2>1 DEF Quiet, Pairs, LoadConnection, Turn, Replacing, GrantInv, GrantTypeOK
    <3> QED
      BY GrantQuietStep
  <2>2. CASE GetToken(w)
    <3> Quiet(w)
      BY <2>2 DEF Quiet, Pairs, GetToken, Turn, Replacing, GrantInv, GrantTypeOK
    <3> QED
      BY GrantQuietStep
  <2>3. CASE MarkReauthRequired(w)
    <3> Quiet(w)
      BY <2>3 DEF Quiet, Pairs, MarkReauthRequired, Turn, Replacing, GrantInv, GrantTypeOK
    <3> QED
      BY GrantQuietStep
  <2>4. CASE ReloadTokens(w)
    <3> Quiet(w)
      BY <2>4 DEF Quiet, Pairs, ReloadTokens, Turn, Replacing, GrantInv, GrantTypeOK
    <3> QED
      BY GrantQuietStep
  <2>5. CASE WorkerDies(w)
    <3> Quiet(w)
      BY <2>5 DEF Quiet, Pairs, WorkerDies, Turn, Lost, Replacing, GrantInv, GrantTypeOK
    <3> QED
      BY GrantQuietStep
  <2>6. CASE AskGrant(w)
    <3>1. CASE UNCHANGED <<alive, minted, won>>
      <4> Quiet(w)
        BY <2>6, <3>1 DEF Quiet, Pairs, AskGrant, Turn, Lost, Replacing, Rotates, GrantInv, GrantTypeOK
      <4> QED
        BY GrantQuietStep
    <3>2. CASE /\ held[w] \in alive /\ minted < MaxGrants
               /\ minted' = minted + 1
               /\ alive' = Rotates(held[w], minted')
               /\ \/ won' = [won EXCEPT ![w] = minted'] /\ Turn(w, "persist") /\ UNCHANGED losses
                  \/ Lost /\ Turn(w, "idle") /\ UNCHANGED won
      <4> USE <2>6, <3>2 DEF AskGrant, Rotates, GrantInv, GrantTypeOK, Known, Pairs, Turn
      <4>0. /\ work[w] = "refresh" /\ UNCHANGED <<stored, status, lapsed, held, consent>>
            /\ alive' = (alive \ {held[w]}) \cup {minted + 1}
            /\ \A v \in Workers : work'[v] = "persist" =>
                  \/ v # w /\ work[v] = "persist" /\ won'[v] = won[v]
                  \/ v = w /\ won'[v] = minted + 1
        OBVIOUS
      <4>1. GrantTypeOK' /\ Known'
        <5>1. minted \in Nat /\ minted' \in Pairs /\ losses' \in 0..MaxLosses
          BY DEF Lost
        <5>2. won' \in [Workers -> 0..minted'] /\ won' \in [Workers -> Pairs]
          BY <5>1
        <5>3. alive' \subseteq 0..minted' /\ alive' \subseteq Pairs
          <6>1. alive \subseteq 0..minted'
            <7> SUFFICES ASSUME NEW x \in alive PROVE x \in 0..minted'
              OBVIOUS
            <7>1. x \in 0..minted
              OBVIOUS
            <7> QED
              BY <7>1, <5>1
          <6>2. minted' \in 0..minted'
            BY <5>1
          <6>3. 0..minted' \subseteq Pairs
            BY <5>1
          <6> QED
            BY <6>1, <6>2, <6>3, <4>0
        <5>4. /\ stored' \in 0..minted' /\ consent' \in 0..minted'
              /\ \A v \in Workers : held'[v] \in 0..minted' /\ won'[v] \in 0..minted'
          BY <5>1, <5>2, <4>0
        <5>5. work' \in [Workers -> {"idle", "get", "refresh", "refused", "persist", "reload"}]
          OBVIOUS
        <5>6. Known'
          BY <5>3, <5>4
        <5>7. GrantTypeOK'
          BY <5>1, <5>2, <5>3, <5>5, <4>0
        <5> QED
          BY <5>6, <5>7
      <4>2. ConsentIsFresh'
        BY <4>1 DEF ConsentIsFresh
      <4>3. WonIsPrivate'
        BY <4>0 DEF WonIsPrivate
      <4>4. HeldIsSpent'
        BY <4>0 DEF HeldIsSpent
      <4>5. NotStranded'
        <5> SUFFICES ASSUME losses' = 0, stored \notin alive', consent = 0
                     PROVE  \E v \in Workers : Replacing(v)'
          BY <4>0 DEF NotStranded
        <5>1. /\ won' = [won EXCEPT ![w] = minted'] /\ work' = [work EXCEPT ![w] = "persist"]
              /\ losses = 0
          BY DEF Lost
        <5>2. CASE held[w] = stored
          BY <5>1, <5>2, <4>0 DEF Replacing
        <5>3. CASE held[w] # stored
          <6>1. PICK v \in Workers : Replacing(v)
            BY <5>1, <5>3, <4>0 DEF NotStranded
          <6>2. v # w /\ held[w] # won[v]
            BY <6>1, <4>0 DEF Replacing, WonIsPrivate
          <6> QED
            BY <6>1, <6>2, <5>1, <4>0 DEF Replacing
        <5> QED
          BY <5>2, <5>3
      <4> QED
        BY <4>1, <4>2, <4>3, <4>4, <4>5
    <3> QED
      BY <2>6, <3>1, <3>2 DEF AskGrant
  <2>7. CASE PersistRotation(w)
    <3>1. CASE StillStored(held[w])
      <4> USE <2>7, <3>1 DEF PersistRotation, StillStored, GrantInv, GrantTypeOK, Known, Pairs, Turn
      <4>0. /\ stored = held[w] /\ stored' = won[w] /\ held' = [held EXCEPT ![w] = won[w]]
            /\ work[w] = "persist" /\ work' = [work EXCEPT ![w] = "get"]
            /\ UNCHANGED <<alive, minted, status, lapsed, won, losses, consent>>
        OBVIOUS
      <4>1. GrantTypeOK' /\ Known'
        OBVIOUS
      <4>2. ConsentIsFresh'
        BY <4>0 DEF ConsentIsFresh
      <4>3. WonIsPrivate'
        <5> SUFFICES ASSUME NEW v \in Workers, work'[v] = "persist"
                     PROVE  /\ won[w] # won[v]
                            /\ \A u \in Workers : held'[u] # won[v]
                            /\ \A u \in Workers : work'[u] = "persist" /\ u # v => won[u] # won[v]
          BY <4>0 DEF WonIsPrivate
        <5> QED
          BY <4>0 DEF WonIsPrivate
      <4>4. HeldIsSpent'
        BY <4>0 DEF HeldIsSpent
      <4>5. NotStranded'
        BY <4>0 DEF NotStranded, Replacing, HeldIsSpent
      <4> QED
        BY <4>1, <4>2, <4>3, <4>4, <4>5
    <3>2. CASE ~StillStored(held[w])
      <4> Quiet(w)
        BY <2>7, <3>2 DEF Quiet, Pairs, PersistRotation, StillStored, Turn, Replacing, GrantInv, GrantTypeOK
      <4> QED
        BY GrantQuietStep
    <3> QED
      BY <3>1, <3>2
  <2> QED
    BY <1>4, <2>1, <2>2, <2>3, <2>4, <2>5, <2>6, <2>7 DEF Refreshes
<1>5. CASE UNCHANGED grantVars
  BY <1>5 DEF grantVars, GrantInv, GrantTypeOK, Known, ConsentIsFresh, WonIsPrivate, HeldIsSpent,
              NotStranded, Replacing
<1> QED
  BY <1>1, <1>2, <1>3, <1>4, <1>5 DEF GrantNext

LEMMA GrantInvAlways == GrantSpec => []GrantInv
BY GrantInvInit, GrantInvNext, PTL DEF GrantSpec

\* Every variable keeps to its type, whatever the workers and the bounds.
THEOREM GrantTypes == GrantSpec => []GrantTypeOK
BY GrantInvAlways, PTL DEF GrantInv

\* While nothing dies and no answer is lost, the refresh token in the row is one
\* Moloni accepts, or the one who used it up (persistRotation) or authorises anew is
\* about to replace it.
THEOREM GrantNeverStranded == GrantSpec => []NotStranded
BY GrantInvAlways, PTL DEF GrantInv

-----------------------------------------------------------------------------
(* The passes over a booking: types.                                       *)

Bookings == [status : {"booked", "cancelled"}, collected : 0..Total]
Rows     == [status : {"none", "unknown", "draft", "closed"},
             collected : {Null} \cup 0..Total, settled : {Null} \cup 0..Total,
             human : BOOLEAN, attempts : Nat, cool : BOOLEAN]
Faturas  == [state : {"none", "draft", "closed", "gone"}, reconciled : 0..Total,
             issued : Nat, suspect : BOOLEAN]
Markers  == {"none", "processing", "success", "failed"}

LocksTyped ==
    /\ run_lock \in Polls \cup {"free", "dead"}
    /\ settle_claim \in [DocIds -> Passes \cup {"free", "dead"}]

RecordsTyped ==
    /\ booking \in Bookings /\ mirror \in Bookings \cup {NoItem}
    /\ fatura \in [DocIds -> Faturas]
    /\ marker \in Markers /\ sale_row \in {0} \cup DocIds
    /\ settlements \in [DocIds -> Rows]

LocalsTyped ==
    /\ item \in [Passes -> Bookings \cup {NoItem}]
    /\ target \in [Passes -> {0} \cup DocIds]
    /\ known \in [Passes -> Rows] /\ outcome \in [Passes -> Rows]
    /\ seen \in [Passes -> 0..Total]

StageTyped == stage \in [Passes -> Stages]

CountsTyped == mishaps \in [{"moves", "faults", "outlived"} -> Nat]

\* A pass that has come as far as the claim has a document before it.
Targeted == \A p \in Passes : stage[p] \in {"claim"} \cup Settling => target[p] \in DocIds

\* Documents are numbered in the order in which they are created.
Numbered == \E n \in 0..MaxDocs : \A d \in DocIds : d <= n <=> fatura[d].state # "none"

PassTypes ==
    /\ LocksTyped /\ RecordsTyped /\ LocalsTyped /\ StageTyped /\ CountsTyped
    /\ Targeted /\ Numbered

LEMMA PassNumbers ==
    /\ Total \in Nat /\ Total > 0 /\ MaxDocs \in Nat /\ MaxDocs > 0 /\ 0 \notin DocIds
    /\ MaxAttempts \in Nat /\ DocIds \subseteq Nat /\ Null = -1
    /\ NoFact \in Rows /\ NoItem.collected = 0
BY PassConstants DEF DocIds, Null, NoFact, Rows, NoItem

LEMMA PassTypesInit == PassInit => PassTypes
<1> SUFFICES ASSUME PassInit PROVE PassTypes
    OBVIOUS
<1> USE PassNumbers DEF PassInit
<1>1. LocksTyped /\ LocalsTyped /\ StageTyped /\ CountsTyped
      BY DEF LocksTyped, LocalsTyped, StageTyped, CountsTyped, Stages
<1>2. RecordsTyped
      BY DEF RecordsTyped, Bookings, Faturas, Markers
<1>3. Targeted
      BY DEF Targeted, Settling
<1>4. Numbered
  <2>1. \A d \in DocIds : ~(d <= 0) /\ fatura[d].state = "none"
        BY DEF DocIds
  <2>2. QED
        BY <2>1 DEF Numbered
<1>5. QED
      BY <1>1, <1>2, <1>3, <1>4 DEF PassTypes

\* What is counted, and whether a holder has been outlived.
LEMMA Counted ==
    ASSUME CountsTyped, Fault \/ Outlive \/ NoFault \/ ByHand
    PROVE  /\ CountsTyped' /\ (Outlived => Outlived') /\ (Outlive => Outlived')
           /\ (Fault \/ NoFault \/ ByHand => (Outlived' => Outlived))
BY DEF CountsTyped, Fault, Outlive, NoFault, ByHand, Outlived

LEMMA MovesOn ==
    ASSUME StageTyped, NEW p \in Passes, NEW next \in Stages, Go(p, next)
    PROVE  StageTyped' /\ stage'[p] = next /\ \A q \in Passes \ {p} : stage'[q] = stage[q]
BY DEF StageTyped, Go

\* What a pass no longer needs is forgotten.
LEMMA Dropped ==
    ASSUME LocalsTyped, NEW p \in Passes, Drop(p)
    PROVE  /\ known' \in [Passes -> Rows] /\ seen' \in [Passes -> 0..Total]
           /\ \A q \in Passes \ {p} : seen'[q] = seen[q]
BY PassNumbers DEF LocalsTyped, Drop

LEMMA Closed ==
    ASSUME LocalsTyped, NEW p \in Passes, Close(p), target' = target
    PROVE  LocalsTyped' /\ \A q \in Passes \ {p} : seen'[q] = seen[q] /\ item'[q] = item[q]
BY Dropped, PassNumbers DEF LocalsTyped, Close

LEMMA ResetAll ==
    ASSUME LocalsTyped, NEW p \in Passes, Reset(p)
    PROVE  /\ LocalsTyped'
           /\ \A q \in Passes \ {p} : seen'[q] = seen[q] /\ item'[q] = item[q] /\ target'[q] = target[q]
BY Dropped, PassNumbers DEF LocalsTyped, Reset, Close

LEMMA Counting == ASSUME LocalsTyped, NEW p \in Passes PROVE item[p].collected \in 0..Total
<1>1. item[p] \in Bookings \cup {NoItem}
      BY DEF LocalsTyped
<1>2. QED
      BY <1>1, PassNumbers DEF Bookings

\* The rows a pass writes are rows.
LEMMA AnsweredTyped ==
    ASSUME LocalsTyped, NEW p \in Passes, NEW st \in {"none", "unknown", "draft", "closed"},
           NEW settled \in {Null} \cup 0..Total
    PROVE  Answered(p, st, settled) \in Rows
BY Counting DEF Answered, Rows

LEMMA ThrownTyped == ASSUME LocalsTyped, NEW p \in Passes PROVE Thrown(p) \in Rows
<1>1. known[p] \in Rows
      BY DEF LocalsTyped
<1>2. known[p].attempts + 1 \in Nat /\ (known[p].attempts + 1 >= MaxAttempts) \in BOOLEAN
      BY <1>1 DEF Rows
<1>3. QED
      BY <1>1, <1>2 DEF Thrown, Rows

LEMMA VerdictGiven ==
    ASSUME LocalsTyped, StageTyped, NEW p \in Passes, NEW row \in Rows, Verdict(p, row),
           item' = item, target' = target
    PROVE  /\ LocalsTyped' /\ StageTyped' /\ stage'[p] = "write"
           /\ \A q \in Passes \ {p} : seen'[q] = seen[q] /\ stage'[q] = stage[q]
<1>1. Drop(p) /\ Go(p, "write") /\ outcome' = [outcome EXCEPT ![p] = row]
      BY DEF Verdict
<1>2. StageTyped' /\ stage'[p] = "write" /\ \A q \in Passes \ {p} : stage'[q] = stage[q]
      BY <1>1, MovesOn DEF Stages, Settling
<1>3. QED
      BY <1>1, <1>2, Dropped DEF LocalsTyped

\* What is owed of a document.
LEMMA Delta ==
    ASSUME NEW collected \in 0..Total, NEW settled \in 0..Total
    PROVE  /\ ReceiptDelta(collected, settled) \in 0..Total
           /\ ReceiptDelta(collected, settled) > 0
                => settled + ReceiptDelta(collected, settled) <= collected
BY PassNumbers DEF ReceiptDelta, Lesser

-----------------------------------------------------------------------------
(* The passes over a booking: locks and documents.                         *)

\* A lock names a pass that is under way, a settlement claim the document it is for.
RunHeld   == \A p \in Passes : run_lock = p => stage[p] # "idle"
ClaimHeld ==
    \A d \in DocIds, p \in Passes :
        settle_claim[d] = p => target[p] = d /\ stage[p] \in Settling \cup {"done"}

\* As long as nobody was outlived, who bills holds the run lock and who settles the
\* claim of its document ...
BillsLocked   == ~Outlived => \A p \in Passes : stage[p] \in Billing => run_lock = p
SettlesLocked == ~Outlived => \A p \in Passes : stage[p] \in Settling => settle_claim[target[p]] = p

\* ... so that, where the search misses nothing, who found no document finds none when it
\* comes to create one.
Barren == ~Outlived /\ ~MissedLookups => \A p \in Passes : stage[p] = "create" => \A d \in DocIds : ~Standing(d)
Lone   == ~Outlived /\ ~MissedLookups => \A d, e \in DocIds : Standing(d) /\ Standing(e) => d = e

Locked  == RunHeld /\ ClaimHeld /\ BillsLocked /\ SettlesLocked /\ Barren /\ Lone
PassInv == PassTypes /\ Locked

LEMMA PassInvInit == PassInit => PassInv
<1> SUFFICES ASSUME PassInit PROVE PassInv
    OBVIOUS
<1>1. \A p \in Passes : p # "free" /\ stage[p] = "idle"
      BY PassConstants DEF PassInit, Passes
<1>2. \A d \in DocIds : ~Standing(d)
      BY DEF PassInit, Standing
<1>3. RunHeld /\ ClaimHeld
      BY <1>1 DEF RunHeld, ClaimHeld, PassInit
<1>4. BillsLocked /\ SettlesLocked /\ Barren /\ Lone
      BY <1>1, <1>2 DEF BillsLocked, SettlesLocked, Barren, Lone, Billing, Settling
<1>5. QED
      BY <1>3, <1>4, PassTypesInit DEF PassInv, Locked

\* A pass that neither settles nor comes to, with the locks as they are.
LEMMA BillingStep ==
    ASSUME Locked, StageTyped, NEW p \in Passes, NEW next \in Stages \ (Settling \cup {"idle"}),
           stage[p] \notin Settling \cup {"done"},
           stage'[p] = next, \A q \in Passes \ {p} : stage'[q] = stage[q] /\ target'[q] = target[q],
           UNCHANGED <<run_lock, settle_claim>>, Outlived => Outlived',
           next \in Billing => stage[p] \in Billing,
           next = "create" => MissedLookups \/ \A d \in DocIds : ~Standing(d),
           \A d \in DocIds : Standing(d)' => Standing(d)
    PROVE  Locked'
<1>1. RunHeld'
      BY DEF Locked, RunHeld
<1>2. ClaimHeld'
      BY DEF Locked, ClaimHeld
<1>3. BillsLocked'
      BY DEF Locked, BillsLocked
<1>4. SettlesLocked'
      BY DEF Locked, SettlesLocked
<1>5. Barren'
      BY DEF Locked, Barren
<1>6. Lone'
      BY DEF Locked, Lone
<1>7. QED
      BY <1>1, <1>2, <1>3, <1>4, <1>5, <1>6 DEF Locked

\* A pass that settles, with the locks as they are and its document before it.
LEMMA SettlingStep ==
    ASSUME Locked, StageTyped, NEW p \in Passes, NEW next \in Settling \cup {"done"},
           stage[p] \in Settling,
           stage'[p] = next, \A q \in Passes \ {p} : stage'[q] = stage[q],
           UNCHANGED <<run_lock, settle_claim, target>>, Outlived => Outlived',
           \A d \in DocIds : Standing(d)' => Standing(d)
    PROVE  Locked'
<1>1. RunHeld'
      BY DEF Locked, RunHeld, Settling
<1>2. ClaimHeld'
      BY DEF Locked, ClaimHeld
<1>3. BillsLocked'
      BY DEF Locked, BillsLocked, Billing, Settling
<1>4. SettlesLocked'
      BY DEF Locked, SettlesLocked
<1>5. Barren'
      BY DEF Locked, Barren, Settling
<1>6. Lone'
      BY DEF Locked, Lone
<1>7. QED
      BY <1>1, <1>2, <1>3, <1>4, <1>5, <1>6 DEF Locked

-----------------------------------------------------------------------------
(* The passes over a booking: the steps of the world.                      *)

\* A draft that is closed or deleted, a cooldown that ends: no document comes to
\* stand that did not.
LEMMA FaturaKept ==
    ASSUME RecordsTyped, NEW d \in DocIds, fatura[d].state # "none",
           NEW st \in {"draft", "closed", "gone"}, st = "gone" \/ Standing(d),
           fatura' = [fatura EXCEPT ![d].state = st]
    PROVE  /\ fatura' \in [DocIds -> Faturas]
           /\ \A e \in DocIds : /\ Standing(e)' => Standing(e)
                                /\ fatura'[e].state = "none" <=> fatura[e].state = "none"
                                /\ fatura'[e].issued = fatura[e].issued
                                /\ fatura'[e].reconciled = fatura[e].reconciled
<1>1. fatura[d] \in Faturas /\ fatura \in [DocIds -> Faturas]
      BY DEF RecordsTyped
<1>2. /\ fatura'[d] = [fatura[d] EXCEPT !.state = st]
      /\ \A e \in DocIds \ {d} : fatura'[e] = fatura[e]
      BY <1>1
<1>3. /\ fatura'[d] \in Faturas /\ fatura'[d].state = st
      /\ fatura'[d].issued = fatura[d].issued /\ fatura'[d].reconciled = fatura[d].reconciled
      BY <1>1, <1>2 DEF Faturas
<1>4. fatura' \in [DocIds -> Faturas]
      BY <1>1, <1>3
<1>5. QED
      BY <1>2, <1>3, <1>4 DEF Standing

\* The money collected never exceeds what the stay costs.
LEMMA CollectedTyped ==
    ASSUME NEW paid \in 0..(Total + 1), NEW due \in {0, 1}
    PROVE  Collected(paid, due) \in 0..Total
BY PassNumbers DEF Collected, Lesser

LEMMA MoveStep == ASSUME PassInv, Move PROVE PassInv'
<1>1. booking' \in Bookings
  <2>1. booking \in Bookings
        BY DEF PassInv, PassTypes, RecordsTyped
  <2>2. CASE \E paid \in 0..(Total + 1), due \in {0, 1} :
               booking' = [booking EXCEPT !.collected = Collected(paid, due)]
        BY <2>1, <2>2, CollectedTyped DEF Bookings
  <2>3. CASE \E st \in {"booked", "cancelled"} : booking' = [booking EXCEPT !.status = st]
        BY <2>1, <2>3 DEF Bookings
  <2>4. QED
        BY <2>2, <2>3 DEF Move
<1>2. CountsTyped' /\ (Outlived => Outlived')
      BY Counted DEF PassInv, PassTypes, Move
<1>3. PassTypes'
      BY <1>1, <1>2 DEF PassInv, PassTypes, LocksTyped, RecordsTyped, LocalsTyped, StageTyped,
                        Targeted, Numbered, Move, records, pass
<1>4. Locked'
      BY <1>2 DEF PassInv, Locked, RunHeld, ClaimHeld, BillsLocked, SettlesLocked, Barren, Lone,
                  Standing, Move, pass
<1>5. QED
      BY <1>3, <1>4 DEF PassInv

LEMMA ApproveStep == ASSUME PassInv, NEW d \in DocIds, Approve(d) PROVE PassInv'
<1>1. /\ fatura' \in [DocIds -> Faturas]
      /\ \A e \in DocIds : /\ Standing(e)' => Standing(e)
                           /\ fatura'[e].state = "none" <=> fatura[e].state = "none"
  <2>1. RecordsTyped /\ fatura[d].state # "none" /\ Standing(d)
        BY DEF PassInv, PassTypes, Approve, Standing
  <2>2. PICK st \in {"closed", "gone"} : fatura' = [fatura EXCEPT ![d].state = st]
        BY DEF Approve
  <2>3. QED
        BY <2>1, <2>2, FaturaKept
<1>2. CountsTyped' /\ (Outlived => Outlived')
      BY Counted DEF PassInv, PassTypes, Approve
<1>3. PassTypes'
  <2>1. Numbered'
    <3>1. PICK n \in 0..MaxDocs : \A e \in DocIds : e <= n <=> fatura[e].state # "none"
          BY DEF PassInv, PassTypes, Numbered
    <3>2. \A e \in DocIds : e <= n <=> fatura'[e].state # "none"
          BY <1>1, <3>1
    <3>3. QED
          BY <3>2 DEF Numbered
  <2>2. RecordsTyped' /\ LocksTyped'
        BY <1>1 DEF PassInv, PassTypes, LocksTyped, RecordsTyped, Approve, records
  <2>3. LocalsTyped' /\ StageTyped' /\ Targeted'
        BY DEF PassInv, PassTypes, LocalsTyped, StageTyped, Targeted, Approve, pass
  <2>4. QED
        BY <1>2, <2>1, <2>2, <2>3 DEF PassTypes
<1>4. Locked'
  <2>1. UNCHANGED <<run_lock, settle_claim, stage, target>>
        BY DEF Approve, pass
  <2>2. RunHeld' /\ ClaimHeld' /\ BillsLocked' /\ SettlesLocked'
        BY <1>2, <2>1 DEF PassInv, Locked, RunHeld, ClaimHeld, BillsLocked, SettlesLocked
  <2>3. Barren'
        BY <1>1, <1>2, <2>1 DEF PassInv, Locked, Barren
  <2>5. Lone'
        BY <1>1, <1>2, <2>1 DEF PassInv, Locked, Lone
  <2>4. QED
        BY <2>2, <2>3, <2>5 DEF Locked
<1>5. QED
      BY <1>3, <1>4 DEF PassInv

LEMMA CooldownStep == ASSUME PassInv, NEW d \in DocIds, CooldownOver(d) PROVE PassInv'
<1>1. settlements' \in [DocIds -> Rows]
  <2>1. settlements[d] \in Rows /\ settlements \in [DocIds -> Rows]
        BY DEF PassInv, PassTypes, RecordsTyped
  <2>2. [settlements[d] EXCEPT !.cool = FALSE] \in Rows
        BY <2>1 DEF Rows
  <2>3. QED
        BY <2>1, <2>2 DEF CooldownOver
<1>2. PassTypes'
      BY <1>1 DEF PassInv, PassTypes, LocksTyped, RecordsTyped, LocalsTyped, StageTyped, CountsTyped,
                  Targeted, Numbered, CooldownOver, records, pass
<1>3. Locked'
      BY DEF PassInv, Locked, RunHeld, ClaimHeld, BillsLocked, SettlesLocked, Barren, Lone,
             Standing, Outlived, CooldownOver, pass
<1>4. QED
      BY <1>2, <1>3 DEF PassInv

LEMMA LapseStep == ASSUME PassInv, Lapse PROVE PassInv'
<1>1. \A p \in Passes : p # "free" /\ p # "dead"
      BY PassConstants DEF Passes
<1>2. LocksTyped'
      BY DEF PassInv, PassTypes, LocksTyped, Lapse
<1>3. PassTypes'
      BY <1>2 DEF PassInv, PassTypes, RecordsTyped, LocalsTyped, StageTyped, CountsTyped,
                  Targeted, Numbered, Lapse, records, pass
<1>4. /\ \A p \in Passes : run_lock' = p <=> run_lock = p
      /\ \A p \in Passes, d \in DocIds : settle_claim'[d] = p <=> settle_claim[d] = p
      BY <1>1 DEF PassInv, PassTypes, LocksTyped, Lapse
<1>5. SettlesLocked'
  <2>1. \A p \in Passes : stage[p] \in Settling => target[p] \in DocIds
        BY DEF PassInv, PassTypes, Targeted
  <2>2. QED
        BY <1>4, <2>1 DEF PassInv, Locked, SettlesLocked, Outlived, Lapse, pass
<1>6. RunHeld' /\ ClaimHeld' /\ BillsLocked' /\ Barren' /\ Lone'
      BY <1>4 DEF PassInv, Locked, RunHeld, ClaimHeld, BillsLocked, Barren, Lone, Standing, Outlived,
                  Lapse, pass
<1>7. QED
      BY <1>3, <1>5, <1>6 DEF PassInv, Locked

-----------------------------------------------------------------------------
(* The passes over a booking: billing.                                     *)

LEMMA StartStep == ASSUME PassInv, NEW p \in Polls, Start(p) PROVE PassInv'
<1>1. /\ p \in Passes /\ p # "free" /\ p # "dead" /\ stage[p] = "idle" /\ run_lock' = p
      /\ PassTypes /\ Locked
      BY PassConstants DEF Passes, Start, PassInv
<1>2. StageTyped' /\ stage'[p] = "list" /\ \A q \in Passes \ {p} : stage'[q] = stage[q]
      BY <1>1, MovesOn DEF PassTypes, Start, Stages, Billing
<1>3. CountsTyped' /\ (Outlived => Outlived') /\ (run_lock = "free" \/ Outlived')
      BY <1>1, Counted DEF PassTypes, Start, Takeable
<1>4. PassTypes'
  <2>1. LocksTyped' /\ RecordsTyped' /\ LocalsTyped' /\ Numbered'
        BY <1>1 DEF PassTypes, LocksTyped, RecordsTyped, LocalsTyped, Numbered, Start, records, locals
  <2>2. Targeted'
        BY <1>1, <1>2 DEF PassTypes, Targeted, Settling, Start, locals
  <2>3. QED
        BY <1>2, <1>3, <2>1, <2>2 DEF PassTypes
<1>5. UNCHANGED <<settle_claim, target, fatura>> /\ \A d \in DocIds : Standing(d)' <=> Standing(d)
      BY DEF Start, locals, Standing
<1>6. RunHeld'
      BY <1>1, <1>2 DEF RunHeld
<1>7. ClaimHeld'
      BY <1>1, <1>2, <1>5 DEF Locked, ClaimHeld, Settling
<1>8. BillsLocked'
  <2>1. ASSUME ~Outlived' PROVE \A q \in Passes \ {p} : stage'[q] \notin Billing
        BY <1>1, <1>2, <1>3, <2>1, PassConstants DEF Locked, BillsLocked, Passes
  <2>2. QED
        BY <1>1, <2>1 DEF BillsLocked
<1>9. SettlesLocked'
      BY <1>1, <1>2, <1>3, <1>5 DEF Locked, SettlesLocked, Settling
<1>10. Barren' /\ Lone'
      BY <1>1, <1>2, <1>3, <1>5 DEF Locked, Barren, Lone
<1>11. QED
       BY <1>1, <1>4, <1>6, <1>7, <1>8, <1>9, <1>10 DEF PassInv, Locked

\* A billing pass that touches no lock: what its step has to show for PassInv'.
LEMMA BillingKeeps ==
    ASSUME PassInv, NEW p \in Passes, NEW next \in Stages \ (Settling \cup {"idle", "claim"}), Go(p, next),
           stage[p] \notin Settling \cup {"done"}, RecordsTyped', LocalsTyped',
           \A q \in Passes \ {p} : target'[q] = target[q],
           UNCHANGED <<run_lock, settle_claim>>, Fault \/ NoFault,
           next \in Billing => stage[p] \in Billing,
           next = "create" => MissedLookups \/ \A d \in DocIds : ~Standing(d),
           \A d \in DocIds : /\ Standing(d)' => Standing(d)
                             /\ (fatura'[d].state = "none" <=> fatura[d].state = "none")
    PROVE  PassInv'
<1>1. StageTyped' /\ stage'[p] = next /\ \A q \in Passes \ {p} : stage'[q] = stage[q]
      BY MovesOn DEF PassInv, PassTypes
<1>2. CountsTyped' /\ (Outlived => Outlived')
      BY Counted DEF PassInv, PassTypes
<1>3. Numbered'
  <2>1. PICK n \in 0..MaxDocs : \A e \in DocIds : e <= n <=> fatura[e].state # "none"
        BY DEF PassInv, PassTypes, Numbered
  <2>2. \A e \in DocIds : e <= n <=> fatura'[e].state # "none"
        BY <2>1
  <2>3. QED
        BY <2>2 DEF Numbered
<1>4. Targeted'
      BY <1>1 DEF PassInv, PassTypes, Targeted
<1>5. LocksTyped'
      BY DEF PassInv, PassTypes, LocksTyped
<1>6. Locked'
      BY <1>1, <1>2, BillingStep DEF PassInv, PassTypes
<1>7. QED
      BY <1>1, <1>2, <1>3, <1>4, <1>5, <1>6 DEF PassInv, PassTypes

LEMMA FaturaStill ==
    ASSUME fatura' = fatura
    PROVE  \A d \in DocIds : /\ Standing(d)' => Standing(d)
                             /\ (fatura'[d].state = "none" <=> fatura[d].state = "none")
BY DEF Standing

LEMMA ListStep == ASSUME PassInv, NEW p \in Polls, List(p) PROVE PassInv'
<1>1. /\ p \in Passes /\ stage[p] = "list" /\ (Fault \/ NoFault) /\ fatura' = fatura
      /\ UNCHANGED <<run_lock, settle_claim, target>>
      BY DEF List, Passes
<1>2. RecordsTyped' /\ LocalsTyped'
      BY <1>1 DEF PassInv, PassTypes, RecordsTyped, LocalsTyped, List, records
<1>3. PICK next \in {"bill", "done"} : Go(p, next)
      BY DEF List
<1>4. next \in Stages \ (Settling \cup {"idle", "claim"})
      BY DEF Stages, Settling, Billing
<1>5. stage[p] \in Billing /\ stage[p] \notin Settling \cup {"done"}
      BY <1>1 DEF Billing, Settling
<1>6. QED
      BY <1>1, <1>2, <1>3, <1>4, <1>5, FaturaStill, BillingKeeps

LEMMA BillStep == ASSUME PassInv, NEW p \in Polls, Bill(p) PROVE PassInv'
<1>1. /\ p \in Passes /\ stage[p] = "bill" /\ NoFault /\ fatura' = fatura
      /\ UNCHANGED <<run_lock, settle_claim, target>>
      BY DEF Bill, Passes, NoFault, locals
<1>2. RecordsTyped' /\ LocalsTyped'
      BY DEF PassInv, PassTypes, RecordsTyped, LocalsTyped, Bill, locals, Markers
<1>3. PICK next \in {"undo", "lookup", "settle"} : Go(p, next)
      BY DEF Bill
<1>4. next \in Stages \ (Settling \cup {"idle", "claim"})
      BY DEF Stages, Settling, Billing
<1>5. stage[p] \in Billing /\ stage[p] \notin Settling \cup {"done"}
      BY <1>1 DEF Billing, Settling
<1>6. QED
      BY <1>1, <1>2, <1>3, <1>4, <1>5, FaturaStill, BillingKeeps

LEMMA LookupStep == ASSUME PassInv, NEW p \in Polls, Lookup(p) PROVE PassInv'
<1>1. /\ p \in Passes /\ stage[p] = "lookup" /\ (Fault \/ NoFault) /\ fatura' = fatura
      /\ UNCHANGED <<run_lock, settle_claim, target>>
      BY DEF Lookup, Passes, locals
<1>2. RecordsTyped' /\ LocalsTyped'
      BY DEF PassInv, PassTypes, RecordsTyped, LocalsTyped, Lookup, locals, Markers
<1>3. PICK next \in {"create", "settle"} :
        Go(p, next) /\ (next = "create" => MissedLookups \/ \A d \in DocIds : ~Standing(d))
      BY DEF Lookup
<1>4. next \in Stages \ (Settling \cup {"idle", "claim"})
      BY DEF Stages, Settling, Billing
<1>5. stage[p] \in Billing /\ stage[p] \notin Settling \cup {"done"}
      BY <1>1 DEF Billing, Settling
<1>6. QED
      BY <1>1, <1>2, <1>3, <1>4, <1>5, FaturaStill, BillingKeeps

LEMMA SaveStep == ASSUME PassInv, NEW p \in Polls, Save(p) PROVE PassInv'
<1>1. /\ p \in Passes /\ stage[p] = "save" /\ (Fault \/ NoFault) /\ fatura' = fatura
      /\ UNCHANGED <<run_lock, settle_claim>> /\ Go(p, "settle")
      BY DEF Save, Passes
<1>2. RecordsTyped' /\ LocalsTyped' /\ \A q \in Passes \ {p} : target'[q] = target[q]
      BY <1>1 DEF PassInv, PassTypes, RecordsTyped, LocalsTyped, Save, Markers
<1>3. "settle" \in Stages \ (Settling \cup {"idle", "claim"}) /\ "settle" \notin Billing
      BY DEF Stages, Settling, Billing
<1>4. stage[p] \notin Settling \cup {"done"}
      BY <1>1 DEF Settling
<1>5. QED
      BY <1>1, <1>2, <1>3, <1>4, FaturaStill, BillingKeeps

LEMMA ForgetStep == ASSUME PassInv, NEW p \in Polls, Forget(p) PROVE PassInv'
<1>1. /\ p \in Passes /\ stage[p] = "forget" /\ (Fault \/ NoFault) /\ fatura' = fatura
      /\ UNCHANGED <<run_lock, settle_claim>> /\ Go(p, "settle")
      BY DEF Forget, Passes
<1>2. RecordsTyped' /\ LocalsTyped' /\ \A q \in Passes \ {p} : target'[q] = target[q]
      BY <1>1 DEF PassInv, PassTypes, RecordsTyped, LocalsTyped, Forget, Markers
<1>3. "settle" \in Stages \ (Settling \cup {"idle", "claim"}) /\ "settle" \notin Billing
      BY DEF Stages, Settling, Billing
<1>4. stage[p] \notin Settling \cup {"done"}
      BY <1>1 DEF Settling
<1>5. QED
      BY <1>1, <1>2, <1>3, <1>4, FaturaStill, BillingKeeps

LEMMA UndoStep == ASSUME PassInv, NEW p \in Polls, Undo(p) PROVE PassInv'
<1>1. /\ p \in Passes /\ stage[p] = "undo" /\ (Fault \/ NoFault)
      /\ UNCHANGED <<run_lock, settle_claim>>
      BY DEF Undo, Passes
<1>2. \/ fatura' = fatura
      \/ /\ sale_row # 0 /\ fatura[sale_row].state = "draft"
         /\ fatura' = [fatura EXCEPT ![sale_row].state = "gone"]
      BY DEF Undo
<1>3. /\ fatura' \in [DocIds -> Faturas]
      /\ \A d \in DocIds : /\ Standing(d)' => Standing(d)
                           /\ (fatura'[d].state = "none" <=> fatura[d].state = "none")
  <2>1. CASE fatura' = fatura
        BY <2>1, FaturaStill DEF PassInv, PassTypes, RecordsTyped
  <2>2. CASE /\ sale_row # 0 /\ fatura[sale_row].state = "draft"
             /\ fatura' = [fatura EXCEPT ![sale_row].state = "gone"]
        BY <2>2, FaturaKept DEF PassInv, PassTypes, RecordsTyped
  <2>3. QED
        BY <1>2, <2>1, <2>2
<1>4. RecordsTyped' /\ LocalsTyped' /\ \A q \in Passes \ {p} : target'[q] = target[q]
  <2>1. target' = target \/ target' = [target EXCEPT ![p] = sale_row]
        BY DEF Undo
  <2>2. RecordsTyped'
        BY <1>3 DEF PassInv, PassTypes, RecordsTyped, Undo, records
  <2>3. UNCHANGED <<item, known, seen, outcome>>
        BY DEF Undo
  <2>4. LocalsTyped' /\ \A q \in Passes \ {p} : target'[q] = target[q]
        BY <1>1, <2>1, <2>3 DEF PassInv, PassTypes, RecordsTyped, LocalsTyped
  <2>5. QED
        BY <2>2, <2>4
<1>5. PICK next \in {"forget", "settle"} : Go(p, next)
      BY DEF Undo
<1>6. next \in Stages \ (Settling \cup {"idle", "claim"})
      BY DEF Stages, Settling, Billing
<1>7. stage[p] \in Billing /\ stage[p] \notin Settling \cup {"done"}
      BY <1>1 DEF Billing, Settling
<1>8. QED
      BY <1>1, <1>3, <1>4, <1>5, <1>6, <1>7, BillingKeeps

\* The next document is the first number that is free.
LEMMA NextDocIs ==
    ASSUME PassTypes, NEW d \in DocIds, fatura[d].state = "none"
    PROVE  \E n \in 0..MaxDocs :
               /\ NextDoc = n + 1 /\ NextDoc \in DocIds /\ fatura[NextDoc].state = "none"
               /\ \A e \in DocIds : e <= n <=> fatura[e].state # "none"
<1>1. PICK n \in 0..MaxDocs : \A e \in DocIds : e <= n <=> fatura[e].state # "none"
      BY DEF PassTypes, Numbered
<1>2. ~(d <= n) /\ d \in Nat /\ d <= MaxDocs /\ n \in Nat
      BY <1>1, PassNumbers DEF DocIds
<1>3. n + 1 \in DocIds /\ ~(n + 1 <= n)
      BY <1>2, PassNumbers DEF DocIds
<1>4. fatura[n + 1].state = "none"
      BY <1>1, <1>3
<1>5. \A e \in DocIds : e < n + 1 => fatura[e].state # "none"
      BY <1>1, <1>2, PassNumbers DEF DocIds
<1>6. NextDoc \in DocIds /\ fatura[NextDoc].state = "none"
      /\ \A e \in DocIds : e < NextDoc => fatura[e].state # "none"
  <2> DEFINE Free(x) == fatura[x].state = "none" /\ \A e \in DocIds : e < x => fatura[e].state # "none"
  <2>1. \E x \in DocIds : Free(x)
        BY <1>3, <1>4, <1>5
  <2>2. NextDoc = CHOOSE x \in DocIds : Free(x)
        BY DEF NextDoc
  <2> HIDE DEF Free
  <2>3. NextDoc \in DocIds /\ Free(NextDoc)
        BY <2>1, <2>2
  <2>4. QED
        BY <2>3 DEF Free
<1>7. NextDoc = n + 1
  <2>1. NextDoc \in Nat /\ ~(NextDoc <= n) /\ ~(n + 1 < NextDoc)
        BY <1>1, <1>3, <1>4, <1>6, PassNumbers
  <2>2. QED
        BY <1>2, <2>1
<1>8. QED
      BY <1>1, <1>6, <1>7

LEMMA CreateStep == ASSUME PassInv, NEW p \in Polls, Create(p) PROVE PassInv'
<1>1. /\ p \in Passes /\ stage[p] = "create" /\ (Fault \/ NoFault)
      /\ UNCHANGED <<run_lock, settle_claim>>
      /\ PassTypes /\ Locked
      BY DEF Create, Passes, PassInv
<1>2. CASE fatura' = fatura
  <2>1. Go(p, "settle") /\ target' = target
    <3>1. ASSUME NEW d \in DocIds, fatura[d].state = "none",
                 fatura' = [fatura EXCEPT ![NextDoc].state = "draft"]
          PROVE  FALSE
      <4>1. NextDoc \in DocIds /\ fatura[NextDoc].state = "none"
            BY <1>1, <3>1, NextDocIs
      <4>2. fatura'[NextDoc].state = "draft"
            BY <1>1, <3>1, <4>1 DEF PassTypes, RecordsTyped, Faturas
      <4>3. QED
            BY <1>2, <4>1, <4>2
    <3>2. QED
          BY <3>1 DEF Create
  <2>2. RecordsTyped' /\ LocalsTyped'
        BY <1>1, <1>2, <2>1 DEF PassTypes, RecordsTyped, LocalsTyped, Create, Markers
  <2>3. "settle" \in Stages \ (Settling \cup {"idle", "claim"}) /\ "settle" \notin Billing
        BY DEF Stages, Settling, Billing
  <2>4. stage[p] \notin Settling \cup {"done"}
        BY <1>1 DEF Settling
  <2>5. QED
        BY <1>1, <1>2, <2>1, <2>2, <2>3, <2>4, FaturaStill, BillingKeeps
<1>3. CASE fatura' # fatura
  <2>1. /\ \E d \in DocIds : fatura[d].state = "none"
        /\ fatura' = [fatura EXCEPT ![NextDoc].state = "draft"]
        BY <1>3 DEF Create
  <2>2. PICK n \in 0..MaxDocs :
               /\ NextDoc = n + 1 /\ NextDoc \in DocIds /\ fatura[NextDoc].state = "none"
               /\ \A e \in DocIds : e <= n <=> fatura[e].state # "none"
        BY <1>1, <2>1, NextDocIs
  <2>3. /\ fatura' \in [DocIds -> Faturas] /\ fatura'[NextDoc].state = "draft"
        /\ \A e \in DocIds \ {NextDoc} : fatura'[e] = fatura[e]
        BY <1>1, <2>1, <2>2 DEF PassTypes, RecordsTyped, Faturas
  <2>4. Numbered'
    <3>1. n + 1 \in 0..MaxDocs
          BY <2>2, PassNumbers DEF DocIds
    <3>2. ASSUME NEW e \in DocIds PROVE e <= n + 1 <=> fatura'[e].state # "none"
      <4>1. CASE e = NextDoc
            BY <2>2, <2>3, <4>1
      <4>2. CASE e # NextDoc
        <5>1. e \in Nat /\ n \in Nat /\ e # n + 1
              BY <2>2, <4>2, PassNumbers
        <5>2. e <= n + 1 <=> e <= n
              BY <5>1
        <5>3. QED
              BY <2>2, <2>3, <4>2, <5>2
      <4>3. QED
            BY <4>1, <4>2
    <3>3. QED
          BY <3>1, <3>2 DEF Numbered
  <2>5. PICK next \in {"save", "settle"} : Go(p, next)
        BY DEF Create
  <2>6. next \in Stages
        BY DEF Stages, Billing
  <2>7. StageTyped' /\ stage'[p] = next /\ \A q \in Passes \ {p} : stage'[q] = stage[q]
        BY <1>1, <2>5, <2>6, MovesOn DEF PassTypes
  <2>8. CountsTyped' /\ (Outlived => Outlived')
        BY <1>1, Counted DEF PassTypes
  <2>9. LocalsTyped' /\ \A q \in Passes \ {p} : target'[q] = target[q]
    <3>1. target' = target \/ target' = [target EXCEPT ![p] = NextDoc]
          BY DEF Create
    <3>2. QED
          BY <1>1, <2>2, <3>1 DEF PassTypes, LocalsTyped, Create
  <2>10. RecordsTyped' /\ LocksTyped'
         BY <1>1, <2>3 DEF PassTypes, RecordsTyped, LocksTyped, Create, Markers
  <2>11. Targeted'
         BY <1>1, <2>7, <2>9 DEF PassTypes, Targeted, Settling
  <2>12. \A d \in DocIds : Standing(d)' => Standing(d) \/ d = NextDoc
         BY <2>3 DEF Standing
  <2>13. RunHeld' /\ ClaimHeld' /\ BillsLocked' /\ SettlesLocked'
    <3>1. RunHeld'
          BY <1>1, <2>7 DEF Locked, RunHeld
    <3>2. ClaimHeld'
          BY <1>1, <2>7, <2>9 DEF Locked, ClaimHeld, Settling
    <3>3. BillsLocked'
          BY <1>1, <2>7, <2>8 DEF Locked, BillsLocked, Billing
    <3>4. SettlesLocked'
          BY <1>1, <2>7, <2>8, <2>9 DEF Locked, SettlesLocked, Settling
    <3>5. QED
          BY <3>1, <3>2, <3>3, <3>4
  <2>14. ASSUME ~Outlived', ~MissedLookups
         PROVE  /\ \A d \in DocIds : ~Standing(d)
                /\ \A q \in Passes \ {p} : stage[q] # "create"
         BY <1>1, <2>8, <2>14 DEF Locked, Barren, BillsLocked, Billing
  <2>15. Barren'
         BY <2>7, <2>14 DEF Barren
  <2>16. Lone'
         BY <2>12, <2>14 DEF Lone
  <2>17. QED
         BY <2>4, <2>7, <2>8, <2>9, <2>10, <2>11, <2>13, <2>15, <2>16 DEF PassInv, PassTypes, Locked
<1>4. QED
      BY <1>2, <1>3

-----------------------------------------------------------------------------
(* The passes over a booking: settling.                                    *)

LEMMA CallStep == ASSUME PassInv, NEW p \in Desks, Call(p) PROVE PassInv'
<1>1. /\ p \in Passes /\ stage[p] = "idle" /\ NoFault /\ fatura' = fatura
      /\ UNCHANGED <<run_lock, settle_claim, target>>
      BY DEF Call, Passes, NoFault
<1>2. RecordsTyped' /\ LocalsTyped'
      BY <1>1 DEF PassInv, PassTypes, RecordsTyped, LocalsTyped, Call, records
<1>3. PICK next \in {"settle", "force"} : Go(p, next)
      BY DEF Call
<1>4. next \in Stages \ (Settling \cup {"idle", "claim"}) /\ next \notin Billing /\ next # "create"
      BY DEF Stages, Settling, Billing
<1>5. stage[p] \notin Settling \cup {"done"}
      BY <1>1 DEF Settling
<1>6. QED
      BY <1>1, <1>2, <1>3, <1>4, <1>5, FaturaStill, BillingKeeps

LEMMA GateStep == ASSUME PassInv, NEW p \in Passes, Gate(p) PROVE PassInv'
<1>1. /\ stage[p] \in {"settle", "force"} /\ (Fault \/ NoFault) /\ fatura' = fatura
      /\ UNCHANGED <<run_lock, settle_claim, booking, mirror, records, settlements, seen, outcome>>
      /\ PassTypes /\ Locked
      BY DEF Gate, PassInv
<1>2. \/ /\ sale_row # 0 /\ target' = [target EXCEPT ![p] = sale_row]
         /\ known' = [known EXCEPT ![p] = settlements[sale_row]] /\ Go(p, "claim") /\ item' = item
      \/ item' = [item EXCEPT ![p] = NoItem] /\ Go(p, "done") /\ UNCHANGED <<target, known>>
      BY DEF Gate
<1>3. RecordsTyped'
      BY <1>1 DEF PassTypes, RecordsTyped, records
<1>4. /\ LocalsTyped' /\ (Go(p, "done") \/ (Go(p, "claim") /\ target'[p] \in DocIds))
      /\ \A q \in Passes \ {p} : target'[q] = target[q]
  <2>1. CASE /\ sale_row # 0 /\ target' = [target EXCEPT ![p] = sale_row]
             /\ known' = [known EXCEPT ![p] = settlements[sale_row]] /\ Go(p, "claim") /\ item' = item
    <3>1. sale_row \in DocIds
          BY <1>1, <2>1 DEF PassTypes, RecordsTyped
    <3>2. QED
          BY <1>1, <2>1, <3>1 DEF PassTypes, RecordsTyped, LocalsTyped
  <2>2. CASE item' = [item EXCEPT ![p] = NoItem] /\ Go(p, "done") /\ UNCHANGED <<target, known>>
        BY <1>1, <2>2 DEF PassTypes, LocalsTyped
  <2>3. QED
        BY <1>2, <2>1, <2>2
<1>5. PICK next \in {"claim", "done"} : Go(p, next) /\ (next = "claim" => target'[p] \in DocIds)
      BY <1>4
<1>6. next \in Stages \ (Settling \cup {"idle"}) /\ next \notin Billing /\ next # "create"
      BY DEF Stages, Settling, Billing
<1>7. stage[p] \notin Settling \cup {"done"}
      BY <1>1 DEF Settling
<1>8. StageTyped' /\ stage'[p] = next /\ \A q \in Passes \ {p} : stage'[q] = stage[q]
      BY <1>1, <1>5, <1>6, MovesOn DEF PassTypes
<1>9. CountsTyped' /\ (Outlived => Outlived')
      BY <1>1, Counted DEF PassTypes
<1>10. Targeted'
       BY <1>1, <1>4, <1>5, <1>6, <1>8 DEF PassTypes, Targeted
<1>11. Numbered' /\ LocksTyped'
       BY <1>1 DEF PassTypes, Numbered, LocksTyped
<1>12. Locked'
       BY <1>1, <1>4, <1>6, <1>7, <1>8, <1>9, FaturaStill, BillingStep DEF PassTypes
<1>13. QED
       BY <1>3, <1>4, <1>8, <1>9, <1>10, <1>11, <1>12 DEF PassInv, PassTypes

LEMMA ClaimStep == ASSUME PassInv, NEW p \in Passes, Claim(p) PROVE PassInv'
<1>1. /\ stage[p] = "claim" /\ target[p] \in DocIds /\ PassTypes /\ Locked
      /\ UNCHANGED <<booking, mirror, fatura, run_lock, records, settlements>>
      /\ p # "free" /\ p # "dead"
      BY PassConstants DEF Claim, PassInv, PassTypes, Targeted, Passes
<1>2. RecordsTyped' /\ Numbered' /\ \A d \in DocIds : Standing(d)' <=> Standing(d)
      BY <1>1 DEF PassTypes, RecordsTyped, Numbered, records, Standing
<1>3. CASE /\ Takeable("settle", settle_claim[target[p]], p)
           /\ settle_claim' = [settle_claim EXCEPT ![target[p]] = p]
           /\ Go(p, "ask") /\ UNCHANGED locals
  <2>1. StageTyped' /\ stage'[p] = "ask" /\ \A q \in Passes \ {p} : stage'[q] = stage[q]
        BY <1>1, <1>3, MovesOn DEF PassTypes, Stages, Settling
  <2>2. CountsTyped' /\ (Outlived => Outlived') /\ (settle_claim[target[p]] = "free" \/ Outlived')
        BY <1>1, <1>3, Counted DEF PassTypes, Takeable
  <2>3. LocksTyped' /\ LocalsTyped' /\ target' = target
        BY <1>1, <1>3 DEF PassTypes, LocksTyped, LocalsTyped, locals
  <2>4. Targeted'
        BY <1>1, <2>1, <2>3 DEF PassTypes, Targeted
  <2>5. /\ settle_claim'[target[p]] = p
        /\ \A d \in DocIds \ {target[p]} : settle_claim'[d] = settle_claim[d]
        BY <1>1, <1>3 DEF PassTypes, LocksTyped
  <2>6. RunHeld' /\ BillsLocked'
        BY <1>1, <2>1, <2>2 DEF Locked, RunHeld, BillsLocked, Billing
  <2>7. ClaimHeld'
        BY <1>1, <2>1, <2>3, <2>5 DEF Locked, ClaimHeld, Settling
  <2>8. SettlesLocked'
    <3>1. SUFFICES ASSUME ~Outlived', NEW q \in Passes, stage'[q] \in Settling
                   PROVE  settle_claim'[target'[q]] = q
          BY DEF SettlesLocked
    <3>2. CASE q = p
          BY <2>3, <2>5, <3>2
    <3>3. CASE q # p
      <4>1. settle_claim[target[q]] = q /\ target[q] \in DocIds /\ q # "free"
            BY <1>1, <2>1, <2>2, <3>1, <3>3, PassConstants
            DEF Locked, SettlesLocked, PassTypes, Targeted, Passes
      <4>2. target[q] # target[p]
            BY <2>2, <3>1, <4>1
      <4>3. QED
            BY <2>3, <2>5, <4>1, <4>2
    <3>4. QED
          BY <3>2, <3>3
  <2>9. Barren' /\ Lone'
        BY <1>1, <1>2, <2>1, <2>2 DEF Locked, Barren, Lone
  <2>10. QED
         BY <1>2, <2>1, <2>2, <2>3, <2>4, <2>6, <2>7, <2>8, <2>9 DEF PassInv, PassTypes, Locked
<1>4. CASE FailClosed(p) /\ (Fault \/ NoFault)
  <2>1. StageTyped' /\ stage'[p] = "done" /\ \A q \in Passes \ {p} : stage'[q] = stage[q]
        BY <1>1, <1>4, MovesOn DEF PassTypes, FailClosed, Stages
  <2>2. CountsTyped' /\ (Outlived => Outlived')
        BY <1>1, <1>4, Counted DEF PassTypes
  <2>3. settle_claim' = settle_claim /\ LocksTyped'
        BY <1>1, <1>4 DEF PassTypes, LocksTyped, FailClosed
  <2>4. LocalsTyped' /\ \A q \in Passes \ {p} : target'[q] = target[q]
        BY <1>1, <1>4, ResetAll DEF PassTypes, FailClosed
  <2>5. Targeted'
        BY <1>1, <2>1, <2>4 DEF PassTypes, Targeted, Settling
  <2>6. "done" \in Stages \ (Settling \cup {"idle"}) /\ "done" \notin Billing
        BY DEF Stages, Settling, Billing
  <2>7. stage[p] \notin Settling \cup {"done"}
        BY <1>1 DEF Settling
  <2>8. Locked'
        BY <1>1, <1>2, <2>1, <2>2, <2>3, <2>4, <2>6, <2>7, BillingStep DEF PassTypes
  <2>9. QED
        BY <1>2, <2>1, <2>2, <2>3, <2>4, <2>5, <2>8 DEF PassInv, PassTypes
<1>5. QED
      BY <1>3, <1>4 DEF Claim

\* A settling pass that holds on to its document and its claim.
LEMMA SettlingKeeps ==
    ASSUME PassInv, NEW p \in Passes, NEW next \in Settling \cup {"done"}, stage[p] \in Settling,
           StageTyped', stage'[p] = next, \A q \in Passes \ {p} : stage'[q] = stage[q],
           RecordsTyped', LocalsTyped', UNCHANGED <<run_lock, settle_claim, target>>, Fault \/ NoFault,
           \A d \in DocIds : fatura'[d].state = fatura[d].state
    PROVE  PassInv'
<1>1. CountsTyped' /\ (Outlived => Outlived')
      BY Counted DEF PassInv, PassTypes
<1>2. Numbered' /\ LocksTyped'
      BY DEF PassInv, PassTypes, Numbered, LocksTyped
<1>3. Targeted'
      BY DEF PassInv, PassTypes, Targeted
<1>4. \A d \in DocIds : Standing(d)' => Standing(d)
      BY DEF Standing
<1>5. Locked'
      BY <1>1, <1>4, SettlingStep DEF PassInv, PassTypes
<1>6. QED
      BY <1>1, <1>2, <1>3, <1>5 DEF PassInv, PassTypes

LEMMA VerdictKeeps ==
    ASSUME PassInv, NEW p \in Passes, stage[p] \in Settling, NEW row \in Rows, Verdict(p, row),
           RecordsTyped', UNCHANGED <<item, run_lock, settle_claim, target>>, Fault \/ NoFault,
           \A d \in DocIds : fatura'[d].state = fatura[d].state
    PROVE  PassInv'
<1>1. /\ LocalsTyped' /\ StageTyped' /\ stage'[p] = "write"
      /\ \A q \in Passes \ {p} : stage'[q] = stage[q]
      BY VerdictGiven DEF PassInv, PassTypes
<1>2. "write" \in Settling
      BY DEF Settling
<1>3. QED
      BY <1>1, <1>2, SettlingKeeps

LEMMA AskStep == ASSUME PassInv, NEW p \in Passes, Ask(p) PROVE PassInv'
<1> DEFINE d == fatura[target[p]]
<1>1. /\ stage[p] = "ask" /\ stage[p] \in Settling /\ target[p] \in DocIds
      /\ LocalsTyped /\ StageTyped /\ RecordsTyped
      /\ UNCHANGED <<booking, mirror, fatura, run_lock, records, settle_claim, settlements, item, target>>
      BY DEF Ask, PassInv, PassTypes, Targeted, Settling
<1>2. d.reconciled \in 0..Total /\ d.reconciled \in {Null} \cup 0..Total
      BY <1>1 DEF RecordsTyped, Faturas
<1>3. RecordsTyped'
      BY <1>1 DEF RecordsTyped, records
<1>4. ASSUME NEW row \in Rows, Verdict(p, row), Fault \/ NoFault PROVE PassInv'
      BY <1>1, <1>3, <1>4, VerdictKeeps
<1>5. /\ Answered(p, "unknown", Null) \in Rows /\ Answered(p, "draft", 0) \in Rows
      /\ Answered(p, "closed", d.reconciled) \in Rows /\ Thrown(p) \in Rows
      BY <1>1, <1>2, AnsweredTyped, ThrownTyped, PassNumbers
<1>6. CASE /\ seen' = [seen EXCEPT ![p] = d.reconciled] /\ Go(p, "insert") /\ NoFault
           /\ UNCHANGED <<outcome, known>>
  <2>1. LocalsTyped'
        BY <1>1, <1>2, <1>6 DEF LocalsTyped
  <2>2. /\ StageTyped' /\ stage'[p] = "insert" /\ "insert" \in Settling
        /\ \A q \in Passes \ {p} : stage'[q] = stage[q]
        BY <1>1, <1>6, MovesOn DEF Stages, Settling
  <2>3. QED
        BY <1>1, <1>3, <1>6, <2>1, <2>2, SettlingKeeps
<1>7. QED
      BY <1>4, <1>5, <1>6 DEF Ask

\* A receipt is booked on one document, for no more than the stay costs.
LEMMA Receipted ==
    ASSUME RecordsTyped, LocalsTyped, NEW p \in Passes, target[p] \in DocIds, NEW by \in {0, Value(p)},
           fatura[target[p]].reconciled + by <= Total,
           fatura' = [fatura EXCEPT ![target[p]].issued = @ + Value(p), ![target[p]].reconciled = @ + by]
    PROVE  /\ fatura' \in [DocIds -> Faturas] /\ Value(p) \in 0..Total
           /\ \A d \in DocIds : fatura'[d].state = fatura[d].state
           /\ fatura'[target[p]].issued = fatura[target[p]].issued + Value(p)
           /\ fatura'[target[p]].reconciled = fatura[target[p]].reconciled + by
           /\ \A d \in DocIds \ {target[p]} : fatura'[d] = fatura[d]
<1> DEFINE t == target[p]
<1>1. Value(p) \in 0..Total
      BY Counting, Delta DEF Value, LocalsTyped
<1>2. /\ fatura \in [DocIds -> Faturas] /\ fatura[t] \in Faturas
      /\ fatura[t].issued \in Nat /\ fatura[t].reconciled \in 0..Total
      BY DEF RecordsTyped, Faturas
<1>3. /\ fatura'[t] = [fatura[t] EXCEPT !.issued = @ + Value(p), !.reconciled = @ + by]
      /\ \A d \in DocIds \ {t} : fatura'[d] = fatura[d]
      /\ fatura' = [d \in DocIds |-> fatura'[d]]
      BY <1>2
<1>4. fatura'[t] = [state |-> fatura[t].state, reconciled |-> fatura[t].reconciled + by,
                    issued |-> fatura[t].issued + Value(p), suspect |-> fatura[t].suspect]
      BY <1>2, <1>3 DEF Faturas
<1>5. by \in Nat /\ Value(p) \in Nat
      BY <1>1, PassNumbers
<1>6. /\ fatura'[t].state = fatura[t].state
      /\ fatura'[t].issued = fatura[t].issued + Value(p)
      /\ fatura'[t].reconciled = fatura[t].reconciled + by
      /\ fatura'[t] \in Faturas
      BY <1>2, <1>4, <1>5, PassNumbers DEF Faturas
<1>7. fatura' \in [DocIds -> Faturas]
      BY <1>2, <1>3, <1>6
<1>8. QED
      BY <1>1, <1>3, <1>6, <1>7

LEMMA InsertStep == ASSUME PassInv, NEW p \in Passes, Insert(p) PROVE PassInv'
<1>1. /\ stage[p] = "insert" /\ stage[p] \in Settling /\ target[p] \in DocIds
      /\ LocalsTyped /\ StageTyped /\ RecordsTyped
      /\ UNCHANGED <<booking, mirror, run_lock, records, settle_claim, settlements, item, target>>
      /\ (Fault \/ NoFault)
      BY DEF Insert, PassInv, PassTypes, Targeted, Settling
<1>2. /\ fatura' \in [DocIds -> Faturas] /\ \A d \in DocIds : fatura'[d].state = fatura[d].state
  <2>1. fatura[target[p]].reconciled \in 0..Total
        BY <1>1 DEF RecordsTyped, Faturas
  <2>2. \/ fatura' = fatura
        \/ \E by \in {0, Value(p)} :
              /\ fatura[target[p]].reconciled + by <= Total
              /\ fatura' = [fatura EXCEPT ![target[p]].issued = @ + Value(p),
                                          ![target[p]].reconciled = @ + by]
        BY <2>1, PassNumbers DEF Insert
  <2>3. QED
        BY <1>1, <2>2, Receipted DEF RecordsTyped
<1>3. RecordsTyped'
      BY <1>1, <1>2 DEF RecordsTyped, records
<1>4. ASSUME NEW row \in Rows, Verdict(p, row) PROVE PassInv'
      BY <1>1, <1>2, <1>3, <1>4, VerdictKeeps
<1>5. Answered(p, "closed", seen[p]) \in Rows /\ Thrown(p) \in Rows
  <2>1. seen[p] \in {Null} \cup 0..Total
        BY <1>1 DEF LocalsTyped
  <2>2. QED
        BY <1>1, <2>1, AnsweredTyped, ThrownTyped
<1>6. CASE Go(p, "verify") /\ UNCHANGED <<outcome, known, seen>>
  <2>1. LocalsTyped'
        BY <1>1, <1>6 DEF LocalsTyped
  <2>2. /\ StageTyped' /\ stage'[p] = "verify" /\ "verify" \in Settling
        /\ \A q \in Passes \ {p} : stage'[q] = stage[q]
        BY <1>1, <1>6, MovesOn DEF Stages, Settling
  <2>3. QED
        BY <1>1, <1>2, <1>3, <2>1, <2>2, SettlingKeeps
<1>7. QED
      BY <1>4, <1>5, <1>6 DEF Insert

LEMMA VerifyStep == ASSUME PassInv, NEW p \in Passes, Verify(p) PROVE PassInv'
<1> DEFINE d == target[p]
<1>1. /\ stage[p] = "verify" /\ stage[p] \in Settling /\ d \in DocIds
      /\ LocalsTyped /\ StageTyped /\ RecordsTyped
      /\ UNCHANGED <<booking, mirror, run_lock, records, settle_claim, settlements, item, target>>
      /\ (Fault \/ NoFault)
      BY DEF Verify, PassInv, PassTypes, Targeted, Settling
<1>2. /\ fatura \in [DocIds -> Faturas] /\ fatura[d] \in Faturas /\ fatura[d].suspect \in BOOLEAN
      /\ fatura[d].reconciled \in 0..Total /\ seen[p] \in 0..Total
      BY <1>1 DEF RecordsTyped, Faturas, LocalsTyped
<1>3. /\ fatura' \in [DocIds -> Faturas] /\ \A e \in DocIds : fatura'[e].state = fatura[e].state
  <2>1. CASE fatura' = fatura
        BY <1>2, <2>1
  <2>2. CASE fatura' = [fatura EXCEPT ![d].suspect = @ \/ fatura[d].reconciled < seen[p] + Value(p)]
    <3> DEFINE b == fatura[d].suspect \/ fatura[d].reconciled < seen[p] + Value(p)
    <3>1. b \in BOOLEAN
          OBVIOUS
    <3>2. fatura'[d] = [fatura[d] EXCEPT !.suspect = b] /\ \A e \in DocIds \ {d} : fatura'[e] = fatura[e]
          BY <1>1, <1>2, <2>2
    <3> HIDE DEF b
    <3>3. fatura'[d] \in Faturas /\ fatura'[d].state = fatura[d].state
          BY <1>2, <3>1, <3>2 DEF Faturas
    <3>4. QED
          BY <1>1, <1>2, <2>2, <3>2, <3>3
  <2>3. QED
        BY <2>1, <2>2 DEF Verify
<1>4. RecordsTyped'
      BY <1>1, <1>3 DEF RecordsTyped, records
<1>5. ASSUME NEW row \in Rows, Verdict(p, row) PROVE PassInv'
      BY <1>1, <1>3, <1>4, <1>5, VerdictKeeps
<1>6. Answered(p, "closed", seen[p]) \in Rows /\ Answered(p, "closed", fatura[d].reconciled) \in Rows
  <2>1. seen[p] \in {Null} \cup 0..Total /\ fatura[d].reconciled \in {Null} \cup 0..Total
        BY <1>2
  <2>2. QED
        BY <1>1, <2>1, AnsweredTyped
<1>7. QED
      BY <1>5, <1>6 DEF Verify

LEMMA WriteStep == ASSUME PassInv, NEW p \in Passes, Write(p) PROVE PassInv'
<1>1. /\ stage[p] = "write" /\ stage[p] \in Settling /\ target[p] \in DocIds
      /\ LocalsTyped /\ StageTyped /\ RecordsTyped /\ (Fault \/ NoFault)
      /\ UNCHANGED <<booking, mirror, fatura, run_lock, records, settle_claim, target>>
      /\ Go(p, "done") /\ Close(p)
      BY DEF Write, PassInv, PassTypes, Targeted, Settling
<1>2. settlements' \in [DocIds -> Rows]
  <2>1. outcome[p] \in Rows /\ settlements \in [DocIds -> Rows]
        BY <1>1 DEF LocalsTyped, RecordsTyped
  <2>2. [outcome[p] EXCEPT !.cool = FALSE] \in Rows
        BY <2>1 DEF Rows
  <2>3. QED
        BY <1>1, <2>1, <2>2 DEF Write
<1>3. RecordsTyped'
      BY <1>1, <1>2 DEF RecordsTyped, records
<1>4. LocalsTyped'
      BY <1>1, Closed
<1>5. StageTyped' /\ stage'[p] = "done" /\ \A q \in Passes \ {p} : stage'[q] = stage[q]
      BY <1>1, MovesOn DEF Stages
<1>6. QED
      BY <1>1, <1>3, <1>4, <1>5, SettlingKeeps

\* A pass that ends, however it ends, has given back every lock it held.
LEMMA EndStep ==
    ASSUME PassInv, NEW p \in Passes, Finish(p) \/ Crash(p)
    PROVE  /\ PassInv' /\ stage[p] # "idle" /\ stage'[p] = "idle"
           /\ \A q \in Passes \ {p} :
                  /\ (run_lock' = q <=> run_lock = q)
                  /\ \A d \in DocIds : settle_claim'[d] = q <=> settle_claim[d] = q
           /\ run_lock' = run_lock \/ run_lock = p
           /\ \A d \in DocIds : settle_claim'[d] = settle_claim[d] \/ settle_claim[d] = p
<1>1. /\ stage[p] # "idle" /\ PassTypes /\ Locked /\ Go(p, "idle") /\ Reset(p)
      /\ UNCHANGED <<booking, mirror, fatura, records, settlements>> /\ (Fault \/ NoFault)
      /\ \A q \in Passes : q # "free" /\ q # "dead"
      BY PassConstants DEF Finish, Crash, PassInv, NoFault, Passes
<1>2. /\ run_lock' \in {run_lock, "free", "dead"} /\ run_lock' # p
      /\ (run_lock' = run_lock \/ run_lock = p)
  <2>1. CASE Finish(p)
    <3>1. CASE p \in Polls
          BY <1>1, <2>1, <3>1 DEF Finish, Released
    <3>2. CASE p \notin Polls
          BY <1>1, <2>1, <3>2 DEF Finish, PassTypes, LocksTyped
    <3>3. QED
          BY <3>1, <3>2
  <2>2. CASE Crash(p)
        BY <1>1, <2>2 DEF Crash
  <2>3. QED
        BY <2>1, <2>2
<1>3. \A d \in DocIds : /\ settle_claim'[d] \in {settle_claim[d], "free", "dead"} /\ settle_claim'[d] # p
                        /\ (settle_claim'[d] = settle_claim[d] \/ settle_claim[d] = p)
      BY <1>1 DEF Finish, Crash, Released, Locked, ClaimHeld
<1>4. LocksTyped'
  <2>1. settle_claim' = [d \in DocIds |-> settle_claim'[d]]
        BY DEF Finish, Crash
  <2>2. settle_claim' \in [DocIds -> Passes \cup {"free", "dead"}]
        BY <1>1, <1>3, <2>1 DEF PassTypes, LocksTyped
  <2>3. QED
        BY <1>1, <1>2, <2>2 DEF PassTypes, LocksTyped
<1>5. RecordsTyped' /\ Numbered' /\ \A d \in DocIds : Standing(d)' <=> Standing(d)
      BY <1>1 DEF PassTypes, RecordsTyped, Numbered, Standing, records
<1>6. LocalsTyped' /\ \A q \in Passes \ {p} : target'[q] = target[q]
      BY <1>1, ResetAll DEF PassTypes
<1>7. StageTyped' /\ stage'[p] = "idle" /\ \A q \in Passes \ {p} : stage'[q] = stage[q]
      BY <1>1, MovesOn DEF PassTypes, Stages
<1>8. CountsTyped' /\ (Outlived => Outlived')
      BY <1>1, Counted DEF PassTypes
<1>9. Targeted'
      BY <1>1, <1>6, <1>7 DEF PassTypes, Targeted, Settling
<1>10. \A q \in Passes \ {p} :
           /\ (run_lock' = q <=> run_lock = q)
           /\ \A d \in DocIds : settle_claim'[d] = q <=> settle_claim[d] = q
       BY <1>1, <1>2, <1>3
<1>11. RunHeld' /\ ClaimHeld'
       BY <1>1, <1>2, <1>3, <1>6, <1>7, <1>10 DEF Locked, RunHeld, ClaimHeld
<1>12. BillsLocked'
       BY <1>1, <1>7, <1>8, <1>10 DEF Locked, BillsLocked, Billing
<1>13. SettlesLocked'
  <2>1. SUFFICES ASSUME ~Outlived', NEW q \in Passes, stage'[q] \in Settling
                 PROVE  settle_claim'[target'[q]] = q
        BY DEF SettlesLocked
  <2>2. q # p /\ target'[q] = target[q] /\ target[q] \in DocIds /\ settle_claim[target[q]] = q
        BY <1>1, <1>6, <1>7, <1>8, <2>1 DEF Locked, SettlesLocked, PassTypes, Targeted, Settling
  <2>3. QED
        BY <1>10, <2>2
<1>14. Barren' /\ Lone'
       BY <1>1, <1>5, <1>7, <1>8 DEF Locked, Barren, Lone
<1>15. PassInv'
       BY <1>4, <1>5, <1>6, <1>7, <1>8, <1>9, <1>11, <1>12, <1>13, <1>14 DEF PassInv, PassTypes, Locked
<1>16. QED
       BY <1>1, <1>2, <1>3, <1>7, <1>10, <1>15

LEMMA PassInvNext == PassInv /\ [PassNext]_passVars => PassInv'
<1> SUFFICES ASSUME PassInv, [PassNext]_passVars PROVE PassInv'
    OBVIOUS
<1>1. CASE UNCHANGED passVars
      BY <1>1 DEF passVars, pass, PassInv, PassTypes, LocksTyped, RecordsTyped, LocalsTyped, StageTyped,
                  CountsTyped, Targeted, Numbered, Locked, RunHeld, ClaimHeld, BillsLocked, SettlesLocked,
                  Barren, Lone, Standing, Outlived
<1>2. CASE Move \/ Lapse
      BY <1>2, MoveStep, LapseStep
<1>3. CASE \E d \in DocIds : Approve(d) \/ CooldownOver(d)
      BY <1>3, ApproveStep, CooldownStep
<1>4. CASE \E p \in Polls : Bills(p)
      BY <1>4, StartStep, ListStep, BillStep, LookupStep, CreateStep, SaveStep, UndoStep, ForgetStep
      DEF Bills
<1>5. CASE \E p \in Desks : Call(p)
      BY <1>5, CallStep
<1>6. CASE \E p \in Passes : Settles(p) \/ Crash(p)
      BY <1>6, GateStep, ClaimStep, AskStep, InsertStep, VerifyStep, WriteStep, EndStep DEF Settles
<1>7. QED
      BY <1>1, <1>2, <1>3, <1>4, <1>5, <1>6 DEF PassNext

-----------------------------------------------------------------------------
(* The passes over a booking: what follows.                                *)

\* Every variable of LodgifyPass keeps to its type, whoever runs and whatever fails.
THEOREM PassesTyped == PassSpec => []PassTypeOK
<1>1. PassInv => PassTypeOK
      BY DEF PassInv, PassTypes, LocksTyped, RecordsTyped, LocalsTyped, StageTyped, CountsTyped,
             Bookings, Rows, Faturas, Markers, PassTypeOK
<1>2. QED
      BY PassInvInit, PassInvNext, <1>1, PTL DEF PassSpec

\* One Fatura stands per booking, for any number of polls and desks, of documents and
\* of mishaps: the run lock of lodgify-poll.ts makes one of the search and the creation,
\* also when the receipts of other passes run beside it and when invocations die in
\* between, until a pass outlives its lock.  It rests on a search that shows every document
\* that stands: an answer lost by the create leaves nothing else to find it by.
THEOREM OneFaturaEver == ASSUME ~MissedLookups PROVE PassSpec => []OneFatura
<1>1. PassInv => OneFatura
  <2>1. SUFFICES ASSUME PassInv, ~Outlived PROVE Cardinality({d \in DocIds : Standing(d)}) <= 1
        BY DEF OneFatura
  <2> DEFINE S == {d \in DocIds : Standing(d)}
  <2>2. CASE S = {}
    <3>1. Cardinality(S) = 0
          BY <2>2, FS_EmptySet
    <3>2. QED
          BY <3>1
  <2>3. CASE S # {}
    <3>1. PICK d \in DocIds : Standing(d)
          BY <2>3
    <3>2. S = {d}
          BY <2>1, <3>1 DEF PassInv, Locked, Lone
    <3>3. Cardinality(S) = 1
          BY <3>2, FS_Singleton
    <3>4. QED
          BY <3>3
  <2>4. QED
        BY <2>2, <2>3
<1>2. QED
      BY PassInvInit, PassInvNext, <1>1, PTL DEF PassSpec

\* Two settlements never work on one document, any number of polls and desks included,
\* until one outlives its claim (claimSettlement).
THEOREM OneSettlerEver == PassSpec => []OneSettler
<1>1. PassInv => OneSettler
  <2>1. SUFFICES ASSUME PassInv, ~Outlived, NEW p \in Passes, NEW q \in Passes,
                        stage[p] \in Settling, stage[q] \in Settling, target[p] = target[q]
                 PROVE  p = q
        BY DEF OneSettler
  <2>2. settle_claim[target[p]] = p /\ settle_claim[target[q]] = q
        BY <2>1 DEF PassInv, Locked, SettlesLocked
  <2>3. QED
        BY <2>1, <2>2
<1>2. QED
      BY PassInvInit, PassInvNext, <1>1, PTL DEF PassSpec

\* The locks change hands at a start, a claim, a lapse and an end only.
LEMMA LocksStay ==
    ASSUME PassInv, NEW p \in Passes,
           \/ p \in Polls /\ Bills(p) /\ ~Start(p)
           \/ p \in Desks /\ Call(p)
           \/ Gate(p) \/ Ask(p) \/ Insert(p) \/ Verify(p) \/ Write(p)
    PROVE  run_lock' = run_lock /\ settle_claim' = settle_claim
BY DEF Bills, List, Bill, Lookup, Create, Save, Undo, Forget, Call, Gate, Ask, Insert, Verify, Write

Surrendered(p) ==
    /\ run_lock = p /\ run_lock' \in {"free", "dead"} => stage[p] # "idle" /\ stage'[p] = "idle"
    /\ \A d \in DocIds :
          settle_claim[d] = p /\ settle_claim'[d] \in {"free", "dead"}
             => target[p] = d /\ stage[p] # "idle" /\ stage'[p] = "idle"

LEMMA NothingSurrendered ==
    ASSUME PassInv, NEW p \in Passes,
           run_lock' \in {"free", "dead"} => run_lock' = run_lock \/ run_lock # p,
           \A d \in DocIds : settle_claim'[d] \in {"free", "dead"}
                              => settle_claim'[d] = settle_claim[d] \/ settle_claim[d] # p
    PROVE  Surrendered(p)
<1>1. p # "free" /\ p # "dead"
      BY PassConstants DEF Passes
<1>2. QED
      BY <1>1 DEF Surrendered

LEMMA Surrender == ASSUME PassInv, PassNext, NEW p \in Passes PROVE Surrendered(p)
<1>1. \A q \in Passes : q # "free" /\ q # "dead"
      BY PassConstants DEF Passes
<1>2. CASE run_lock' = run_lock /\ settle_claim' = settle_claim
      BY <1>2, NothingSurrendered
<1>3. CASE Move \/ \E d \in DocIds : Approve(d) \/ CooldownOver(d)
      BY <1>2, <1>3 DEF Move, Approve, CooldownOver
<1>4. CASE Lapse
  <2>1. \/ run_lock = "dead" /\ settle_claim' = settle_claim
        \/ /\ run_lock' = run_lock
           /\ \E d \in DocIds : /\ settle_claim[d] = "dead"
                               /\ settle_claim' = [settle_claim EXCEPT ![d] = "free"]
        BY <1>4 DEF Lapse
  <2>2. settle_claim \in [DocIds -> Passes \cup {"free", "dead"}]
        BY DEF PassInv, PassTypes, LocksTyped
  <2>3. QED
        BY <1>1, <2>1, <2>2, NothingSurrendered
<1>5. CASE \E q \in Polls : Bills(q)
  <2>1. PICK q \in Polls : Bills(q)
        BY <1>5
  <2>2. CASE Start(q)
    <3>1. run_lock' = q /\ settle_claim' = settle_claim /\ q \in Passes
          BY <2>2 DEF Start, Passes
    <3>2. QED
          BY <1>1, <3>1, NothingSurrendered
  <2>3. CASE ~Start(q)
        BY <1>2, <2>1, <2>3, LocksStay DEF Passes
  <2>4. QED
        BY <2>2, <2>3
<1>6. CASE \E q \in Desks : Call(q)
      BY <1>2, <1>6, LocksStay DEF Passes
<1>7. CASE \E q \in Passes : Claim(q)
  <2>1. PICK q \in Passes : Claim(q)
        BY <1>7
  <2>2. target[q] \in DocIds /\ settle_claim \in [DocIds -> Passes \cup {"free", "dead"}]
        BY <2>1 DEF PassInv, PassTypes, LocksTyped, Targeted, Claim
  <2>3. /\ run_lock' = run_lock
        /\ settle_claim' = settle_claim \/ settle_claim' = [settle_claim EXCEPT ![target[q]] = q]
        BY <2>1 DEF Claim, FailClosed
  <2>4. QED
        BY <1>1, <2>2, <2>3, NothingSurrendered
<1>8. CASE \E q \in Passes : Gate(q) \/ Ask(q) \/ Insert(q) \/ Verify(q) \/ Write(q)
      BY <1>2, <1>8, LocksStay
<1>9. CASE \E q \in Passes : Finish(q) \/ Crash(q)
  <2>1. PICK q \in Passes : Finish(q) \/ Crash(q)
        BY <1>9
  <2>2. CASE q = p
    <3>1. \A d \in DocIds : settle_claim[d] = p => target[p] = d
          BY DEF PassInv, Locked, ClaimHeld
    <3>2. QED
          BY <2>1, <2>2, <3>1, EndStep DEF Surrendered
  <2>3. CASE q # p
        BY <1>1, <2>1, <2>3, EndStep DEF Surrendered
  <2>4. QED
        BY <2>2, <2>3
<1>10. QED
       BY <1>3, <1>4, <1>5, <1>6, <1>7, <1>8, <1>9 DEF PassNext, Settles

\* A lock that a live pass holds is given back by that pass alone, when it ends or dies:
\* a release names its token, so the pass that lost its lock to staleness frees nobody
\* else's.
THEOREM LocksAreOwn == PassSpec => ReleaseIsOwn
<1>1. PassInv /\ [PassNext]_passVars =>
        [\A p \in Passes :
          /\ run_lock = p /\ run_lock' \in {"free", "dead"} => stage[p] # "idle" /\ stage'[p] = "idle"
          /\ \A d \in DocIds :
                settle_claim[d] = p /\ settle_claim'[d] \in {"free", "dead"}
                   => target[p] = d /\ stage[p] # "idle" /\ stage'[p] = "idle"]_passVars
      BY Surrender DEF Surrendered
<1>2. QED
      BY PassInvInit, PassInvNext, <1>1, PTL DEF PassSpec, ReleaseIsOwn

-----------------------------------------------------------------------------
(* The passes over a booking: receipts.                                    *)

\* Where Moloni reconciles what it accepts, a document is reconciled for what was
\* issued on it, and who is about to issue a receipt has seen all of it.
Reconciles == \A d \in DocIds : fatura[d].issued = fatura[d].reconciled
SeenAll    == ~Outlived => \A p \in Passes : stage[p] = "insert" => seen[p] = fatura[target[p]].reconciled

Tallied == Reconciles /\ SeenAll

LEMMA TalliedInit == PassInit => Tallied
BY DEF PassInit, Tallied, Reconciles, SeenAll

\* A step that issues no receipt and brings nobody to issue one.
Untold ==
    /\ \A d \in DocIds : /\ fatura'[d].issued = fatura[d].issued
                         /\ fatura'[d].reconciled = fatura[d].reconciled
    /\ \A q \in Passes : stage'[q] = "insert" =>
          stage[q] = "insert" /\ seen'[q] = seen[q] /\ target'[q] = target[q]
    /\ Outlived => Outlived'

LEMMA UntoldTallies == ASSUME PassInv, Tallied, Untold PROVE Tallied'
<1>1. \A q \in Passes : stage[q] = "insert" => target[q] \in DocIds
      BY DEF PassInv, PassTypes, Targeted, Settling
<1>2. Reconciles'
      BY DEF Tallied, Untold, Reconciles
<1>3. SeenAll'
      BY <1>1 DEF Tallied, Untold, SeenAll
<1>4. QED
      BY <1>2, <1>3 DEF Tallied

LEMMA OneMoves ==
    ASSUME PassInv, NEW p \in Passes, NEW next \in Stages \ {"insert"}, Go(p, next),
           \A q \in Passes \ {p} : seen'[q] = seen[q] /\ target'[q] = target[q],
           \A d \in DocIds : /\ fatura'[d].issued = fatura[d].issued
                             /\ fatura'[d].reconciled = fatura[d].reconciled,
           Fault \/ NoFault \/ Outlive \/ ByHand
    PROVE  Untold
<1>1. stage'[p] = next /\ \A q \in Passes \ {p} : stage'[q] = stage[q]
      BY MovesOn DEF PassInv, PassTypes
<1>2. Outlived => Outlived'
      BY Counted DEF PassInv, PassTypes
<1>3. QED
      BY <1>1, <1>2 DEF Untold

\* The state of a document says nothing of its receipts.
LEMMA StateOnly ==
    ASSUME PassInv, NEW d \in DocIds, NEW st \in {"draft", "closed", "gone"},
           fatura' = [fatura EXCEPT ![d].state = st]
    PROVE  \A e \in DocIds : /\ fatura'[e].issued = fatura[e].issued
                             /\ fatura'[e].reconciled = fatura[e].reconciled
<1>1. fatura[d] \in Faturas /\ fatura \in [DocIds -> Faturas]
      BY DEF PassInv, PassTypes, RecordsTyped
<1>2. /\ fatura'[d] = [fatura[d] EXCEPT !.state = st]
      /\ \A e \in DocIds \ {d} : fatura'[e] = fatura[e]
      BY <1>1
<1>3. fatura'[d].issued = fatura[d].issued /\ fatura'[d].reconciled = fatura[d].reconciled
      BY <1>1, <1>2 DEF Faturas
<1>4. QED
      BY <1>2, <1>3

LEMMA WorldUntold ==
    ASSUME PassInv, Move \/ Lapse \/ \E d \in DocIds : Approve(d) \/ CooldownOver(d)
    PROVE  Untold
<1>1. stage' = stage /\ seen' = seen /\ target' = target
      BY DEF Move, Lapse, Approve, CooldownOver, pass
<1>2. Outlived => Outlived'
      BY Counted DEF PassInv, PassTypes, Move, Lapse, Approve, CooldownOver, Outlived
<1>3. CASE fatura' = fatura
      BY <1>1, <1>2, <1>3 DEF Untold
<1>4. CASE \E d \in DocIds : Approve(d)
  <2>1. PICK d \in DocIds, st \in {"closed", "gone"} : fatura' = [fatura EXCEPT ![d].state = st]
        BY <1>4 DEF Approve
  <2>2. QED
        BY <1>1, <1>2, <2>1, StateOnly DEF Untold
<1>5. QED
      BY <1>3, <1>4 DEF Move, Lapse, CooldownOver

LEMMA BillsUntold == ASSUME PassInv, NEW p \in Polls, Bills(p) PROVE Untold
<1>1. p \in Passes
      BY DEF Passes
<1>2. /\ \E next \in (Billing \cup {"settle", "done"}) : Go(p, next)
      /\ Fault \/ NoFault \/ Outlive \/ ByHand
      BY DEF Bills, Start, List, Bill, Lookup, Create, Save, Undo, Forget, Takeable, NoFault, Billing
<1>3. seen' = seen /\ \A q \in Passes \ {p} : target'[q] = target[q]
  <2>1. seen' = seen
        BY DEF Bills, Start, List, Bill, Lookup, Create, Save, Undo, Forget, locals
  <2>2. \/ target' = target
        \/ \E t \in {0, sale_row, NextDoc} : target' = [target EXCEPT ![p] = t]
        BY DEF Bills, Start, List, Bill, Lookup, Create, Save, Undo, Forget, locals
  <2>3. QED
        BY <1>1, <2>1, <2>2 DEF PassInv, PassTypes, LocalsTyped
<1>4. \/ fatura' = fatura
      \/ /\ \E d \in DocIds : fatura[d].state = "none"
         /\ fatura' = [fatura EXCEPT ![NextDoc].state = "draft"]
      \/ sale_row # 0 /\ fatura' = [fatura EXCEPT ![sale_row].state = "gone"]
      BY DEF Bills, Start, List, Bill, Lookup, Create, Save, Undo, Forget
<1>5. \A e \in DocIds : /\ fatura'[e].issued = fatura[e].issued
                        /\ fatura'[e].reconciled = fatura[e].reconciled
  <2>1. CASE fatura' = fatura
        BY <2>1
  <2>2. CASE /\ \E d \in DocIds : fatura[d].state = "none"
             /\ fatura' = [fatura EXCEPT ![NextDoc].state = "draft"]
    <3>1. NextDoc \in DocIds
          BY <2>2, NextDocIs DEF PassInv
    <3>2. QED
          BY <2>2, <3>1, StateOnly
  <2>3. CASE sale_row # 0 /\ fatura' = [fatura EXCEPT ![sale_row].state = "gone"]
    <3>1. sale_row \in DocIds
          BY <2>3 DEF PassInv, PassTypes, RecordsTyped
    <3>2. QED
          BY <2>3, <3>1, StateOnly
  <2>4. QED
        BY <1>4, <2>1, <2>2, <2>3
<1>6. Billing \cup {"settle", "done"} \subseteq Stages \ {"insert"}
      BY DEF Stages, Billing
<1>7. QED
      BY <1>1, <1>2, <1>3, <1>5, <1>6, OneMoves

LEMMA SettlesUntold ==
    ASSUME PassInv, NEW p \in Passes,
           \/ p \in Desks /\ Call(p)
           \/ Gate(p) \/ Claim(p) \/ Verify(p) \/ Write(p) \/ Finish(p) \/ Crash(p)
    PROVE  Untold
<1>1. /\ \E next \in {"settle", "force", "claim", "done", "ask", "write", "idle"} : Go(p, next)
      /\ Fault \/ NoFault \/ Outlive \/ ByHand
      BY DEF Call, Gate, Claim, FailClosed, Verify, Verdict, Write, Finish, Crash, Takeable, NoFault
<1>2. \A q \in Passes \ {p} : seen'[q] = seen[q] /\ target'[q] = target[q]
  <2>1. LocalsTyped
        BY DEF PassInv, PassTypes
  <2>2. CASE Reset(p)
        BY <2>1, <2>2, ResetAll
  <2>3. CASE Drop(p) /\ target' = target
        BY <2>1, <2>3, Dropped
  <2>4. CASE seen' = seen /\ (target' = target \/ target' = [target EXCEPT ![p] = sale_row])
        BY <2>1, <2>4 DEF LocalsTyped
  <2>5. QED
        BY <2>2, <2>3, <2>4
        DEF Call, Gate, Claim, FailClosed, Verify, Verdict, Write, Finish, Crash, Close, locals
<1>3. \A e \in DocIds : /\ fatura'[e].issued = fatura[e].issued
                        /\ fatura'[e].reconciled = fatura[e].reconciled
  <2>1. CASE fatura' = fatura
        BY <2>1
  <2>2. CASE Verify(p)
    <3>1. /\ target[p] \in DocIds /\ fatura \in [DocIds -> Faturas] /\ fatura[target[p]] \in Faturas
          BY <2>2 DEF PassInv, PassTypes, Targeted, RecordsTyped, Verify, Settling
    <3>2. CASE fatura' # fatura
      <4> DEFINE b == fatura[target[p]].suspect \/ fatura[target[p]].reconciled < seen[p] + Value(p)
      <4>1. fatura' = [fatura EXCEPT ![target[p]].suspect = b]
            BY <2>2, <3>2 DEF Verify
      <4> HIDE DEF b
      <4>2. /\ fatura'[target[p]] = [fatura[target[p]] EXCEPT !.suspect = b]
            /\ \A e \in DocIds \ {target[p]} : fatura'[e] = fatura[e]
            BY <3>1, <4>1
      <4>3. /\ fatura'[target[p]].issued = fatura[target[p]].issued
            /\ fatura'[target[p]].reconciled = fatura[target[p]].reconciled
            BY <3>1, <4>2 DEF Faturas
      <4>4. QED
            BY <4>2, <4>3
    <3>3. QED
          BY <2>1, <3>2
  <2>3. QED
        BY <2>1, <2>2 DEF Call, Gate, Claim, Write, Finish, Crash
<1>4. {"settle", "force", "claim", "done", "ask", "write", "idle"} \subseteq Stages \ {"insert"}
      BY DEF Stages, Settling
<1>5. QED
      BY <1>1, <1>2, <1>3, <1>4, OneMoves

LEMMA AskTallies == ASSUME PassInv, Tallied, NEW p \in Passes, Ask(p) PROVE Tallied'
<1>1. fatura' = fatura /\ target' = target /\ (Fault \/ NoFault) /\ target[p] \in DocIds
      BY DEF Ask, PassInv, PassTypes, Targeted, Settling
<1>2. Outlived => Outlived'
      BY <1>1, Counted DEF PassInv, PassTypes
<1>3. LocalsTyped /\ StageTyped /\ p \in DOMAIN seen
      BY DEF PassInv, PassTypes, LocalsTyped
<1>4. CASE seen' = [seen EXCEPT ![p] = fatura[target[p]].reconciled] /\ Go(p, "insert")
  <2>1. /\ seen'[p] = fatura[target[p]].reconciled
        /\ \A q \in Passes \ {p} : seen'[q] = seen[q] /\ stage'[q] = stage[q]
        BY <1>3, <1>4 DEF Go, StageTyped, LocalsTyped
  <2>2. SeenAll'
        BY <1>1, <1>2, <2>1 DEF Tallied, SeenAll
  <2>3. QED
        BY <1>1, <2>2 DEF Tallied, Reconciles
<1>5. CASE Drop(p) /\ Go(p, "write")
  <2>1. /\ stage'[p] = "write"
        /\ \A q \in Passes \ {p} : seen'[q] = seen[q] /\ stage'[q] = stage[q]
        BY <1>3, <1>5, Dropped DEF Go, StageTyped
  <2>2. SeenAll'
        BY <1>1, <1>2, <2>1 DEF Tallied, SeenAll
  <2>3. QED
        BY <1>1, <2>2 DEF Tallied, Reconciles
<1>6. QED
      BY <1>4, <1>5 DEF Ask, Verdict

\* A receipt is issued by a pass that has seen the others, on the document it works on.
LEMMA InsertTallies ==
    ASSUME PassInv, Tallied, ~Unreconciled, NEW p \in Passes, Insert(p)
    PROVE  /\ Tallied'
           /\ \A d \in DocIds : fatura'[d].issued > fatura[d].issued /\ ~Outlived =>
                 d = target[p] /\ fatura'[d].issued <= item[p].collected
<1> DEFINE t == target[p]
<1>1. /\ stage[p] = "insert" /\ stage[p] \in Settling /\ t \in DocIds /\ target' = target
      /\ (Fault \/ NoFault) /\ LocalsTyped /\ StageTyped /\ RecordsTyped
      BY DEF Insert, PassInv, PassTypes, Targeted, Settling
<1>2. Outlived => Outlived'
      BY <1>1, Counted DEF PassInv, PassTypes
<1>3. /\ fatura[t].issued \in Nat /\ fatura[t].reconciled = fatura[t].issued
      /\ \A d \in DocIds : fatura[d].issued \in Nat
      BY <1>1 DEF RecordsTyped, Faturas, Tallied, Reconciles
<1>4. /\ stage'[p] # "insert" /\ \A q \in Passes \ {p} : stage'[q] = stage[q] /\ seen'[q] = seen[q]
  <2>1. (Go(p, "verify") /\ seen' = seen) \/ (Drop(p) /\ Go(p, "write"))
        BY DEF Insert, Verdict
  <2>2. CASE Go(p, "verify") /\ seen' = seen
        BY <1>1, <2>2 DEF Go, StageTyped
  <2>3. CASE Drop(p) /\ Go(p, "write")
        BY <1>1, <2>3, Dropped DEF Go, StageTyped
  <2>4. QED
        BY <2>1, <2>2, <2>3
<1>5. CASE fatura' = fatura
  <2>1. SeenAll'
        BY <1>1, <1>2, <1>4, <1>5 DEF Tallied, SeenAll
  <2>2. QED
        BY <1>3, <1>5, <2>1 DEF Tallied, Reconciles
<1>6. CASE fatura' # fatura
  <2>1. /\ fatura[t].reconciled + Value(p) <= Total
        /\ fatura' = [fatura EXCEPT ![t].issued = @ + Value(p), ![t].reconciled = @ + Value(p)]
        BY <1>6 DEF Insert
  <2>2. /\ Value(p) \in 0..Total
        /\ fatura'[t].issued = fatura[t].issued + Value(p)
        /\ fatura'[t].reconciled = fatura[t].reconciled + Value(p)
        /\ \A d \in DocIds \ {t} : fatura'[d] = fatura[d]
        BY <1>1, <2>1, Receipted
  <2>3. Reconciles'
        BY <1>3, <2>2 DEF Tallied, Reconciles
  <2>4. ASSUME ~Outlived
        PROVE  \A q \in Passes \ {p} : stage[q] = "insert" => target[q] # t /\ target[q] \in DocIds
        BY <1>1, <2>4 DEF PassInv, PassTypes, Targeted, Locked, SettlesLocked, Settling
  <2>5. SeenAll'
        BY <1>1, <1>2, <1>4, <2>2, <2>4 DEF Tallied, SeenAll
  <2>6. ASSUME ~Outlived, fatura'[t].issued > fatura[t].issued PROVE fatura'[t].issued <= item[p].collected
    <3>1. seen[p] = fatura[t].issued /\ seen[p] \in 0..Total /\ item[p].collected \in 0..Total
          BY <1>1, <1>3, <2>6, Counting DEF Tallied, SeenAll, LocalsTyped
    <3>2. Value(p) > 0
          BY <1>3, <2>2, <2>6
    <3>3. seen[p] + Value(p) <= item[p].collected
          BY <3>1, <3>2, Delta DEF Value
    <3>4. QED
          BY <2>2, <3>1, <3>3
  <2>7. ASSUME NEW d \in DocIds, fatura'[d].issued > fatura[d].issued PROVE d = t
        BY <1>3, <2>2, <2>7
  <2>8. QED
        BY <2>3, <2>5, <2>6, <2>7 DEF Tallied
<1>7. QED
      BY <1>5, <1>6

LEMMA TalliedNext ==
    ASSUME PassInv, Tallied, ~Unreconciled, [PassNext]_passVars
    PROVE  /\ Tallied'
           /\ \A d \in DocIds : fatura'[d].issued > fatura[d].issued /\ ~Outlived =>
                 \E p \in Passes : /\ stage[p] = "insert" /\ target[p] = d
                                   /\ fatura'[d].issued <= item[p].collected
<1>1. \A d \in DocIds : fatura[d].issued \in Nat
      BY DEF PassInv, PassTypes, RecordsTyped, Faturas
<1>2. CASE Untold
  <2>1. \A d \in DocIds : ~(fatura'[d].issued > fatura[d].issued)
        BY <1>1, <1>2 DEF Untold
  <2>2. QED
        BY <1>2, <2>1, UntoldTallies
<1>3. CASE UNCHANGED passVars
      BY <1>2, <1>3 DEF passVars, pass, Untold, Outlived
<1>4. CASE \/ Move \/ Lapse \/ \E d \in DocIds : Approve(d) \/ CooldownOver(d)
      BY <1>2, <1>4, WorldUntold
<1>5. CASE \E p \in Polls : Bills(p)
      BY <1>2, <1>5, BillsUntold
<1>6. CASE \E p \in Desks : Call(p)
      BY <1>2, <1>6, SettlesUntold DEF Passes
<1>7. CASE \E p \in Passes : Gate(p) \/ Claim(p) \/ Verify(p) \/ Write(p) \/ Finish(p) \/ Crash(p)
      BY <1>2, <1>7, SettlesUntold
<1>8. CASE \E p \in Passes : Ask(p)
  <2>1. fatura' = fatura
        BY <1>8 DEF Ask
  <2>2. \A d \in DocIds : ~(fatura'[d].issued > fatura[d].issued)
        BY <1>1, <2>1
  <2>3. QED
        BY <1>8, <2>2, AskTallies
<1>9. CASE \E p \in Passes : Insert(p)
  <2>1. PICK p \in Passes : Insert(p)
        BY <1>9
  <2>2. stage[p] = "insert"
        BY <2>1 DEF Insert
  <2>3. QED
        BY <2>1, <2>2, InsertTallies
<1>10. QED
       BY <1>3, <1>4, <1>5, <1>6, <1>7, <1>8, <1>9 DEF PassNext, Settles

\* No receipt is issued twice: where Moloni reconciles what it accepts, whoever issues
\* one has seen all the receipts of the document covered by money collected, the new one
\* included, for any number of polls and desks, any lost answer and any death in
\* between, until one outlives its claim.
THEOREM ReceiptsAlwaysCovered == ASSUME ~Unreconciled PROVE PassSpec => ReceiptsCovered
<1>1. PassInv /\ Tallied /\ [PassNext]_passVars => PassInv' /\ Tallied'
      BY PassInvNext, TalliedNext
<1>2. PassInv /\ Tallied /\ [PassNext]_passVars =>
        [\A d \in DocIds : fatura'[d].issued > fatura[d].issued /\ ~Outlived =>
          \E p \in Passes : /\ stage[p] = "insert" /\ target[p] = d
                            /\ fatura'[d].issued <= item[p].collected]_passVars
      BY TalliedNext
<1>3. QED
      BY PassInvInit, TalliedInit, <1>1, <1>2, PTL DEF PassSpec, ReceiptsCovered

=============================================================================
