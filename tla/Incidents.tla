------------------------------ MODULE Incidents ------------------------------
(***************************************************************************)
(* The incidents table of one connection: what tells people that a sale is *)
(* not invoiced, or a refund not credited.                                 *)
(*                                                                         *)
(* reportIncident adds a failure to the row of its time bucket.  A row is  *)
(* closed by the half-hourly pass that finds, in the records of the sales  *)
(* it lists, that they are settled; by the silence clock, when it lists    *)
(* nothing that can be looked up; by the check that finds a connection     *)
(* configured again; by the weekly digest; or by an administrator.  All of *)
(* them read first and write later, while failures keep arriving.          *)
(*                                                                         *)
(* Severity, wording and the emails are left out.                          *)
(***************************************************************************)
EXTENDS Integers, FiniteSets

CONSTANTS
    Affected,      \* sales whose failures are reported
    Readers,       \* evidence passes that may overlap
    BucketLength,  \* what one bucket spans
    SilenceAfter,  \* the silence that closes a row, in the same unit: 24 hours
    LastTime,      \* bound on time
    MaxReports,    \* bound on the failures reported
    MaxOutside,    \* bound on digests, administrators' clicks and passes that fail
    SecondRefundRaces  \* a refund of a sale fails again while a pass holds its row

ASSUME IncidentConstants ==
    /\ IsFiniteSet(Affected)
    /\ {BucketLength, SilenceAfter, LastTime} \subseteq Nat \ {0}
    /\ BucketLength <= SilenceAfter /\ BucketLength <= LastTime
    /\ {MaxReports, MaxOutside} \subseteq Nat
    /\ SecondRefundRaces \in BOOLEAN

VARIABLES
    time,
    certifies,  \* the connection certifies its documents
    paper,      \* each sale's document
    credit,     \* the credit note of the latest refund of each sale that got past the gate
    alarm,      \* the row of each bucket
    reading,    \* each pass: the rows it has to judge, the one it closes
    digest,     \* rows the weekly digest is about to close
    told,       \* failures reported, until someone closes their row unread
    reports, outside

papers == <<paper, credit>>
bounds == <<reports, outside>>
incidentVars == <<time, certifies, papers, alarm, reading, digest, told, bounds>>

Families == {"sale", "refund", "standing"}
Failings == {"sale", "refund", "gated"}  \* "gated": a refund the subscription gate refused
Buckets  == (0..LastTime \div BucketLength) \X Families

NoAlarm == [status |-> "none", topic |-> "none", ids |-> {}, seen |-> 0, credited |-> {}]
Resting == [rows |-> {}, closing |-> {}]

IncidentInit ==
    /\ time \in 0..BucketLength - 1
    /\ certifies \in BOOLEAN
    /\ paper = [o \in Affected |-> "none"] /\ credit = [o \in Affected |-> "none"]
    /\ alarm = [b \in Buckets |-> NoAlarm]
    /\ reading = [x \in Readers |-> Resting] /\ digest = {}
    /\ told = {} /\ reports = 0 /\ outside = 0

Live(b)   == alarm[b].status \in {"open", "acknowledged"}
Resolved(bs) ==
    [b \in Buckets |-> IF b \in bs /\ Live(b) THEN [alarm[b] EXCEPT !.status = "resolved"]
                       ELSE alarm[b]]

\* The callers give refunds a family of their own, except the subscription gate, which
\* reports a refund under its sale, with neither dedup_key nor topic.
FiledAs(f) == IF f = "gated" THEN "sale" ELSE f

\* A failure is listed in a row: of its family, under its sale.
ListedIn(t, b) == b[2] = FiledAs(t[1]) /\ t[2] \in alarm[b].ids

\* The failures listed in the rows bs are no longer theirs to keep.
LetGo(bs) == {t \in told : \A b \in bs : ~ListedIn(t, b)}

Outside == outside < MaxOutside /\ outside' = outside + 1

-----------------------------------------------------------------------------
(* What happens to the sales.                                              *)

Tick ==
    /\ time < LastTime /\ time' = time + 1
    /\ UNCHANGED <<certifies, papers, alarm, reading, digest, told, bounds>>

\* The row is saved when the document is made; a document held back waits for approval.
Document(o) ==
    /\ \/ paper[o] = "none" /\ \E p \in {"draft", "held"} : paper' = [paper EXCEPT ![o] = p]
       \/ paper[o] \in {"draft", "held"} /\ paper' = [paper EXCEPT ![o] = "certified"]
    /\ UNCHANGED <<time, certifies, credit, alarm, reading, digest, told, bounds>>

\* Only a certified document is credited.
BeginCredit(o) ==
    /\ paper[o] = "certified"
    /\ credit[o] = "none" /\ credit' = [credit EXCEPT ![o] = "issuing"]
    /\ UNCHANGED <<time, certifies, paper, alarm, reading, digest, told, bounds>>

\* Issued now, so after whatever was reported before.
IssueCredit(o) ==
    /\ credit[o] = "issuing" /\ credit' = [credit EXCEPT ![o] = "issued"]
    /\ alarm' = [b \in Buckets |-> IF alarm[b].status = "none" THEN NoAlarm
                                   ELSE [alarm[b] EXCEPT !.credited = @ \cup {o}]]
    /\ reading' = [x \in Readers |->
           [reading[x] EXCEPT !.rows = {[r EXCEPT !.credited = @ \cup {o}] : r \in @}]]
    /\ UNCHANGED <<time, certifies, paper, digest, told, bounds>>

-----------------------------------------------------------------------------
(* reportIncident.                                                         *)

\* bucketKeyFor.
BucketOf(f) == <<time \div BucketLength, FiledAs(f)>>

\* The upsert.  Only a resolved row is opened again.
Reported(b, f, os) ==
    [alarm EXCEPT ![b] =
        [status   |-> IF @.status \in {"none", "resolved"} THEN "open" ELSE @.status,
         topic    |-> f,
         ids      |-> @.ids \cup os,
         seen     |-> IF os = {} THEN time ELSE 0,
         credited |-> {}]]

Held(b, o) == \E x \in Readers : \E r \in reading[x].rows \cup reading[x].closing :
                  r.bucket = b /\ o \in r.ids

ReportFailure(f, o) ==
    /\ reports < MaxReports /\ reports' = reports + 1
    /\ f = "refund" /\ Held(BucketOf(f), o) => SecondRefundRaces
    /\ alarm' = Reported(BucketOf(f), FiledAs(f), {o})
    /\ told' = told \cup {<<f, o>>}
    /\ credit' = IF f = "refund" /\ credit[o] = "issued" THEN [credit EXCEPT ![o] = "none"] ELSE credit
    /\ UNCHANGED <<time, certifies, paper, reading, digest, outside>>

\* Something no record of a sale can settle, such as a missing credential.
ReportStanding ==
    /\ reports < MaxReports /\ reports' = reports + 1
    /\ alarm' = Reported(BucketOf("standing"), "standing", {})
    /\ UNCHANGED <<time, certifies, papers, reading, digest, told, outside>>

-----------------------------------------------------------------------------
(* The evidence pass.                                                      *)

\* Faulty: a sale someone has acknowledged is no longer looked at.
OnlyOpen(b) == alarm[b].status = "open" /\ alarm[b].topic # "standing"

Judged(b) == Live(b) /\ alarm[b].topic # "standing"

ReadRows(x) ==
    /\ reading[x] = Resting
    /\ reading' = [reading EXCEPT ![x].rows =
           {[bucket |-> b, topic |-> alarm[b].topic, ids |-> alarm[b].ids,
             credited |-> alarm[b].credited] : b \in {c \in Buckets : Judged(c)}}]
    /\ UNCHANGED <<time, certifies, papers, alarm, digest, told, bounds>>

Invoiced(o) == paper[o] \in {"draft", "certified"}
Final(o)    == paper[o] = "certified" \/ (paper[o] = "draft" /\ ~certifies)

\* incidentVerdict, on the evidence of loadSaleEvidence.
IncidentVerdict(r) ==
    \A o \in r.ids : /\ Invoiced(o)
                     /\ IF r.topic = "refund" THEN o \in r.credited /\ credit[o] # "issuing"
                                              ELSE Final(o)

ReadEvidence(x) ==
    /\ reading[x].closing = {}
    /\ \E r \in reading[x].rows :
           reading' = [reading EXCEPT ![x] = [rows    |-> @.rows \ {r},
                                              closing |-> IF IncidentVerdict(r) THEN {r} ELSE {}]]
    /\ UNCHANGED <<time, certifies, papers, alarm, digest, told, bounds>>

\* Faulty: the row is closed by its id alone.
SameRow(r) == TRUE

\* The UPDATE compares the list it judged.
SameList(r) == alarm[r.bucket].ids = r.ids

CloseOnEvidence(x) ==
    /\ \E r \in reading[x].closing : alarm' = IF SameList(r) THEN Resolved({r.bucket}) ELSE alarm
    /\ reading' = [reading EXCEPT ![x].closing = {}]
    /\ UNCHANGED <<time, certifies, papers, digest, told, bounds>>

\* One row cannot be read or written, or the invocation ends.
Stop(x) ==
    /\ reading[x] # Resting
    /\ Outside
    /\ \/ reading' = [reading EXCEPT ![x] = Resting]
       \/ reading[x].closing # {} /\ reading' = [reading EXCEPT ![x].closing = {}]
       \/ \E r \in reading[x].rows : reading' = [reading EXCEPT ![x].rows = @ \ {r}]
    /\ UNCHANGED <<time, certifies, papers, alarm, digest, told, reports>>

-----------------------------------------------------------------------------
(* The other ways a row is closed.                                         *)

\* Faulty: a row is closed once the next hour passes without a recurrence.
QuietSinceLastHour(b) == alarm[b].seen < time

Quiet(b) == alarm[b].seen < time - SilenceAfter

\* autoResolveStaleIncidents.
FallSilent(b) ==
    /\ alarm[b].status = "open" /\ alarm[b].topic = "standing" /\ Quiet(b)
    /\ alarm' = [alarm EXCEPT ![b].status = "auto_resolved"]
    /\ UNCHANGED <<time, certifies, papers, reading, digest, told, bounds>>

\* closeUnconfiguredIncident.
Configured ==
    /\ alarm' = Resolved({b \in Buckets : alarm[b].topic = "standing"})
    /\ UNCHANGED <<time, certifies, papers, reading, digest, told, bounds>>

\* The weekly digest closes what has a row for every sale, whatever the list is by then.
DigestRead ==
    /\ digest = {} /\ Outside
    /\ digest' = {b \in Buckets : /\ Live(b) /\ alarm[b].topic = "sale" /\ alarm[b].ids # {}
                                  /\ \A o \in alarm[b].ids : paper[o] # "none"}
    /\ UNCHANGED <<time, certifies, papers, alarm, reading, told, reports>>

DigestClose ==
    /\ digest # {} /\ digest' = {}
    /\ alarm' = Resolved(digest)
    /\ told' = LetGo({b \in digest : Live(b)})
    /\ UNCHANGED <<time, certifies, papers, reading, bounds>>

\* An administrator acknowledges a row or calls it resolved.
Patch(b) ==
    /\ alarm[b].status # "none" /\ Outside
    /\ \/ alarm' = [alarm EXCEPT ![b].status = "acknowledged"] /\ UNCHANGED told
       \/ alarm' = [alarm EXCEPT ![b].status = "resolved"] /\ told' = LetGo({b})
    /\ UNCHANGED <<time, certifies, papers, reading, digest, reports>>

Evidence(x) == ReadRows(x) \/ ReadEvidence(x) \/ CloseOnEvidence(x)

FailureNext ==
    \/ \E o \in Affected : \/ Document(o) \/ BeginCredit(o) \/ IssueCredit(o)
                        \/ \E f \in Failings : ReportFailure(f, o)
    \/ \E x \in Readers : Evidence(x) \/ Stop(x)
    \/ DigestRead \/ DigestClose

StandingNext == ReportStanding \/ Configured \/ \E b \in Buckets : FallSilent(b)

IncidentNext == Tick \/ FailureNext \/ StandingNext \/ \E b \in Buckets : Patch(b)

IncidentSpec == IncidentInit /\ [][IncidentNext]_incidentVars

-----------------------------------------------------------------------------
(* Properties.                                                             *)

\* The types, and: a row lists sales only in its own topic's bucket, is credited for
\* sales only, and a pass closes one row at a time.
IncidentTypeOK ==
    /\ time \in 0..LastTime /\ certifies \in BOOLEAN
    /\ paper \in [Affected -> {"none", "draft", "held", "certified"}]
    /\ credit \in [Affected -> {"none", "issuing", "issued"}]
    /\ alarm \in [Buckets ->
           [status : {"none", "open", "acknowledged", "resolved", "auto_resolved"},
            topic : Families \cup {"none"}, ids : SUBSET Affected, seen : 0..LastTime,
            credited : SUBSET Affected]]
    /\ \A b \in Buckets : alarm[b] # NoAlarm => alarm[b].topic = b[2]
    /\ reading \in [Readers -> [rows : SUBSET [bucket : Buckets, topic : Families,
                                               ids : SUBSET Affected, credited : SUBSET Affected],
                                closing : SUBSET [bucket : Buckets, topic : Families,
                                               ids : SUBSET Affected, credited : SUBSET Affected]]]
    /\ \A x \in Readers : Cardinality(reading[x].closing) <= 1
    /\ digest \subseteq Buckets
    /\ told \subseteq Failings \X Affected
    /\ reports \in 0..MaxReports /\ outside \in 0..MaxOutside

\* A refund is repaired by its credit note.  One the subscription gate refused is the
\* exception: it is filed as its sale, so the sale's certified document settles it.
Repaired(t) == IF t[1] = "refund" THEN credit[t[2]] = "issued" ELSE Final(t[2])

\* A failure that was reported and is not repaired is listed in a row that is still open or
\* acknowledged (resolveIncidentsOnEvidence, incidentVerdict): no pass closes a bucket over a
\* sale added to it while it read; a refund that got past the subscription gate is not
\* settled by the invoice of its sale, nor a sale by a draft.  Of a refund the gate refused
\* only that is asked which is asked of its sale (Repaired).  Rows closed by hand or by the
\* weekly digest are excused.
UnrepairedIsListed ==
    \A t \in told : Repaired(t) \/ \E b \in Buckets : Live(b) /\ ListedIn(t, b)

\* The bucket that still takes reports is never one that silence closed, for a report does
\* not open such a row again (autoResolveStaleIncidents, the upsert of reportIncident).
SilenceOutlastsBucket ==
    \A b \in Buckets : alarm[b].status = "auto_resolved" => b[1] < time \div BucketLength

OverAndDone(b) ==
    /\ Live(b) /\ alarm[b].ids # {}
    /\ alarm[b].topic = "sale" \/ Cardinality(alarm[b].ids) = 1
    /\ \A o \in alarm[b].ids : Invoiced(o) /\ Repaired(<<alarm[b].topic, o>>)

IncidentFairness == \A x \in Readers : WF_incidentVars(Evidence(x))

\* A row whose failures are all repaired is closed in the end, acknowledged ones too
\* (resolveIncidentsOnEvidence, on the half-hourly cron), unless one fails again.
RepairedCloses == \A b \in {c \in Buckets : c[2] # "standing"} : OverAndDone(b) ~> ~OverAndDone(b)
=============================================================================
