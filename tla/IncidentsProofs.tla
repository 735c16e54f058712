--------------------------- MODULE IncidentsProofs ---------------------------
(***************************************************************************)
(* Incidents: the types, that silence never closes a bucket which may      *)
(* still be added to, and that no pass closes a row over a failure that is *)
(* not repaired, for every set of sales and of passes, and every bound.    *)
(***************************************************************************)
EXTENDS Incidents, FiniteSetTheorems, TLAPS

Statuses == {"none", "open", "acknowledged", "resolved", "auto_resolved"}
AlarmRow == [status : Statuses, topic : Families \cup {"none"}, ids : SUBSET Affected,
             seen : 0..LastTime, credited : SUBSET Affected]
Snapshot == [bucket : Buckets, topic : Families, ids : SUBSET Affected, credited : SUBSET Affected]

\* IncidentTypeOK without the size of a pass's closing set, which is Closes below.
Types ==
    /\ time \in 0..LastTime /\ certifies \in BOOLEAN
    /\ paper \in [Affected -> {"none", "draft", "held", "certified"}]
    /\ credit \in [Affected -> {"none", "issuing", "issued"}]
    /\ alarm \in [Buckets -> AlarmRow]
    /\ \A b \in Buckets : alarm[b] # NoAlarm => alarm[b].topic = b[2]
    /\ reading \in [Readers -> [rows : SUBSET Snapshot, closing : SUBSET Snapshot]]
    /\ digest \subseteq Buckets
    /\ told \subseteq Failings \X Affected
    /\ reports \in 0..MaxReports /\ outside \in 0..MaxOutside

\* A pass closes one row at a time.
Closes == \A x \in Readers : reading[x].closing = {} \/ \E r \in Snapshot : reading[x].closing = {r}

-----------------------------------------------------------------------------
(* Time and buckets.                                                       *)

LEMMA DivisionBounds ==
    ASSUME NEW s \in Nat, NEW n \in Nat, n > 0
    PROVE  s \div n \in Nat /\ n * (s \div n) <= s /\ s < n * (s \div n) + n
BY SMTT(20)

\* A time a whole bucket later is in a later bucket, and an earlier one in none that is later.
LEMMA BucketOrder ==
    ASSUME NEW n \in Nat, n > 0, NEW s \in Nat, NEW t \in Nat
    PROVE  /\ s + n <= t => s \div n < t \div n
           /\ s <= t => s \div n <= t \div n
<1> DEFINE p == s \div n  q == t \div n
<1>1. p \in Nat /\ q \in Nat /\ n * p <= s /\ s < n * p + n /\ n * q <= t /\ t < n * q + n
  BY DivisionBounds
<1> HIDE DEF p, q
<1>2. ASSUME NEW a \in Nat, NEW b \in Nat, n * a < n * b PROVE a < b
  <2> SUFFICES ASSUME a >= b PROVE FALSE
    OBVIOUS
  <2>1. PICK d \in Nat : a = b + d
    <3>1. a - b \in Nat /\ a = b + (a - b)
      OBVIOUS
    <3> QED
      BY <3>1
  <2>2. n * a = n * b + n * d /\ n * d >= 0
    BY <2>1
  <2> QED
    BY <1>2, <2>2
<1>3. ASSUME s + n <= t PROVE p < q
  <2>1. n * p < n * q
    <3>1. n * p + n < n * q + n
      BY <1>1, <1>3
    <3> QED
      BY <1>1, <3>1
  <2> QED
    BY <1>1, <1>2, <2>1
<1>4. ASSUME s <= t PROVE p <= q
  <2>1. n * (q + 1) = n * q + n
    BY <1>1
  <2>2. n * p < n * (q + 1)
    BY <1>1, <1>4, <2>1
  <2>3. p < q + 1
    BY <1>1, <1>2, <2>2
  <2> QED
    BY <1>1, <2>3
<1> QED
  BY <1>3, <1>4 DEF p, q

\* What a failure is filed as.
LEMMA Filing ==
    ASSUME NEW f \in Failings
    PROVE  /\ FiledAs(f) \in {"sale", "refund"} /\ FiledAs(f) \in Families
           /\ f = "refund" <=> FiledAs(f) = "refund"
           /\ BucketOf(f) = BucketOf(FiledAs(f))
BY DEF Failings, Families, FiledAs, BucketOf

LEMMA BucketNow ==
    ASSUME Types, NEW f \in Families
    PROVE  BucketOf(f) \in Buckets /\ BucketOf(f) = <<time \div BucketLength, f>>
<1>1. BucketLength \in Nat /\ BucketLength > 0 /\ LastTime \in Nat /\ time \in Nat /\ time <= LastTime
  BY IncidentConstants DEF Types
<1>2. /\ time \div BucketLength \in Nat /\ LastTime \div BucketLength \in Nat
      /\ time \div BucketLength <= LastTime \div BucketLength
  BY <1>1, BucketOrder, DivisionBounds
<1> QED
  BY <1>2 DEF BucketOf, Buckets, FiledAs, Families

-----------------------------------------------------------------------------
(* Types.                                                                  *)

LEMMA RowTypes ==
    ASSUME NEW r \in AlarmRow
    PROVE  /\ \A u \in Statuses : /\ [r EXCEPT !.status = u] \in AlarmRow
                                  /\ [r EXCEPT !.status = u].topic = r.topic
           /\ \A o \in Affected : /\ [r EXCEPT !.credited = @ \cup {o}] \in AlarmRow
                                  /\ [r EXCEPT !.credited = @ \cup {o}].topic = r.topic
           /\ r.status # "none" => r # NoAlarm
BY DEF AlarmRow, NoAlarm

LEMMA ResolvedTypes ==
    ASSUME Types, NEW bs
    PROVE  /\ Resolved(bs) \in [Buckets -> AlarmRow]
           /\ \A b \in Buckets : Resolved(bs)[b] # NoAlarm => Resolved(bs)[b].topic = b[2]
<1>1. ASSUME NEW b \in Buckets PROVE [alarm[b] EXCEPT !.status = "resolved"] \in AlarmRow
  BY RowTypes DEF Types, Statuses
<1>2. ASSUME NEW b \in Buckets, Live(b)
      PROVE  alarm[b].topic = b[2] /\ [alarm[b] EXCEPT !.status = "resolved"].topic = alarm[b].topic
  BY <1>2 DEF Types, AlarmRow, Live, NoAlarm
<1> QED
  BY <1>1, <1>2 DEF Resolved, Types

LEMMA ReportedTypes ==
    ASSUME Types, NEW f \in Families, NEW os \in SUBSET Affected
    PROVE  LET b == BucketOf(f)  new == Reported(b, f, os) IN
           /\ new \in [Buckets -> AlarmRow]
           /\ new = [alarm EXCEPT ![b] = [status |-> IF alarm[b].status \in {"none", "resolved"} THEN "open" ELSE alarm[b].status,
                       topic |-> f, ids |-> alarm[b].ids \cup os,
                       seen |-> IF os = {} THEN time ELSE 0, credited |-> {}]]
           /\ \A c \in Buckets : new[c] # NoAlarm => new[c].topic = c[2]
<1> DEFINE b == BucketOf(f)
           row == [status |-> IF alarm[b].status \in {"none", "resolved"} THEN "open" ELSE alarm[b].status,
                   topic |-> f, ids |-> alarm[b].ids \cup os,
                   seen |-> IF os = {} THEN time ELSE 0, credited |-> {}]
<1>1. b \in Buckets /\ b[2] = f
  BY BucketNow
<1>2. row \in AlarmRow
  BY <1>1, IncidentConstants DEF Types, AlarmRow, Statuses
<1>3. Reported(b, f, os) = [alarm EXCEPT ![b] = row]
  BY <1>1 DEF Reported, Types
<1> QED
  BY <1>1, <1>2, <1>3 DEF Types

LEMMA TypesInit == IncidentInit => Types /\ Closes
<1> SUFFICES ASSUME IncidentInit PROVE Types /\ Closes
  OBVIOUS
<1>1. time \in 0..LastTime
  BY IncidentConstants DEF IncidentInit
<1>2. NoAlarm \in AlarmRow
  BY IncidentConstants DEF NoAlarm, AlarmRow, Statuses
<1>3. Resting \in [rows : SUBSET Snapshot, closing : SUBSET Snapshot]
  BY DEF Resting
<1> QED
  BY <1>1, <1>2, <1>3, IncidentConstants DEF IncidentInit, Types, Closes, Resting

LEMMA TypesNext == Types /\ Closes /\ [IncidentNext]_incidentVars => Types' /\ Closes'
<1> SUFFICES ASSUME Types, Closes, [IncidentNext]_incidentVars PROVE Types' /\ Closes'
  OBVIOUS
<1> USE IncidentConstants DEF Types, Closes
<1>1. ASSUME Tick PROVE Types' /\ Closes'
  BY <1>1 DEF Tick, papers, bounds
<1>2. ASSUME NEW o \in Affected, Document(o) PROVE Types' /\ Closes'
  BY <1>2 DEF Document, bounds
<1>3. ASSUME NEW o \in Affected, BeginCredit(o) PROVE Types' /\ Closes'
  BY <1>3 DEF BeginCredit, bounds
<1>4. ASSUME NEW o \in Affected, IssueCredit(o) PROVE Types' /\ Closes'
  <2>1. alarm' \in [Buckets -> AlarmRow] /\ \A b \in Buckets : alarm'[b] # NoAlarm => alarm'[b].topic = b[2]
    <3>1. ASSUME NEW b \in Buckets, alarm[b].status # "none"
          PROVE  /\ [alarm[b] EXCEPT !.credited = @ \cup {o}] \in AlarmRow
                 /\ [alarm[b] EXCEPT !.credited = @ \cup {o}].topic = b[2]
      <4>1. alarm[b] \in AlarmRow
        OBVIOUS
      <4>2. alarm[b].topic = b[2]
        BY <3>1, <4>1, RowTypes
      <4> QED
        BY <4>1, <4>2, RowTypes
    <3>2. NoAlarm \in AlarmRow
      BY DEF NoAlarm, AlarmRow, Statuses
    <3> QED
      BY <1>4, <3>1, <3>2 DEF IssueCredit
  <2>2. reading' \in [Readers -> [rows : SUBSET Snapshot, closing : SUBSET Snapshot]]
        /\ \A x \in Readers : reading'[x].closing = reading[x].closing
    <3>1. ASSUME NEW r \in Snapshot PROVE [r EXCEPT !.credited = @ \cup {o}] \in Snapshot
      BY DEF Snapshot
    <3>2. ASSUME NEW x \in Readers
          PROVE  /\ [reading[x] EXCEPT !.rows = {[r EXCEPT !.credited = @ \cup {o}] : r \in @}]
                       \in [rows : SUBSET Snapshot, closing : SUBSET Snapshot]
                 /\ [reading[x] EXCEPT !.rows = {[r EXCEPT !.credited = @ \cup {o}] : r \in @}].closing = reading[x].closing
      BY <3>1
    <3> QED
      BY <1>4, <3>2 DEF IssueCredit
  <2>3. /\ credit' = [credit EXCEPT ![o] = "issued"]
        /\ UNCHANGED <<time, certifies, paper, digest, told, reports, outside>>
    BY <1>4 DEF IssueCredit, bounds
  <2>4. Types'
    BY <2>1, <2>2, <2>3
  <2>5. Closes'
    BY <2>2
  <2> QED
    BY <2>4, <2>5
<1>5. ASSUME NEW f \in Failings, NEW o \in Affected, ReportFailure(f, o) PROVE Types' /\ Closes'
  <2> DEFINE g == FiledAs(f)
  <2>1. /\ g \in Families /\ {o} \in SUBSET Affected
        /\ alarm' = Reported(BucketOf(g), g, {o})
    BY <1>5, Filing DEF ReportFailure
  <2>2. told' \subseteq Failings \X Affected /\ reports' \in 0..MaxReports
    BY <1>5 DEF ReportFailure
  <2>3. credit' \in [Affected -> {"none", "issuing", "issued"}]
    BY <1>5 DEF ReportFailure
  <2>4. UNCHANGED <<time, certifies, paper, reading, digest, outside>>
    BY <1>5 DEF ReportFailure
  <2> HIDE DEF g
  <2>5. /\ alarm' \in [Buckets -> AlarmRow]
        /\ \A b \in Buckets : alarm'[b] # NoAlarm => alarm'[b].topic = b[2]
    BY <2>1, ReportedTypes
  <2> QED
    BY <2>2, <2>3, <2>4, <2>5
<1>6. ASSUME ReportStanding PROVE Types' /\ Closes'
  <2>1. "standing" \in Families /\ {} \in SUBSET Affected
    BY DEF Families
  <2> QED
    BY <1>6, <2>1, ReportedTypes DEF ReportStanding, papers
<1>7. ASSUME NEW x \in Readers, ReadRows(x) PROVE Types' /\ Closes'
  <2>1. ASSUME NEW b \in Buckets, Judged(b)
        PROVE  [bucket |-> b, topic |-> alarm[b].topic, ids |-> alarm[b].ids, credited |-> alarm[b].credited] \in Snapshot
    <3>1. alarm[b] # NoAlarm /\ alarm[b] \in AlarmRow /\ b[2] \in Families
      BY <2>1 DEF Judged, Live, NoAlarm, Buckets
    <3> QED
      BY <3>1 DEF Snapshot, AlarmRow
  <2> QED
    BY <1>7, <2>1 DEF ReadRows, papers, bounds
<1>8. ASSUME NEW x \in Readers, ReadEvidence(x) PROVE Types' /\ Closes'
  <2>1. PICK r \in reading[x].rows :
           reading' = [reading EXCEPT ![x] = [rows |-> reading[x].rows \ {r},
                                              closing |-> IF IncidentVerdict(r) THEN {r} ELSE {}]]
    BY <1>8 DEF ReadEvidence
  <2>2. r \in Snapshot
    BY <2>1
  <2> QED
    BY <1>8, <2>1, <2>2 DEF ReadEvidence, papers, bounds
<1>9. ASSUME NEW x \in Readers, CloseOnEvidence(x) PROVE Types' /\ Closes'
  <2>1. /\ alarm' \in [Buckets -> AlarmRow]
        /\ \A b \in Buckets : alarm'[b] # NoAlarm => alarm'[b].topic = b[2]
    BY <1>9, ResolvedTypes DEF CloseOnEvidence
  <2> QED
    <3>1. /\ reading' = [reading EXCEPT ![x] = [reading[x] EXCEPT !.closing = {}]]
          /\ UNCHANGED <<time, certifies, papers, digest, told, bounds>>
      BY <1>9 DEF CloseOnEvidence
    <3>2. [reading[x] EXCEPT !.closing = {}] \in [rows : SUBSET Snapshot, closing : SUBSET Snapshot]
      OBVIOUS
    <3>3. reading' \in [Readers -> [rows : SUBSET Snapshot, closing : SUBSET Snapshot]]
      BY <3>1, <3>2
    <3>4. Closes'
      BY <3>1
    <3> QED
      BY <2>1, <3>1, <3>3, <3>4 DEF papers, bounds
<1>10. ASSUME NEW x \in Readers, Stop(x) PROVE Types' /\ Closes'
  <2>1. Resting \in [rows : SUBSET Snapshot, closing : SUBSET Snapshot] /\ Resting.closing = {}
    BY DEF Resting
  <2> QED
    BY <1>10, <2>1 DEF Stop, Outside, papers, bounds
<1>11. ASSUME NEW b \in Buckets, FallSilent(b) PROVE Types' /\ Closes'
  <2>1. [alarm[b] EXCEPT !.status = "auto_resolved"] \in AlarmRow
    BY RowTypes DEF Statuses
  <2>2. alarm[b].topic = b[2] /\ [alarm[b] EXCEPT !.status = "auto_resolved"].topic = alarm[b].topic
    BY <1>11, RowTypes DEF FallSilent, Statuses
  <2> QED
    BY <1>11, <2>1, <2>2 DEF FallSilent, papers, bounds
<1>12. ASSUME Configured PROVE Types' /\ Closes'
  BY <1>12, ResolvedTypes DEF Configured, papers, bounds
<1>13. ASSUME DigestRead PROVE Types' /\ Closes'
  BY <1>13 DEF DigestRead, Outside, papers
<1>14. ASSUME DigestClose PROVE Types' /\ Closes'
  BY <1>14, ResolvedTypes DEF DigestClose, LetGo, papers, bounds
<1>15. ASSUME NEW b \in Buckets, Patch(b) PROVE Types' /\ Closes'
  <2>1. \A u \in {"acknowledged", "resolved"} : /\ [alarm[b] EXCEPT !.status = u] \in AlarmRow
                                                /\ [alarm[b] EXCEPT !.status = u].topic = alarm[b].topic
    BY RowTypes DEF Statuses
  <2>2. alarm[b].topic = b[2]
    BY <1>15, RowTypes DEF Patch
  <2>3. /\ alarm' \in [Buckets -> AlarmRow]
        /\ \A c \in Buckets : alarm'[c] # NoAlarm => alarm'[c].topic = c[2]
    BY <1>15, <2>1, <2>2 DEF Patch
  <2> QED
    BY <1>15, <2>3 DEF Patch, LetGo, Outside, papers
<1>16. ASSUME UNCHANGED incidentVars PROVE Types' /\ Closes'
  BY <1>16 DEF incidentVars, papers, bounds
<1> QED
  BY <1>1, <1>2, <1>3, <1>4, <1>5, <1>6, <1>7, <1>8, <1>9, <1>10, <1>11, <1>12, <1>13, <1>14, <1>15, <1>16
     DEF IncidentNext, FailureNext, StandingNext, Evidence

\* Every variable of the incidents keeps to its type, a row to its own topic's bucket, and a
\* pass closes one row at a time (incidents.ts).
THEOREM IncidentTypes == IncidentSpec => []IncidentTypeOK
<1>1. Types /\ Closes => IncidentTypeOK
  <2> SUFFICES ASSUME Types, Closes PROVE IncidentTypeOK
    OBVIOUS
  <2>1. \A x \in Readers : Cardinality(reading[x].closing) <= 1
    <3>1. Cardinality({}) = 0
      BY FS_EmptySet
    <3>2. \A r \in Snapshot : Cardinality({r}) = 1
      BY FS_Singleton
    <3> QED
      BY <3>1, <3>2 DEF Closes
  <2> QED
    BY <2>1 DEF Types, IncidentTypeOK, AlarmRow, Statuses, Snapshot
<1> QED
  BY <1>1, TypesInit, TypesNext, PTL DEF IncidentSpec

-----------------------------------------------------------------------------
(* What silence closes.                                                    *)

\* Only an alarm that stands falls silent, and when it was seen last is in its bucket.
OnlyStanding == \A b \in Buckets : alarm[b].status = "auto_resolved" => b[2] = "standing"
SeenInBucket ==
    \A b \in Buckets : b[2] = "standing" /\ alarm[b].status # "none" =>
        b[1] = alarm[b].seen \div BucketLength

SilenceInv == OnlyStanding /\ SeenInBucket /\ SilenceOutlastsBucket

\* The rows after one of them, or several, are called resolved.
LEMMA ResolvedRows ==
    ASSUME Types, NEW bs, NEW b \in Buckets
    PROVE  /\ Resolved(bs)[b].status = (IF b \in bs /\ Live(b) THEN "resolved" ELSE alarm[b].status)
           /\ Resolved(bs)[b].seen = alarm[b].seen
           /\ Resolved(bs)[b].ids = alarm[b].ids
           /\ Resolved(bs)[b].credited = alarm[b].credited
<1>1. alarm[b] \in AlarmRow
  BY DEF Types
<1> QED
  BY <1>1 DEF Resolved, AlarmRow

LEMMA SilenceResolved ==
    ASSUME Types, SilenceInv, NEW bs, alarm' = Resolved(bs), time' = time
    PROVE  SilenceInv'
BY ResolvedRows DEF SilenceInv, OnlyStanding, SeenInBucket, SilenceOutlastsBucket, Live

LEMMA SilenceReported ==
    ASSUME Types, SilenceInv, NEW f \in Families, NEW os \in SUBSET Affected,
           f = "standing" <=> os = {}, alarm' = Reported(BucketOf(f), f, os), time' = time
    PROVE  SilenceInv'
<1> DEFINE b == BucketOf(f)
<1>1. b \in Buckets /\ b[1] = time \div BucketLength /\ b[2] = f
  BY BucketNow
<1>2. /\ alarm'[b].status = IF alarm[b].status \in {"none", "resolved"} THEN "open" ELSE alarm[b].status
      /\ alarm'[b].seen = IF os = {} THEN time ELSE 0
      /\ \A c \in Buckets \ {b} : alarm'[c] = alarm[c]
  BY <1>1, ReportedTypes DEF Types
<1> HIDE DEF b
<1> QED
  BY <1>1, <1>2 DEF SilenceInv, OnlyStanding, SeenInBucket, SilenceOutlastsBucket

LEMMA SilenceNext == Types /\ SilenceInv /\ [IncidentNext]_incidentVars => SilenceInv'
<1> SUFFICES ASSUME Types, SilenceInv, [IncidentNext]_incidentVars PROVE SilenceInv'
  OBVIOUS
<1>1. ASSUME UNCHANGED <<time, alarm>> PROVE SilenceInv'
  BY <1>1 DEF SilenceInv, OnlyStanding, SeenInBucket, SilenceOutlastsBucket
<1>2. ASSUME Tick PROVE SilenceInv'
  <2>1. time \in Nat /\ time' = time + 1 /\ alarm' = alarm
    BY <1>2 DEF Tick, Types
  <2>2. BucketLength \in Nat /\ BucketLength > 0
    BY IncidentConstants
  <2>3. time \div BucketLength <= time' \div BucketLength
    BY <2>1, <2>2, BucketOrder
  <2>4. time \div BucketLength \in Nat /\ time' \div BucketLength \in Nat
    BY <2>1, <2>2, DivisionBounds
  <2>5. \A b \in Buckets : b[1] \in Int
    BY DEF Buckets
  <2> QED
    BY <2>1, <2>3, <2>4, <2>5 DEF SilenceInv, OnlyStanding, SeenInBucket, SilenceOutlastsBucket
<1>3. ASSUME NEW o \in Affected, IssueCredit(o) PROVE SilenceInv'
  <2>1. \A b \in Buckets : /\ alarm'[b].status = alarm[b].status
                           /\ alarm[b].status # "none" => alarm'[b].seen = alarm[b].seen
    BY <1>3 DEF IssueCredit, Types, AlarmRow, NoAlarm
  <2>2. time' = time
    BY <1>3 DEF IssueCredit
  <2>3. OnlyStanding'
    BY <2>1 DEF SilenceInv, OnlyStanding
  <2>4. SeenInBucket'
    BY <2>1 DEF SilenceInv, SeenInBucket
  <2>5. SilenceOutlastsBucket'
    BY <2>1, <2>2 DEF SilenceInv, SilenceOutlastsBucket
  <2> QED
    BY <2>3, <2>4, <2>5 DEF SilenceInv
<1>4. ASSUME NEW f \in Failings, NEW o \in Affected, ReportFailure(f, o) PROVE SilenceInv'
  <2> DEFINE g == FiledAs(f)
  <2>1. /\ g \in Families /\ {o} \in SUBSET Affected /\ {o} # {} /\ g # "standing"
        /\ alarm' = Reported(BucketOf(g), g, {o}) /\ time' = time
    BY <1>4, Filing DEF ReportFailure
  <2> HIDE DEF g
  <2> QED
    BY <2>1, SilenceReported
<1>5. ASSUME ReportStanding PROVE SilenceInv'
  <2>1. "standing" \in Families /\ {} \in SUBSET Affected
    BY DEF Families
  <2> QED
    BY <1>5, <2>1, SilenceReported DEF ReportStanding
<1>6. ASSUME NEW x \in Readers, CloseOnEvidence(x) PROVE SilenceInv'
  <2>1. UNCHANGED <<time, alarm>> \/ (time' = time /\ \E bs : alarm' = Resolved(bs))
    BY <1>6 DEF CloseOnEvidence
  <2> QED
    BY <1>1, <2>1, SilenceResolved
<1>7. ASSUME NEW b \in Buckets, FallSilent(b) PROVE SilenceInv'
  <2>1. /\ alarm' = [alarm EXCEPT ![b].status = "auto_resolved"] /\ time' = time
        /\ alarm[b].status = "open" /\ alarm[b].topic = "standing" /\ alarm[b].seen < time - SilenceAfter
    BY <1>7 DEF FallSilent, Quiet
  <2>2. b[2] = "standing" /\ alarm[b].seen \in Nat /\ alarm[b] \in AlarmRow
    BY <2>1, IncidentConstants DEF Types, NoAlarm, AlarmRow
  <2>3. b[1] < time \div BucketLength
    <3>1. /\ BucketLength \in Nat /\ BucketLength > 0 /\ time \in Nat
          /\ alarm[b].seen + BucketLength <= time
      BY <2>1, <2>2, IncidentConstants DEF Types
    <3>2. b[1] = alarm[b].seen \div BucketLength
      BY <2>1, <2>2 DEF SilenceInv, SeenInBucket
    <3> QED
      BY <2>2, <3>1, <3>2, BucketOrder
  <2>4. /\ alarm'[b].status = "auto_resolved" /\ alarm'[b].seen = alarm[b].seen
        /\ \A c \in Buckets \ {b} : alarm'[c] = alarm[c]
    BY <2>1, <2>2 DEF Types, AlarmRow
  <2> QED
    BY <2>1, <2>2, <2>3, <2>4 DEF SilenceInv, OnlyStanding, SeenInBucket, SilenceOutlastsBucket
<1>8. ASSUME Configured \/ DigestClose PROVE SilenceInv'
  BY <1>8, SilenceResolved DEF Configured, DigestClose
<1>9. ASSUME NEW b \in Buckets, Patch(b) PROVE SilenceInv'
  <2>1. PICK u \in {"acknowledged", "resolved"} :
           alarm' = [alarm EXCEPT ![b].status = u] /\ time' = time /\ alarm[b].status # "none"
    BY <1>9 DEF Patch
  <2>2. /\ alarm'[b].status = u /\ alarm'[b].seen = alarm[b].seen
        /\ \A c \in Buckets \ {b} : alarm'[c] = alarm[c]
    BY <2>1 DEF Types, AlarmRow
  <2> QED
    BY <2>1, <2>2 DEF SilenceInv, OnlyStanding, SeenInBucket, SilenceOutlastsBucket
<1>10. ASSUME NEW x \in Readers, ReadRows(x) \/ ReadEvidence(x) \/ Stop(x) PROVE SilenceInv'
  BY <1>1, <1>10 DEF ReadRows, ReadEvidence, Stop
<1>11. ASSUME NEW o \in Affected, Document(o) \/ BeginCredit(o) PROVE SilenceInv'
  BY <1>1, <1>11 DEF Document, BeginCredit
<1>12. ASSUME DigestRead \/ UNCHANGED incidentVars PROVE SilenceInv'
  BY <1>1, <1>12 DEF DigestRead, incidentVars
<1> QED
  BY <1>2, <1>3, <1>4, <1>5, <1>6, <1>7, <1>8, <1>9, <1>10, <1>11, <1>12
     DEF IncidentNext, FailureNext, StandingNext, Evidence

LEMMA SilenceInit == IncidentInit => SilenceInv
BY DEF IncidentInit, SilenceInv, OnlyStanding, SeenInBucket, SilenceOutlastsBucket, NoAlarm

\* Silence closes no bucket that may still be added to, whatever buckets, silences and times
\* are chosen, as long as a bucket is no longer than the silence (autoResolveStaleIncidents).
THEOREM SilenceAlwaysOutlastsBucket == IncidentSpec => []SilenceOutlastsBucket
<1>1. SilenceInv => SilenceOutlastsBucket
  BY DEF SilenceInv
<1> QED
  BY <1>1, TypesInit, TypesNext, SilenceInit, SilenceNext, PTL DEF IncidentSpec

-----------------------------------------------------------------------------
(* What a pass closes.                                                     *)

\* Every failure that is not repaired is listed in a live row of its topic; a refund, in one
\* that does not take it for credited.
Listed ==
    \A t \in told : ~Repaired(t) =>
        \E b \in Buckets : /\ Live(b) /\ b[2] = FiledAs(t[1]) /\ t[2] \in alarm[b].ids
                           /\ t[1] = "refund" => t[2] \notin alarm[b].credited

\* A row that a pass has read has only grown since, and while it has not, what the pass takes
\* for credited still is.
Grown(r) ==
    /\ alarm[r.bucket].status # "none" /\ r.topic = r.bucket[2] /\ r.topic # "standing"
    /\ r.ids \subseteq alarm[r.bucket].ids
    /\ r.topic = "refund" /\ r.ids = alarm[r.bucket].ids
          => r.ids \cap r.credited \subseteq alarm[r.bucket].credited

Snapshots == \A x \in Readers : \A r \in reading[x].rows \cup reading[x].closing : Grown(r)

\* What is about to be closed was found repaired.
Settled(r) == \A o \in r.ids : IF r.topic = "refund" THEN o \in r.credited ELSE Final(o)
Verdicts == \A x \in Readers : \A r \in reading[x].closing : Settled(r)

ListInv == Listed /\ Snapshots /\ Verdicts /\ OnlyStanding

LEMMA ListInit == IncidentInit => ListInv
BY DEF IncidentInit, ListInv, Listed, Snapshots, Verdicts, OnlyStanding, Resting, NoAlarm

\* Rows called resolved, none of which lists a failure that is not repaired and stays told.
LEMMA ListResolved ==
    ASSUME Types, ListInv, NEW bs, alarm' = Resolved(bs), told' \subseteq told,
           UNCHANGED <<paper, credit, certifies>>,
           \A t \in told' : ~Repaired(t) => \E b \in Buckets \ bs :
               /\ Live(b) /\ b[2] = FiledAs(t[1]) /\ t[2] \in alarm[b].ids
               /\ t[1] = "refund" => t[2] \notin alarm[b].credited
    PROVE  /\ Listed' /\ OnlyStanding'
           /\ \A r \in Snapshot : Grown(r) => Grown(r)'
<1>1. Listed'
  <2> SUFFICES ASSUME NEW t \in told', ~Repaired(t)
               PROVE  \E b \in Buckets : /\ Live(b)' /\ b[2] = FiledAs(t[1]) /\ t[2] \in alarm'[b].ids
                                         /\ t[1] = "refund" => t[2] \notin alarm'[b].credited
    BY DEF Listed, Repaired, Final
  <2>1. PICK b \in Buckets \ bs : /\ Live(b) /\ b[2] = FiledAs(t[1]) /\ t[2] \in alarm[b].ids
                                  /\ t[1] = "refund" => t[2] \notin alarm[b].credited
    OBVIOUS
  <2> QED
    BY <2>1, ResolvedRows DEF Live
<1>2. OnlyStanding'
  BY ResolvedRows DEF ListInv, OnlyStanding
<1>3. ASSUME NEW r \in Snapshot, Grown(r) PROVE Grown(r)'
  <2>1. r.bucket \in Buckets
    BY DEF Snapshot
  <2> QED
    BY <1>3, <2>1, ResolvedRows DEF Grown
<1> QED
  BY <1>1, <1>2, <1>3

LEMMA SnapshotTypes ==
    ASSUME Types, NEW x \in Readers
    PROVE  \A r \in reading[x].rows \cup reading[x].closing :
               r \in Snapshot /\ r.bucket \in Buckets /\ r.ids \subseteq Affected
BY DEF Types, Snapshot

\* A report.
LEMMA ListReported ==
    ASSUME ~SecondRefundRaces, Types, ListInv,
           NEW f \in Failings, NEW o \in Affected, ReportFailure(f, o)
    PROVE  ListInv'
<1>1. FiledAs(f) \in Families /\ {o} \in SUBSET Affected
  BY Filing
<1>2. PICK b \in Buckets : b = BucketOf(FiledAs(f)) /\ b = BucketOf(f) /\ b[2] = FiledAs(f)
  BY <1>1, Filing, BucketNow
<1>3. /\ alarm'[b].status = IF alarm[b].status \in {"none", "resolved"} THEN "open" ELSE alarm[b].status
      /\ alarm'[b].ids = alarm[b].ids \cup {o}
      /\ alarm'[b].credited = {}
      /\ \A c \in Buckets \ {b} : alarm'[c] = alarm[c]
  <2> DEFINE g == FiledAs(f)
  <2>1. alarm' = Reported(BucketOf(g), g, {o}) /\ g \in Families /\ b = BucketOf(g)
    BY <1>1, <1>2 DEF ReportFailure
  <2> HIDE DEF g
  <2>2. alarm' = [alarm EXCEPT ![b] = [status |-> IF alarm[b].status \in {"none", "resolved"} THEN "open" ELSE alarm[b].status,
                     topic |-> g, ids |-> alarm[b].ids \cup {o},
                     seen |-> IF {o} = {} THEN time ELSE 0, credited |-> {}]]
    BY <1>1, <2>1, ReportedTypes
  <2> QED
    BY <2>2 DEF Types
<1>4. /\ told' = told \cup {<<f, o>>} /\ UNCHANGED <<certifies, paper, reading>>
      /\ f = "refund" => ~Held(b, o)
      /\ credit' = IF f = "refund" /\ credit[o] = "issued" THEN [credit EXCEPT ![o] = "none"] ELSE credit
  BY <1>2 DEF ReportFailure
<1>5. Live(b)'
  <2>1. alarm[b].status \in Statuses /\ alarm[b].status # "auto_resolved"
    <3>1. b[2] # "standing"
      BY <1>2, Filing
    <3>2. alarm[b] \in AlarmRow
      BY DEF Types
    <3> QED
      BY <3>1, <3>2 DEF ListInv, OnlyStanding, AlarmRow
  <2> QED
    BY <1>3, <2>1 DEF Live, Statuses
<1>6. Listed'
  <2> SUFFICES ASSUME NEW t \in told', ~Repaired(t)'
               PROVE  \E c \in Buckets : /\ Live(c)' /\ c[2] = FiledAs(t[1]) /\ t[2] \in alarm'[c].ids
                                         /\ t[1] = "refund" => t[2] \notin alarm'[c].credited
    BY DEF Listed
  <2>1. CASE t = <<f, o>>
    BY <1>2, <1>3, <1>5, <2>1
  <2>2. CASE t # <<f, o>>
    <3>1. t \in told /\ t[1] \in Failings /\ t[2] \in Affected /\ t = <<t[1], t[2]>>
      BY <1>4, <2>2 DEF Types
    <3>2. ~Repaired(t)
      BY <1>4, <2>2, <3>1 DEF Repaired, Final, Types
    <3>3. PICK c \in Buckets : /\ Live(c) /\ c[2] = FiledAs(t[1]) /\ t[2] \in alarm[c].ids
                               /\ t[1] = "refund" => t[2] \notin alarm[c].credited
      BY <3>1, <3>2 DEF ListInv, Listed
    <3> QED
      BY <1>3, <1>5, <3>3 DEF Live
  <2> QED
    BY <2>1, <2>2
<1>7. Snapshots'
  <2> SUFFICES ASSUME NEW x \in Readers, NEW r \in reading[x].rows \cup reading[x].closing
               PROVE  Grown(r)'
    BY <1>4 DEF Snapshots
  <2>1. Grown(r) /\ r.bucket \in Buckets
    BY SnapshotTypes DEF ListInv, Snapshots
  <2>2. CASE r.bucket # b
    BY <1>3, <2>1, <2>2 DEF Grown
  <2>3. CASE r.bucket = b /\ o \in r.ids
    <3>1. f = "refund" => FALSE
      BY <1>4, <2>3 DEF Held
    <3>2. r.topic = "sale"
      BY <1>2, <2>1, <2>3, <3>1, Filing DEF Grown
    <3> QED
      BY <1>3, <2>1, <2>3, <3>2 DEF Grown
  <2>4. CASE r.bucket = b /\ o \notin r.ids
    BY <1>3, <1>5, <2>1, <2>4 DEF Grown, Live
  <2> QED
    BY <2>2, <2>3, <2>4
<1>8. Verdicts'
  BY <1>4 DEF ListInv, Verdicts, Settled, Final
<1>9. OnlyStanding'
  BY <1>3, <1>5 DEF ListInv, OnlyStanding, Live
<1> QED
  BY <1>6, <1>7, <1>8, <1>9 DEF ListInv

\* A closed row and what is no longer told of it.
LEMMA ListLetGo ==
    ASSUME Types, ListInv, NEW bs \in SUBSET Buckets, NEW t \in LetGo(bs), ~Repaired(t)
    PROVE  \E b \in Buckets \ bs : /\ Live(b) /\ b[2] = FiledAs(t[1]) /\ t[2] \in alarm[b].ids
                                   /\ t[1] = "refund" => t[2] \notin alarm[b].credited
<1>1. t \in told /\ \A b \in bs : ~(b[2] = FiledAs(t[1]) /\ t[2] \in alarm[b].ids)
  BY DEF LetGo, ListedIn
<1>2. PICK b \in Buckets : /\ Live(b) /\ b[2] = FiledAs(t[1]) /\ t[2] \in alarm[b].ids
                           /\ t[1] = "refund" => t[2] \notin alarm[b].credited
  BY <1>1 DEF ListInv, Listed
<1> QED
  BY <1>1, <1>2

\* The row a pass closes lists nothing that is not repaired, or not there alone.
LEMMA ListClosed ==
    ASSUME Types, ListInv, NEW x \in Readers, NEW r \in reading[x].closing, SameList(r),
           NEW t \in told, ~Repaired(t)
    PROVE  \E b \in Buckets \ {r.bucket} : /\ Live(b) /\ b[2] = FiledAs(t[1]) /\ t[2] \in alarm[b].ids
                                           /\ t[1] = "refund" => t[2] \notin alarm[b].credited
<1>1. PICK b \in Buckets : /\ Live(b) /\ b[2] = FiledAs(t[1]) /\ t[2] \in alarm[b].ids
                           /\ t[1] = "refund" => t[2] \notin alarm[b].credited
  BY DEF ListInv, Listed
<1>2. Grown(r) /\ Settled(r) /\ r.ids = alarm[r.bucket].ids
  BY DEF ListInv, Snapshots, Verdicts, SameList
<1>3. b # r.bucket
  <2> SUFFICES ASSUME b = r.bucket PROVE FALSE
    OBVIOUS
  <2>1. t[2] \in r.ids /\ r.topic = FiledAs(t[1]) /\ (t[1] = "refund" <=> r.topic = "refund")
    BY <1>1, <1>2, Filing DEF Grown, Types
  <2>2. CASE t[1] = "refund"
    BY <1>1, <1>2, <2>1, <2>2 DEF Grown, Settled
  <2>3. CASE t[1] # "refund"
    BY <1>2, <2>1, <2>3 DEF Settled, Repaired
  <2> QED
    BY <2>2, <2>3
<1> QED
  BY <1>1, <1>3

LEMMA ListNext == ~SecondRefundRaces /\ Types /\ ListInv /\ [IncidentNext]_incidentVars => ListInv'
<1> SUFFICES ASSUME ~SecondRefundRaces, Types, ListInv, [IncidentNext]_incidentVars PROVE ListInv'
  OBVIOUS
<1>1. ASSUME UNCHANGED <<certifies, paper, credit, alarm, reading, told>> PROVE ListInv'
  BY <1>1 DEF ListInv, Listed, Snapshots, Verdicts, OnlyStanding, Grown, Settled, Live, Repaired, Final
<1>2. ASSUME NEW o \in Affected, Document(o) PROVE ListInv'
  <2>1. /\ UNCHANGED <<certifies, credit, alarm, reading, told>>
        /\ \A a \in Affected : Final(a) => Final(a)'
    BY <1>2 DEF Document, Final, Types
  <2>2. Listed'
    BY <2>1 DEF ListInv, Listed, Repaired, Live, Types
  <2>3. Verdicts'
    <3> SUFFICES ASSUME NEW x \in Readers, NEW r \in reading[x].closing PROVE Settled(r)'
      BY <2>1 DEF Verdicts
    <3> QED
      BY <2>1, SnapshotTypes DEF ListInv, Verdicts, Settled
  <2> QED
    BY <2>1, <2>2, <2>3 DEF ListInv, Snapshots, OnlyStanding, Grown
<1>3. ASSUME NEW o \in Affected, BeginCredit(o) PROVE ListInv'
  <2>1. /\ UNCHANGED <<certifies, paper, alarm, reading, told>>
        /\ credit[o] = "none" /\ credit' = [credit EXCEPT ![o] = "issuing"]
    BY <1>3 DEF BeginCredit
  <2>2. Listed'
    BY <2>1 DEF ListInv, Listed, Repaired, Live, Final, Types
  <2> QED
    BY <2>1, <2>2 DEF ListInv, Snapshots, Verdicts, OnlyStanding, Grown, Settled, Final
<1>4. ASSUME NEW o \in Affected, IssueCredit(o) PROVE ListInv'
  <2>1. /\ UNCHANGED <<certifies, paper, told>> /\ credit' = [credit EXCEPT ![o] = "issued"]
    BY <1>4 DEF IssueCredit
  <2>2. \A b \in Buckets : /\ alarm'[b].status = alarm[b].status
                           /\ alarm[b].status # "none" => /\ alarm'[b].ids = alarm[b].ids
                                                          /\ alarm'[b].credited = alarm[b].credited \cup {o}
    BY <1>4 DEF IssueCredit, Types, AlarmRow, NoAlarm
  <2>3. ASSUME NEW x \in Readers
        PROVE  /\ reading'[x].closing = reading[x].closing
               /\ reading'[x].rows = {[r EXCEPT !.credited = @ \cup {o}] : r \in reading[x].rows}
    BY <1>4 DEF IssueCredit, Types
  <2>4. Listed'
    <3> SUFFICES ASSUME NEW t \in told, ~Repaired(t)'
                 PROVE  \E b \in Buckets : /\ Live(b)' /\ b[2] = FiledAs(t[1]) /\ t[2] \in alarm'[b].ids
                                           /\ t[1] = "refund" => t[2] \notin alarm'[b].credited
      BY <2>1 DEF Listed
    <3>1. ~Repaired(t) /\ (t[1] = "refund" => t[2] # o)
      BY <2>1 DEF Repaired, Final, Types
    <3>2. PICK b \in Buckets : /\ Live(b) /\ b[2] = FiledAs(t[1]) /\ t[2] \in alarm[b].ids
                               /\ t[1] = "refund" => t[2] \notin alarm[b].credited
      BY <3>1 DEF ListInv, Listed
    <3> QED
      BY <2>2, <3>1, <3>2 DEF Live
  <2>5. ASSUME NEW r \in Snapshot, Grown(r) PROVE Grown(r)' /\ Grown([r EXCEPT !.credited = @ \cup {o}])'
    <3>1. LET g == [r EXCEPT !.credited = @ \cup {o}] IN
             /\ g.bucket = r.bucket /\ g.topic = r.topic /\ g.ids = r.ids /\ g.credited = r.credited \cup {o}
      BY DEF Snapshot
    <3>2. r.bucket \in Buckets
      BY DEF Snapshot
    <3> QED
      BY <2>2, <2>5, <3>1, <3>2 DEF Grown
  <2>6. Snapshots'
    <3> SUFFICES ASSUME NEW x \in Readers, NEW g \in reading'[x].rows \cup reading'[x].closing PROVE Grown(g)'
      BY DEF Snapshots
    <3>1. CASE g \in reading'[x].closing
      BY <2>3, <2>5, <3>1, SnapshotTypes DEF ListInv, Snapshots
    <3>2. CASE g \in reading'[x].rows
      <4>1. PICK r \in reading[x].rows : g = [r EXCEPT !.credited = @ \cup {o}]
        BY <2>3, <3>2
      <4>2. r \in Snapshot /\ Grown(r)
        BY SnapshotTypes DEF ListInv, Snapshots
      <4> QED
        BY <2>5, <4>1, <4>2
    <3> QED
      BY <3>1, <3>2
  <2>7. Verdicts'
    BY <2>1, <2>3 DEF ListInv, Verdicts, Settled, Final
  <2>8. OnlyStanding'
    BY <2>2 DEF ListInv, OnlyStanding
  <2> QED
    BY <2>4, <2>6, <2>7, <2>8 DEF ListInv
<1>5. ASSUME ReportStanding PROVE ListInv'
  <2>1. "standing" \in Families /\ {} \in SUBSET Affected
    BY DEF Families
  <2>2. PICK b \in Buckets : b = BucketOf("standing") /\ b[2] = "standing"
    BY <2>1, BucketNow
  <2>3. /\ alarm[b].status = "auto_resolved" => alarm'[b].status = "auto_resolved"
        /\ \A c \in Buckets \ {b} : alarm'[c] = alarm[c]
    BY <1>5, <2>1, <2>2, ReportedTypes DEF ReportStanding, Types
  <2>4. UNCHANGED <<certifies, paper, credit, reading, told>>
    BY <1>5 DEF ReportStanding, papers
  <2>5. Listed'
    <3> SUFFICES ASSUME NEW t \in told, ~Repaired(t)
                 PROVE  \E c \in Buckets : /\ Live(c)' /\ c[2] = FiledAs(t[1]) /\ t[2] \in alarm'[c].ids
                                           /\ t[1] = "refund" => t[2] \notin alarm'[c].credited
      BY <2>4 DEF Listed, Repaired, Final
    <3>1. PICK c \in Buckets : /\ Live(c) /\ c[2] = FiledAs(t[1]) /\ t[2] \in alarm[c].ids
                               /\ t[1] = "refund" => t[2] \notin alarm[c].credited
      BY DEF ListInv, Listed
    <3>2. c # b
      BY <2>2, <3>1, Filing DEF Types
    <3> QED
      BY <2>3, <3>1, <3>2 DEF Live
  <2>6. Snapshots'
    <3> SUFFICES ASSUME NEW x \in Readers, NEW r \in reading[x].rows \cup reading[x].closing PROVE Grown(r)'
      BY <2>4 DEF Snapshots
    <3>1. Grown(r) /\ r.bucket \in Buckets
      BY SnapshotTypes DEF ListInv, Snapshots
    <3>2. r.bucket # b
      BY <2>2, <3>1 DEF Grown
    <3> QED
      BY <2>3, <3>1, <3>2 DEF Grown
  <2>7. Verdicts'
    BY <2>4 DEF ListInv, Verdicts, Settled, Final
  <2>8. OnlyStanding'
    BY <2>2, <2>3 DEF ListInv, OnlyStanding
  <2> QED
    BY <2>5, <2>6, <2>7, <2>8 DEF ListInv
<1>6. ASSUME NEW x \in Readers, ReadRows(x) PROVE ListInv'
  <2>1. UNCHANGED <<certifies, paper, credit, alarm, told>>
    BY <1>6 DEF ReadRows, papers
  <2>2. ASSUME NEW b \in Buckets, Judged(b)
        PROVE  Grown([bucket |-> b, topic |-> alarm[b].topic, ids |-> alarm[b].ids, credited |-> alarm[b].credited])
    <3>1. alarm[b].topic = b[2] /\ alarm[b].status # "none"
      BY <2>2 DEF Judged, Live, Types, NoAlarm
    <3> QED
      BY <2>2, <3>1 DEF Grown, Judged
  <2>3. /\ \A y \in Readers \ {x} : reading'[y] = reading[y]
        /\ reading'[x].closing = {}
        /\ \A r \in reading'[x].rows : Grown(r)
    BY <1>6, <2>2 DEF ReadRows, Types, Resting
  <2>4. Snapshots' /\ Verdicts'
    BY <2>1, <2>3 DEF ListInv, Snapshots, Verdicts, Grown, Settled, Final
  <2> QED
    BY <2>1, <2>4 DEF ListInv, Listed, OnlyStanding, Live, Repaired, Final
<1>7. ASSUME NEW x \in Readers, ReadEvidence(x) PROVE ListInv'
  <2>1. UNCHANGED <<certifies, paper, credit, alarm, told>>
    BY <1>7 DEF ReadEvidence, papers
  <2>2. PICK r \in reading[x].rows :
           reading' = [reading EXCEPT ![x] = [rows |-> reading[x].rows \ {r},
                                              closing |-> IF IncidentVerdict(r) THEN {r} ELSE {}]]
    BY <1>7 DEF ReadEvidence
  <2>3. Grown(r) /\ (IncidentVerdict(r) => Settled(r))
    BY DEF ListInv, Snapshots, IncidentVerdict, Settled
  <2>4. /\ \A y \in Readers \ {x} : reading'[y] = reading[y]
        /\ reading'[x].rows \subseteq reading[x].rows
        /\ \A g \in reading'[x].closing : Grown(g) /\ Settled(g)
    BY <2>2, <2>3 DEF Types
  <2>5. Snapshots' /\ Verdicts'
    BY <2>1, <2>4 DEF ListInv, Snapshots, Verdicts, Grown, Settled, Final
  <2> QED
    BY <2>1, <2>5 DEF ListInv, Listed, OnlyStanding, Live, Repaired, Final
<1>8. ASSUME NEW x \in Readers, CloseOnEvidence(x) PROVE ListInv'
  <2>1. UNCHANGED <<certifies, paper, credit, told>> /\ reading' = [reading EXCEPT ![x].closing = {}]
    BY <1>8 DEF CloseOnEvidence, papers
  <2>2. /\ \A y \in Readers : /\ reading'[y].rows = reading[y].rows
                              /\ reading'[y].closing \subseteq reading[y].closing
    BY <2>1 DEF Types
  <2>3. PICK r \in reading[x].closing : alarm' = IF SameList(r) THEN Resolved({r.bucket}) ELSE alarm
    BY <1>8 DEF CloseOnEvidence
  <2>4. /\ Listed' /\ OnlyStanding'
        /\ \A g \in Snapshot : Grown(g) => Grown(g)'
    <3>1. CASE ~SameList(r)
      BY <2>1, <2>3, <3>1 DEF ListInv, Listed, OnlyStanding, Live, Repaired, Final, Grown
    <3>2. CASE SameList(r)
      BY <2>1, <2>3, <3>2, ListResolved, ListClosed
    <3> QED
      BY <3>1, <3>2
  <2>5. Snapshots'
    BY <2>2, <2>4, SnapshotTypes DEF ListInv, Snapshots
  <2>6. Verdicts'
    BY <2>1, <2>2 DEF ListInv, Verdicts, Settled, Final
  <2> QED
    BY <2>4, <2>5, <2>6 DEF ListInv
<1>9. ASSUME NEW x \in Readers, Stop(x) PROVE ListInv'
  <2>1. UNCHANGED <<certifies, paper, credit, alarm, told>>
    BY <1>9 DEF Stop, papers
  <2>2. /\ \A y \in Readers : /\ reading'[y].rows \subseteq reading[y].rows
                              /\ reading'[y].closing \subseteq reading[y].closing
    BY <1>9 DEF Stop, Types, Resting
  <2>3. Snapshots' /\ Verdicts'
    BY <2>1, <2>2 DEF ListInv, Snapshots, Verdicts, Grown, Settled, Final
  <2> QED
    BY <2>1, <2>3 DEF ListInv, Listed, OnlyStanding, Live, Repaired, Final
<1>10. ASSUME NEW b \in Buckets, FallSilent(b) PROVE ListInv'
  <2>1. /\ alarm' = [alarm EXCEPT ![b].status = "auto_resolved"]
        /\ UNCHANGED <<certifies, paper, credit, reading, told>>
        /\ alarm[b].status = "open" /\ alarm[b].topic = "standing"
    BY <1>10 DEF FallSilent, papers
  <2>2. b[2] = "standing"
    BY <2>1 DEF Types, NoAlarm
  <2>3. /\ alarm'[b].status = "auto_resolved" /\ alarm'[b].ids = alarm[b].ids /\ alarm'[b].credited = alarm[b].credited
        /\ \A c \in Buckets \ {b} : alarm'[c] = alarm[c]
    BY <2>1 DEF Types, AlarmRow
  <2>4. Listed'
    <3> SUFFICES ASSUME NEW t \in told, ~Repaired(t)
                 PROVE  \E c \in Buckets : /\ Live(c)' /\ c[2] = FiledAs(t[1]) /\ t[2] \in alarm'[c].ids
                                           /\ t[1] = "refund" => t[2] \notin alarm'[c].credited
      BY <2>1 DEF Listed, Repaired, Final
    <3>1. PICK c \in Buckets : /\ Live(c) /\ c[2] = FiledAs(t[1]) /\ t[2] \in alarm[c].ids
                               /\ t[1] = "refund" => t[2] \notin alarm[c].credited
      BY DEF ListInv, Listed
    <3>2. c # b
      BY <2>2, <3>1, Filing DEF Types
    <3> QED
      BY <2>3, <3>1, <3>2 DEF Live
  <2>5. Snapshots'
    <3> SUFFICES ASSUME NEW x \in Readers, NEW r \in reading[x].rows \cup reading[x].closing PROVE Grown(r)'
      BY <2>1 DEF Snapshots
    <3>1. Grown(r) /\ r.bucket \in Buckets
      BY SnapshotTypes DEF ListInv, Snapshots
    <3> QED
      BY <2>3, <3>1 DEF Grown
  <2>6. Verdicts' /\ OnlyStanding'
    BY <2>1, <2>2, <2>3 DEF ListInv, Verdicts, Settled, Final, OnlyStanding
  <2> QED
    BY <2>4, <2>5, <2>6 DEF ListInv
<1>11. ASSUME NEW bs, alarm' = Resolved(bs), told' \subseteq told, UNCHANGED <<certifies, paper, credit, reading>>,
              \A t \in told' : ~Repaired(t) => \E b \in Buckets \ bs :
                  /\ Live(b) /\ b[2] = FiledAs(t[1]) /\ t[2] \in alarm[b].ids
                  /\ t[1] = "refund" => t[2] \notin alarm[b].credited
       PROVE  ListInv'
  <2>1. /\ Listed' /\ OnlyStanding'
        /\ \A g \in Snapshot : Grown(g) => Grown(g)'
    BY <1>11, ListResolved
  <2>2. Snapshots'
    BY <1>11, <2>1, SnapshotTypes DEF ListInv, Snapshots
  <2>3. Verdicts'
    BY <1>11 DEF ListInv, Verdicts, Settled, Final
  <2> QED
    BY <2>1, <2>2, <2>3 DEF ListInv
<1>12. ASSUME Configured PROVE ListInv'
  <2> DEFINE bs == {b \in Buckets : alarm[b].topic = "standing"}
  <2>1. ASSUME NEW t \in told, ~Repaired(t)
        PROVE  \E b \in Buckets \ bs : /\ Live(b) /\ b[2] = FiledAs(t[1]) /\ t[2] \in alarm[b].ids
                                       /\ t[1] = "refund" => t[2] \notin alarm[b].credited
    <3>1. PICK c \in Buckets : /\ Live(c) /\ c[2] = FiledAs(t[1]) /\ t[2] \in alarm[c].ids
                               /\ t[1] = "refund" => t[2] \notin alarm[c].credited
      BY <2>1 DEF ListInv, Listed
    <3>2. alarm[c].topic # "standing"
      BY <2>1, <3>1, Filing DEF Types, Live, NoAlarm
    <3> QED
      BY <3>1, <3>2
  <2>2. alarm' = Resolved(bs) /\ UNCHANGED <<certifies, paper, credit, reading, told>>
    BY <1>12 DEF Configured, papers
  <2> QED
    BY <1>11, <2>1, <2>2
<1>13. ASSUME DigestClose PROVE ListInv'
  <2> DEFINE bs == {b \in digest : Live(b)}
  <2>1. bs \in SUBSET Buckets
    BY DEF Types
  <2>2. /\ alarm' = Resolved(bs) /\ told' = LetGo(bs)
        /\ UNCHANGED <<certifies, paper, credit, reading>>
    BY <1>13 DEF DigestClose, Resolved, papers
  <2>3. told' \subseteq told
    BY <2>2 DEF LetGo
  <2> HIDE DEF bs
  <2> QED
    BY <1>11, <2>1, <2>2, <2>3, ListLetGo
<1>14. ASSUME NEW b \in Buckets, Patch(b) PROVE ListInv'
  <2>1. PICK u \in {"acknowledged", "resolved"} :
           /\ alarm' = [alarm EXCEPT ![b].status = u]
           /\ told' = IF u = "resolved" THEN LetGo({b}) ELSE told
           /\ alarm[b].status # "none" /\ UNCHANGED <<certifies, paper, credit, reading>>
    BY <1>14 DEF Patch, papers
  <2>2. /\ alarm'[b].status = u /\ alarm'[b].ids = alarm[b].ids /\ alarm'[b].credited = alarm[b].credited
        /\ \A c \in Buckets \ {b} : alarm'[c] = alarm[c]
    BY <2>1 DEF Types, AlarmRow
  <2>3. Listed'
    <3> SUFFICES ASSUME NEW t \in told', ~Repaired(t)
                 PROVE  \E c \in Buckets : /\ Live(c)' /\ c[2] = FiledAs(t[1]) /\ t[2] \in alarm'[c].ids
                                           /\ t[1] = "refund" => t[2] \notin alarm'[c].credited
      BY <2>1 DEF Listed, Repaired, Final
    <3>1. CASE u = "resolved"
      <4>1. PICK c \in Buckets \ {b} : /\ Live(c) /\ c[2] = FiledAs(t[1]) /\ t[2] \in alarm[c].ids
                                       /\ t[1] = "refund" => t[2] \notin alarm[c].credited
        BY <2>1, <3>1, ListLetGo
      <4> QED
        BY <2>2, <4>1 DEF Live
    <3>2. CASE u = "acknowledged"
      <4>1. PICK c \in Buckets : /\ Live(c) /\ c[2] = FiledAs(t[1]) /\ t[2] \in alarm[c].ids
                                 /\ t[1] = "refund" => t[2] \notin alarm[c].credited
        BY <2>1, <3>2 DEF ListInv, Listed
      <4> QED
        BY <2>2, <3>2, <4>1 DEF Live
    <3> QED
      BY <3>1, <3>2
  <2>4. Snapshots'
    <3> SUFFICES ASSUME NEW x \in Readers, NEW r \in reading[x].rows \cup reading[x].closing PROVE Grown(r)'
      BY <2>1 DEF Snapshots
    <3>1. Grown(r) /\ r.bucket \in Buckets
      BY SnapshotTypes DEF ListInv, Snapshots
    <3> QED
      BY <2>2, <3>1 DEF Grown
  <2>5. Verdicts' /\ OnlyStanding'
    BY <2>1, <2>2 DEF ListInv, Verdicts, Settled, Final, OnlyStanding
  <2> QED
    BY <2>3, <2>4, <2>5 DEF ListInv
<1>15. ASSUME Tick \/ DigestRead \/ UNCHANGED incidentVars PROVE ListInv'
  BY <1>1, <1>15 DEF Tick, DigestRead, incidentVars, papers
<1>16. ASSUME NEW f \in Failings, NEW o \in Affected, ReportFailure(f, o) PROVE ListInv'
  BY <1>16, ListReported
<1> QED
  BY <1>2, <1>3, <1>4, <1>5, <1>6, <1>7, <1>8, <1>9, <1>10, <1>12, <1>13, <1>14, <1>15, <1>16
     DEF IncidentNext, FailureNext, StandingNext, Evidence

\* No pass, clock or check closes a row over a failure that is not repaired, whatever sales
\* and passes there are, however they overlap (resolveIncidentsOnEvidence): a failure that
\* was reported is repaired, or listed where someone still looks.  The same refund must not
\* fail again while a pass holds its row; one the subscription gate refused is repaired with
\* its sale, in whose row it is filed (generic-pipeline.ts:209).
THEOREM UnrepairedAlwaysListed == ~SecondRefundRaces => (IncidentSpec => []UnrepairedIsListed)
<1> SUFFICES ASSUME ~SecondRefundRaces PROVE IncidentSpec => []UnrepairedIsListed
  OBVIOUS
<1>1. ListInv => UnrepairedIsListed
  BY DEF ListInv, Listed, ListedIn, UnrepairedIsListed
<1>2. ListInv /\ Types /\ [IncidentNext]_incidentVars => ListInv'
  BY ListNext
<1> QED
  BY <1>1, <1>2, TypesInit, TypesNext, ListInit, PTL DEF IncidentSpec
=============================================================================
