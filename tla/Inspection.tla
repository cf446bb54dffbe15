----------------------------- MODULE Inspection -----------------------------
(***************************************************************************)
(* The handlers that read the log and judge it, the DSAR answer and the    *)
(* two verifications, over a database whose rows may be altered behind the *)
(* service's back (a restore, a repair, a disk): what the seals and the    *)
(* checkpoints are there to show.                                          *)
(*                                                                         *)
(* An alteration leaves event identifiers unique (the table's index) and   *)
(* every row under at least one subject; it cannot compute a seal, only    *)
(* copy one.  The handlers change nothing in the store, so they are        *)
(* operators on the state (a mismatch is also logged as an event); Routes  *)
(* has the two reads of verifyPeriod apart.                                *)
(***************************************************************************)
EXTENDS Postgres

CONSTANTS
    Existing,           \* the accesses on record when the service starts
    VerifyLimit,        \* records verifySubject reads at most (10000)
    Alterations,        \* the contents an altered row may be given
    MaxAlterations      \* bound: alterations

ASSUME InspectionAssumption ==
    /\ Existing \in Seq(EnvelopeType)
    /\ \A i, j \in DOMAIN Existing : Existing[i].event_id = Existing[j].event_id => i = j
    /\ \A i \in DOMAIN Existing : Existing[i].data_subjects # {}
    /\ VerifyLimit \in Nat \ {0}
    /\ Alterations \subseteq EnvelopeType
    /\ \A e \in Alterations : e.data_subjects # {}
    /\ MaxAlterations \in Nat

VARIABLES
    altered,        \* alterations so far
    accepted        \* history: what the service stored: [env, seal]

vars == <<memoryVars, callVars, altered, accepted>>

Content(r) == [env |-> r.env, seal |-> r.seal]

\* The service comes up on a database that already holds records.
Init ==
    /\ records = [i \in DOMAIN Existing |->
                    [row_id |-> i, seq |-> i, env |-> Sanitize(Existing[i]),
                     seal |-> Seal(Sanitize(Existing[i]))]]
    /\ index = [id \in EventIDs |-> {r \in Range(records) : r.env.event_id = id}]
    /\ points = [p \in Periods |-> {}]
    /\ held = {}
    /\ made = Len(Existing)
    /\ CallsInit
    /\ altered = 0
    /\ accepted = {Content(r) : r \in Range(records)}

-----------------------------------------------------------------------------
\* A step of the service; what it appends is what it accepted.
ServiceStep ==
    /\ CallStep
    /\ accepted' = accepted \cup
         {Content(r) : r \in {q \in Range(records') : q.row_id > made}}
    /\ UNCHANGED altered

\* The table now holds these rows; its index follows.
Alter(rows) ==
    /\ altered < MaxAlterations
    /\ sent < MaxCalls
    /\ altered' = altered + 1
    /\ sent' = sent + 1
    /\ records' = rows
    /\ index' = [id \in EventIDs |-> {r \in Range(rows) : r.env.event_id = id}]
    /\ UNCHANGED <<points, held, made, calls, late, written, reported, accepted>>

\* A row is lost, its content changes under its seal, or it gets the seal of
\* another row.
Alteration ==
    \E i \in DOMAIN records :
      \/ Alter(RemoveAt(records, i))
      \/ \E e \in Alterations :
           /\ \A j \in DOMAIN records \ {i} : records[j].env.event_id # e.event_id
           /\ Alter([records EXCEPT ![i].env = e])
      \/ \E j \in DOMAIN records \ {i} : Alter([records EXCEPT ![i].seal = records[j].seal])

Next ==
    \/ ServiceStep
    \/ Alteration

Spec == Init /\ [][Next]_vars

-----------------------------------------------------------------------------
\* The answer to a DSAR: each record with the verdict on its own seal.  The
\* query's bounds are optional (ZeroTime) and its limit is passed on.
subjectRecords(subject, from, to, limit) ==
    LET recs == PostgresBySubject(subject, from, to, limit) IN
    [k \in DOMAIN recs |->
       [row |-> recs[k],
        integrity |-> IF Verify(recs[k].env, recs[k].seal) THEN "ok" ELSE "failed"]]

\* Mutant of verifySubject: only the last seal decides.
verifySubject_LastOnly(subject) ==
    LET recs == PostgresBySubject(subject, ZeroTime, ZeroTime, VerifyLimit) IN
    [checked |-> Len(recs),
     ok |-> recs = <<>> \/ Verify(recs[Len(recs)].env, recs[Len(recs)].seal)]

\* The seals of the subject's records are verified, up to the limit.
verifySubject(subject) ==
    LET recs == PostgresBySubject(subject, ZeroTime, ZeroTime, VerifyLimit) IN
    [checked |-> Len(recs),
     ok |-> \A k \in DOMAIN recs : Verify(recs[k].env, recs[k].seal)]

DaysIn(p) ==
    LET m == (p % 12) + 1  y == p \div 12 IN
    CASE m \in {4, 6, 9, 11} -> 30
      [] m = 2 -> IF y % 4 = 0 /\ (y % 100 # 0 \/ y % 400 = 0) THEN 29 ELSE 28
      [] OTHER -> 31

\* The period a text asks for, if it parses: YYYY-MM is completed with the
\* first day, and any day of a month names the month.
normalizePeriod(text) ==
    LET full == IF Len(text) = 7 THEN text \o <<Dash, 0, 1>> ELSE text IN
    {p \in Periods :
       /\ Len(full) = 10
       /\ SubSeq(full, 1, 8) = SubSeq(Text(p), 1, 8)
       /\ full[9] \in 0..9 /\ full[10] \in 0..9
       /\ 10 * full[9] + full[10] \in 1..DaysIn(p)}

\* The verdicts on the period a text asks for: none without a checkpoint,
\* otherwise whether the checkpoint recomputed over the rows is the stored one.
verifyPeriod(text) ==
    UNION {{VerifyCheckpoint(SealsForPeriod(p), Len(SealsForPeriod(p)), cp.seal) :
              cp \in points[p]} : p \in normalizePeriod(text)}

-----------------------------------------------------------------------------
\* The row is as the service stored one: this content under this seal.
Authentic(r) == Content(r) \in accepted

\* A DSAR marks exactly the records that are not as the service stored them,
\* wherever the range starts: no change of the identifier, instant, subjects or
\* attributes goes unseen, and no purge, retry or late statement makes a sound
\* record look broken.
FlaggedExactly ==
    \A s \in Subjects, from \in {ZeroTime} \cup Time :
      LET out == subjectRecords(s, from, ZeroTime, 0) IN
      \A k \in DOMAIN out : out[k].integrity = "ok" <=> Authentic(out[k].row)

About(s) == {r \in Range(records) : s \in r.env.data_subjects}

\* GET /v1/verify?subject= re-verifies every stored seal of the subject: it
\* answers ok only when all records about the subject are as they were stored.
EverySealVerified ==
    \A s \in Subjects : verifySubject(s).ok => \A r \in About(s) : Authentic(r)

\* A subject's verdict is right for as many records as the limit allows, the
\* limit itself included: all are checked, and it is ok exactly when all are as
\* they were stored.  Beyond the limit it still accuses no sound log.
SubjectVerdict ==
    \A s \in Subjects :
      LET verdict == verifySubject(s)
          sound == \A r \in About(s) : Authentic(r)
      IN /\ Cardinality(About(s)) <= VerifyLimit
              => verdict.checked = Cardinality(About(s)) /\ (verdict.ok <=> sound)
         /\ sound => verdict.ok

MonthText(p) == SubSeq(Text(p), 1, 7)

\* The two verifications together leave nothing out: when every subject's
\* verdict is ok with fewer records read than the limit, and the period asked
\* for by its month matches its checkpoint, the period holds the very records
\* the checkpoint was sealed over.
CleanVerdictsMeanIntact ==
    (\A s \in Subjects : verifySubject(s).ok /\ verifySubject(s).checked < VerifyLimit)
      => \A p \in Periods : \A cp \in points[p] :
           LET rows == {r \in Range(records) : Period(r.env.occurred_at) = p}
               covered == Range(cp.seal.seals)
           IN verifyPeriod(MonthText(p)) = {TRUE} =>
                /\ {r.env : r \in rows} = {o.env : o \in {c \in accepted : c.seal \in covered}}
                /\ Cardinality(rows) = cp.row_count
=============================================================================
