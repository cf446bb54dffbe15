------------------------------- MODULE Memory -------------------------------
(***************************************************************************)
(* The in-memory backend, as it keeps its data: a slice of records in      *)
(* insertion order beside an index by event id, a map of checkpoints and a *)
(* map of holds.  Every method locks the mutex for its whole body, so each *)
(* is one step.  The reads are operators on the state.                     *)
(***************************************************************************)
EXTENDS Envelope, PeriodText, SequencesExt

CONSTANTS
    DefaultLimit,   \* BySubject's limit when the caller gives none (1000)
    MaxAppends      \* bound: rows ever appended

\* Event ids are compared (as strings; here as numbers), and so are periods.
\* An RFC 3339 timestamp, as Go decodes it, has a year of four digits; it passes
\* year 9999 in UTC only in that year's last hours, west of Greenwich.
ASSUME MemoryAssumption ==
    /\ DefaultLimit \in Nat \ {0}
    /\ MaxAppends \in Nat
    /\ EventIDs \subseteq Nat
    /\ Periods \subseteq FourDigitMonths

VARIABLES
    records,        \* the slice of [row_id, seq, env, seal]
    index,          \* byEventID: event id -> the set holding its record, if any
    points,         \* checkpoints: period -> the set holding its checkpoint
    held,           \* the subjects whose hold is true
    made            \* ULIDs drawn so far

memoryVars == <<records, index, points, held, made>>

NewMemory ==
    /\ records = <<>>
    /\ index = [id \in EventIDs |-> {}]
    /\ points = [p \in Periods |-> {}]
    /\ held = {}
    /\ made = 0

PeriodAt(i) == Period(records[i].env.occurred_at)

\* Periods are compared as the strings they are.
Before(p, q) == TextLess(Text(p), Text(q))

\* The members of X in the order of before: each is preceded by as many members
\* as its place says.  (The library's SetToSortSeq, in a form to prove about.)
Arranged(X, below) ==
    [k \in 1..Cardinality(X) |-> CHOOSE x \in X : Cardinality(below[x]) = k - 1]

Sorted(X, before(_, _)) == Arranged(X, [x \in X |-> {y \in X : before(y, x)}])

Less(i, j) == i < j

-----------------------------------------------------------------------------
\* A new record is numbered by the length the slice then has.
AppendRecord(e) ==
    /\ made < MaxAppends
    /\ IF index[e.event_id] # {}
       THEN UNCHANGED <<records, index, made>>
       ELSE LET rec == [row_id |-> made + 1, seq |-> Len(records) + 1,
                        env |-> e, seal |-> Seal(e)]
            IN /\ records' = Append(records, rec)
               /\ index' = [index EXCEPT ![e.event_id] = {rec}]
               /\ made' = made + 1
    /\ UNCHANGED <<points, held>>

heldLocked(subjects) == \E s \in subjects : s \in held

\* A purge keeps a record inside the window or under hold.
Kept(r, cutoff) ==
    ~Before(Period(r.env.occurred_at), cutoff) \/ heldLocked(r.env.data_subjects)

\* Mutant of PurgeExpired: the deleted records stay in the index.
PurgeExpired_KeepIndex(cutoff) ==
    LET kept == Sorted({i \in DOMAIN records : Kept(records[i], cutoff)}, Less)
    IN /\ records' = [k \in DOMAIN kept |-> records[kept[k]]]
       /\ UNCHANGED <<index, points, held, made>>

\* The records to keep stay, in order; the others leave the slice, and what
\* the index holds for their event ids is deleted.
PurgeExpired(cutoff) ==
    LET kept == Sorted({i \in DOMAIN records : Kept(records[i], cutoff)}, Less)
    IN /\ records' = [k \in DOMAIN kept |-> records[kept[k]]]
       /\ index' = [id \in EventIDs |->
                      IF \E i \in DOMAIN records : /\ ~Kept(records[i], cutoff)
                                                 /\ records[i].env.event_id = id
                      THEN {}
                      ELSE index[id]]
       /\ UNCHANGED <<points, held, made>>

ByEventID(i, j) == records[i].env.event_id < records[j].env.event_id

\* Mutant of SealsForPeriod: the seals come in insertion order.
SealsForPeriod_Unsorted(period) ==
    LET at == {i \in DOMAIN records : PeriodAt(i) = period}
        sorted == Sorted(at, Less)
    IN [k \in DOMAIN sorted |-> records[sorted[k]].seal]

\* The seals of a period in the order of their event ids.
SealsForPeriod(period) ==
    LET at == {i \in DOMAIN records : PeriodAt(i) = period}
        sorted == Sorted(at, ByEventID)
    IN [k \in DOMAIN sorted |-> records[sorted[k]].seal]

\* The periods with records and no checkpoint before the given one, sorted.
PendingCheckpointPeriods(before) ==
    LET seen == {PeriodAt(i) : i \in {j \in DOMAIN records :
                   Before(PeriodAt(j), before) /\ points[PeriodAt(j)] = {}}}
    IN Sorted(seen, Before)

\* Mutant of SaveCheckpoint: an existing checkpoint is overwritten.
SaveCheckpoint_Overwrite(period, cp) ==
    /\ points' = [points EXCEPT ![period] = {cp}]
    /\ UNCHANGED <<records, index, held, made>>

SaveCheckpoint(period, cp) ==
    /\ points' = [points EXCEPT ![period] = IF @ = {} THEN {cp} ELSE @]
    /\ UNCHANGED <<records, index, held, made>>

SetLegalHold(subject, hold) ==
    /\ held' = IF hold THEN held \cup {subject} ELSE held \ {subject}
    /\ UNCHANGED <<records, index, points, made>>

-----------------------------------------------------------------------------
\* The order of a DSAR answer: by occurred_at, then by Seq; the sort is
\* stable, so records that tie on both stay in insertion order.
DsarBefore(i, j) ==
    LET a == records[i]  b == records[j] IN
    \/ a.env.occurred_at < b.env.occurred_at
    \/ /\ a.env.occurred_at = b.env.occurred_at
       /\ \/ a.seq < b.seq
          \/ a.seq = b.seq /\ i < j

\* Mutant of BySubject: the answer is cut to the limit before it is sorted.
BySubject_CutFirst(subject, from, to, limit) ==
    LET cap == IF limit <= 0 THEN DefaultLimit ELSE limit
        at == {i \in DOMAIN records :
                 /\ subject \in records[i].env.data_subjects
                 /\ records[i].env.occurred_at \in from..to}
        few == {i \in at : Cardinality({j \in at : j <= i}) <= cap}
        out == Sorted(few, DsarBefore)
    IN [k \in DOMAIN out |-> records[out[k]]]

\* The records about a subject with occurred_at in the closed range from..to,
\* at most limit of them (0 or less: the default).
BySubject(subject, from, to, limit) ==
    LET at == {i \in DOMAIN records :
                 /\ subject \in records[i].env.data_subjects
                 /\ records[i].env.occurred_at \in from..to}
        out == Sorted(at, DsarBefore)
        cap == IF limit <= 0 THEN DefaultLimit ELSE limit
        cut == IF Len(out) > cap THEN SubSeq(out, 1, cap) ELSE out
    IN [k \in DOMAIN cut |-> records[cut[k]]]

-----------------------------------------------------------------------------
\* A caller saves a checkpoint over the seals it was given when the record
\* numbered m was the last; others may have been stored since.
CheckpointAsOf(period, m) ==
    LET seals == {records[i].seal : i \in {j \in DOMAIN records :
                    PeriodAt(j) = period /\ records[j].row_id <= m}}
    IN [row_count |-> Cardinality(seals),
        seal |-> Checkpoint(seals, Cardinality(seals))]

MemoryNext ==
    \/ \E e \in Envelopes : AppendRecord(Sanitize(e))
    \/ \E p \in Periods :
         \/ \E m \in 0..made : SaveCheckpoint(p, CheckpointAsOf(p, m))
         \/ PurgeExpired(p)
    \/ \E s \in Subjects, hold \in BOOLEAN : SetLegalHold(s, hold)

MemorySpec == NewMemory /\ [][MemoryNext]_memoryVars

-----------------------------------------------------------------------------
\* The index holds exactly the records of the slice: after purges and appends
\* of the same event in any order, no entry is stale and none is missing.
IndexAgrees ==
    \A id \in EventIDs : index[id] = {r \in Range(records) : r.env.event_id = id}

\* The list of a period's seals is determined by which rows the period holds:
\* it has each row's seal once, in the order of the event ids the seals cover,
\* in whatever order the rows were stored, so that a checkpoint reproduces.
SealsReproducible ==
    \A p \in Periods :
      LET seals == SealsForPeriod(p)
          ofPeriod == {r \in Range(records) : Period(r.env.occurred_at) = p}
      IN /\ Range(seals) = {r.seal : r \in ofPeriod}
         /\ Len(seals) = Cardinality(ofPeriod)
         /\ \A k \in DOMAIN seals, l \in DOMAIN seals :
              k < l => seals[k].hmac[1] < seals[l].hmac[1]

\* A DSAR answer is the earliest records about the subject in the range, as
\* many as the limit allows, in chronological order: what is cut off is never
\* older than what is returned.
BySubjectAnswers ==
    \A subject \in Subjects, from \in Time, to \in Time, limit \in 0..MaxAppends :
      LET matching == {r \in Range(records) :
                         subject \in r.env.data_subjects /\ r.env.occurred_at \in from..to}
          cap == IF limit = 0 THEN DefaultLimit ELSE limit
          answer == BySubject(subject, from, to, limit)
          returned == Range(answer)
      IN /\ returned \subseteq matching
         /\ Cardinality(returned) = Len(answer)
         /\ \/ Len(answer) = cap
            \/ Len(answer) < cap /\ returned = matching
         /\ \A k, l \in DOMAIN answer :
              k < l => answer[k].env.occurred_at <= answer[l].env.occurred_at
         /\ \A r \in returned, q \in matching \ returned :
              r.env.occurred_at <= q.env.occurred_at

\* The backend implements the contract of the store: its slice is the rows.
S == INSTANCE StoreSpec WITH
       rows <- {[row_id |-> r.row_id, env |-> r.env, seal |-> r.seal] : r \in Range(records)},
       nextRow <- made + 1, checkpoints <- points, holds <- held

ImplementsStore == S!StoreSpecification

\* A sweep is given the closed periods that lack a checkpoint, all of them and
\* no other, the oldest first, although they are compared and sorted as text.
PendingOldestFirst ==
    \A before \in Periods :
      LET pending == PendingCheckpointPeriods(before) IN
      /\ Range(pending) = S!PendingCheckpointPeriods(before)
      /\ \A k, l \in DOMAIN pending : k < l => pending[k] < pending[l]
=============================================================================
