---------------------------- MODULE AccessStore ----------------------------
(***************************************************************************)
(* The contract of store.Store as both backends implement it: access rows, *)
(* write-once period checkpoints and legal holds.  Every operation runs    *)
(* under the store's mutex (memory) or in one procedure call (PostgreSQL), *)
(* so each is one atomic update here.                                      *)
(***************************************************************************)
EXTENDS Envelope

VARIABLES
    rows,           \* the stored rows: [row_id, env, seal]
    nextRow,        \* the identifier the next row gets
    checkpoints,    \* period -> the set holding its checkpoint, if it has one
    holds           \* the subjects under legal hold

storeVars == <<rows, nextRow, checkpoints, holds>>

StoredEnvelopes == {Sanitize(e) : e \in Envelopes}

SealType == {Seal(e) : e \in StoredEnvelopes}

RowType == [row_id : Nat, env : StoredEnvelopes, seal : SealType]

CheckpointType == [row_count : Nat, seal : [n : Nat, seals : SUBSET SealType]]

StoreTypeOK ==
    /\ rows \subseteq RowType
    /\ IsFiniteSet(rows)
    /\ nextRow \in Nat
    /\ \A r \in rows : r.row_id < nextRow
    /\ checkpoints \in [Periods -> SUBSET CheckpointType]
    /\ holds \subseteq Subjects

StoreInit ==
    /\ rows = {}
    /\ nextRow = 1
    /\ checkpoints = [p \in Periods |-> {}]
    /\ holds = {}

-----------------------------------------------------------------------------
PeriodOf(r) == Period(r.env.occurred_at)

\* The row byEventID (the unique index) finds for an event, if any.
byEventID(id) == {r \in rows : r.env.event_id = id}

\* Mutant of Append: the look-up in byEventID is dropped.
Append_NotIdempotent(e, s) ==
    /\ rows' = rows \cup {[row_id |-> nextRow, env |-> e, seal |-> s]}
    /\ nextRow' = nextRow + 1
    /\ UNCHANGED <<checkpoints, holds>>

Append(e, s) ==
    /\ IF byEventID(e.event_id) # {}
       THEN UNCHANGED <<rows, nextRow>>
       ELSE /\ rows' = rows \cup {[row_id |-> nextRow, env |-> e, seal |-> s]}
            /\ nextRow' = nextRow + 1
    /\ UNCHANGED <<checkpoints, holds>>

RowsOf(period) == {r \in rows : PeriodOf(r) = period}

\* The seals of a period's rows and their number.
SealsForPeriod(period) ==
    [seals |-> {r.seal : r \in RowsOf(period)},
     count |-> Cardinality(RowsOf(period))]

\* Mutants of PendingCheckpointPeriods: the month being filled counts as closed;
\* only the month just ended is looked at.
Pending_OpenToo(before) ==
    {p \in {PeriodOf(r) : r \in rows} : p <= before /\ checkpoints[p] = {}}

Pending_LastOnly(before) ==
    {p \in {PeriodOf(r) : r \in rows} : p = before - 1 /\ checkpoints[p] = {}}

PendingCheckpointPeriods(before) ==
    {p \in {PeriodOf(r) : r \in rows} : p < before /\ checkpoints[p] = {}}

SaveCheckpoint(period, cp) ==
    /\ checkpoints' = [checkpoints EXCEPT ![period] = IF @ = {} THEN {cp} ELSE @]
    /\ UNCHANGED <<rows, nextRow, holds>>

\* SaveCheckpoint's result: whether the call stores the checkpoint.
created(period) == checkpoints[period] = {}

LoadCheckpoint(period) == checkpoints[period]

SetLegalHold(subject, hold) ==
    /\ holds' = IF hold THEN holds \cup {subject} ELSE holds \ {subject}
    /\ UNCHANGED <<rows, nextRow, checkpoints>>

heldLocked(subjects) == subjects \cap holds # {}

\* Mutants of Expired: the cutoff's own month is deleted; one month too many is
\* kept; a record is exempt only when all its subjects are held.
Expired_CutoffToo(cutoff) ==
    {r \in rows : PeriodOf(r) <= cutoff /\ ~heldLocked(r.env.data_subjects)}

Expired_KeepsOneMore(cutoff) ==
    {r \in rows : PeriodOf(r) < cutoff - 1 /\ ~heldLocked(r.env.data_subjects)}

Expired_AllHeld(cutoff) ==
    {r \in rows : PeriodOf(r) < cutoff /\ ~(r.env.data_subjects \subseteq holds)}

\* The rows a purge deletes.
Expired(cutoff) ==
    {r \in rows : PeriodOf(r) < cutoff /\ ~heldLocked(r.env.data_subjects)}

PurgeExpired(cutoff) ==
    /\ rows' = rows \ Expired(cutoff)
    /\ UNCHANGED <<nextRow, checkpoints, holds>>
=============================================================================
