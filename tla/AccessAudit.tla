---------------------------- MODULE AccessAudit ----------------------------
(***************************************************************************)
(* The whole service: its instances' retention sweeps, the handlers, the   *)
(* producers' outboxes and the clock, over one shared store.               *)
(***************************************************************************)
EXTENDS Routes

vars == <<now, storeVars, evidenceVars, eventVars, taskVars, routeVars>>

Init ==
    /\ ClockInit
    /\ StoreInit
    /\ EvidenceInit
    /\ EventsInit
    /\ TaskInit
    /\ RoutesInit

Next ==
    \/ Tick /\ UNCHANGED <<storeVars, evidenceVars, eventVars, taskVars, routeVars>>
    \/ \E i \in Instances : SweepStep(i) /\ UNCHANGED <<now, routeVars>>
    \/ RouteStep /\ UNCHANGED <<now, taskVars>>

Spec == Init /\ [][Next]_vars

\* The ticker fires again and again and a running sweep goes on; a store call
\* that is made over and over does not fail every time.
Fairness ==
    \A i \in Instances :
      /\ WF_vars(SweepStep(i) /\ UNCHANGED <<now, routeVars>>)
      /\ SF_vars(ListPending(i, "ok") /\ UNCHANGED <<now, routeVars>>)
      /\ SF_vars(ReadSeals(i, "ok") /\ UNCHANGED <<now, routeVars>>)
      /\ SF_vars(SaveSeals(i, "ok") /\ UNCHANGED <<now, routeVars>>)
      /\ SF_vars(Purge(i, "ok") /\ UNCHANGED <<now, routeVars>>)
      /\ SF_vars(SweepEvidence(i, "ok") /\ UNCHANGED <<now, routeVars>>)

FairSpec == Spec /\ Fairness

-----------------------------------------------------------------------------
\* Every variable holds what the code's types and the model's bounds allow;
\* every identifier handed to a row is below the next one to be handed out.
TypeOK ==
    /\ ClockTypeOK
    /\ StoreTypeOK
    /\ EvidenceTypeOK
    /\ written \subseteq [period : Periods, count : Nat]
    /\ reported \in Nat
    /\ alarms \subseteq Periods
    /\ TaskTypeOK
    /\ RoutesTypeOK

\* An outbox may post an envelope any number of times, with requests in
\* flight together and the row purged in between: the store never holds two
\* rows of one event (Append's look-up in byEventID).
OneRowPerEvent ==
    \A r, s \in rows : r.env.event_id = s.env.event_id => r = s

\* The seal stored beside a row verifies against the envelope stored in it:
\* recordAccess seals what it stores, not what it was sent.
SealsVerify == \A r \in rows : Verify(r.env, r.seal)

\* An access whose producer got an answer is on record, as sanitised, for as
\* long as it is inside the accountability window, whatever retries, sweeps
\* with an old clock, manual purges and crashes did meanwhile.
AckedQueryable ==
    \A e \in Envelopes :
      outbox[e].acked /\ now - Window <= e.occurred_at
        => \E r \in rows : r.env = Sanitize(e)

\* What a sweep or a purge request remembers is old, never ahead of the clock,
\* and the periods a sweep is sealing were over when it started.
LocalsStale ==
    /\ \A q \in PurgeReqs : purgeReq[q].now <= now
    /\ \A i \in Instances :
         /\ task[i].now <= now
         /\ \A p \in task[i].todo : p < Period(task[i].now)
         /\ ghost[i].mark <= nextRow

\* Only closed months are checkpointed: however long a sweep takes between
\* listing the periods and saving, no checkpoint is of a month not over.
CheckpointOnlyClosed ==
    \A p \in Periods : checkpoints[p] # {} => p < Period(now)

\* The event stream and the store agree: a checkpoint_written event names a
\* period that has a checkpoint, with the row count stored in it, although
\* two instances may seal the same period at the same time.
CheckpointEventMatches ==
    \A w \in written :
      \E cp \in checkpoints[w.period] : cp.row_count = w.count

\* A failed call costs its own period only: every row that was stored when a
\* sweep listed the pending periods, and whose month was over when it started,
\* lies in a period the sweep has yet to seal, in one that is sealed, or in one
\* whose own calls failed.
SweepOwes ==
    \A i \in Instances :
      task[i].pc \in {"read", "save", "purge"} =>
        \A r \in rows :
          r.row_id < ghost[i].mark /\ PeriodOf(r) < Period(task[i].now)
            => \/ PeriodOf(r) \in task[i].todo \cup ghost[i].failed
               \/ checkpoints[PeriodOf(r)] # {}

\* Seal before purging: of the rows stored when it listed the pending periods a
\* sweep deletes one only if the row's period has a checkpoint or its own calls
\* failed, although time passes and other instances sweep meanwhile.
SweepPurgesSealed ==
    [][\A i \in Instances :
         task[i].pc = "purge" /\ task'[i].pc # "purge" =>
           \A r \in rows \ rows' :
             r.row_id < ghost[i].mark =>
               PeriodOf(r) \in ghost[i].failed \/ checkpoints[PeriodOf(r)] # {}]_vars

-----------------------------------------------------------------------------
\* The rows deleted so far: every identifier handed out and not present.
Deleted == nextRow - 1 - Cardinality(rows)

\* The retention_purge events never claim more deletions than happened, with
\* several sweeps and manual purges running into each other.
NeverOverReported == reported <= Deleted

\* Every deletion is in the event stream, when no store call loses its answer.
DeletionsAllReported == reported = Deleted

\* A period is intact when it has no checkpoint or the checkpoint matches the
\* rows it holds now.
Intact(p) ==
    LET read == SealsForPeriod(p) IN
    \A cp \in checkpoints[p] : VerifyCheckpoint(read.seals, read.count, cp.seal)

\* A retained period verifies: its checkpoint matches its rows as long as the
\* period is inside the window, whatever was purged around it.
RetainedPeriodVerifies ==
    \A p \in Periods : Cutoff(now) <= p => Intact(p)

\* What is read in one call is still true at the next, for a period inside the
\* window: the seals a sweep has read are those of the rows when it saves, and
\* the checkpoint a request has loaded is the stored one when it compares.
ReadsStayTrue ==
    /\ \A i \in Instances :
         task[i].pc = "save" /\ Cutoff(now) <= task[i].period
           => task[i].read = SealsForPeriod(task[i].period)
    /\ \A v \in VerifyReqs :
         verifyReq[v].pc = "compare"
           => verifyReq[v].cp = checkpoints[verifyReq[v].period]

\* GET /v1/verify raises no integrity_mismatch for a period inside the window,
\* although it reads the checkpoint and the seals in two calls.
NoFalseAlarm == \A p \in alarms : p < Cutoff(now)

\* The model has nobody who tampers with the store, so an integrity_mismatch
\* that means tampering is never emitted.
AlarmMeansTampering == alarms = {}

\* Whatever a purge deletes lies in a period that was sealed before.
PurgedPeriodsSealed ==
    [][\A r \in rows \ rows' : checkpoints[PeriodOf(r)] # {}]_vars

-----------------------------------------------------------------------------
\* The service implements the ledger: the rows' envelopes are its log.
L == INSTANCE Ledger WITH
       log <- {r.env : r \in rows}, sealed <- checkpoints, held <- holds

ImplementsLedger == L!LedgerSpec

\* The envelope is on record although it is past the window and not held.
Lingers(e) ==
    \E r \in rows :
      /\ r.env.event_id = e.event_id
      /\ PeriodOf(r) < Cutoff(now)
      /\ ~heldLocked(r.env.data_subjects)

\* No record outlives the window for ever: one that is expired and not held
\* is purged, store calls that fail or lose their answer notwithstanding.
ExpiredEventuallyPurged == \A e \in Envelopes : []<>~Lingers(e)

\* Every closed period that holds rows gets its checkpoint, or loses its rows.
ClosedEventuallySealed ==
    \A p \in Periods :
      []<>~(p < Period(now) /\ RowsOf(p) # {} /\ checkpoints[p] = {})

\* The verify evidence does not outlive its own window, although its sweep is
\* skipped whenever the purge before it fails.
EvidenceEventuallySwept == []<>(EvidenceExpired(now) = {})
=============================================================================
