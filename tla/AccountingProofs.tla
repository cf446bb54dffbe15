-------------------------- MODULE AccountingProofs --------------------------
(***************************************************************************)
(* What an auditor may conclude from the event stream and the checkpoints. *)
(*                                                                         *)
(* The deletions the retention_purge events count are compared with those  *)
(* that happened: every identifier handed out belongs to a row that is     *)
(* present or deleted, so the deletions are nextRow - 1 -                  *)
(* Cardinality(rows).  The checkpoints are compared with the rows: when    *)
(* records arrive in their month, the rows of a closed period inside the   *)
(* window do not change any more, so what a sweep read is what it seals    *)
(* and what a verification compares with.                                  *)
(***************************************************************************)
EXTENDS SweepProofs

\* The deletions grow by d in a step, and the events count all or none of it;
\* none only if the answer of a store call can be lost.
Accounted(d) ==
    /\ d \in Nat
    /\ Deleted' = Deleted + d
    /\ reported' = reported + d \/ (reported' = reported /\ "lost" \in Faults)

LEMMA DeletedType ==
    ASSUME StoreTypeOK
    PROVE  Deleted \in Int /\ Cardinality(rows) \in Nat /\ nextRow \in Nat
  <1>1. Cardinality(rows) \in Nat /\ nextRow \in Nat
    BY FS_CardinalityType DEF StoreTypeOK
  <1>2. QED
    BY <1>1 DEF Deleted

\* A step that leaves the rows and the count of the events alone.
LEMMA QuietAccounts ==
    ASSUME StoreTypeOK, reported \in Nat, UNCHANGED <<rows, nextRow, reported>>
    PROVE  Accounted(0)
  BY DeletedType DEF Deleted, Accounted

\* An append deletes nothing: the new row takes the identifier it uses up.
LEMMA AppendAccounts ==
    ASSUME StoreTypeOK, reported \in Nat, NEW e, SealAndAppend(e), UNCHANGED reported
    PROVE  Accounted(0)
  <1> DEFINE x == [row_id |-> nextRow, env |-> Sanitize(e), seal |-> Seal(Sanitize(e))]
  <1>1. CASE UNCHANGED <<rows, nextRow>>
    BY <1>1, QuietAccounts
  <1>2. CASE rows' = rows \cup {x} /\ nextRow' = nextRow + 1
    <2>1. x \notin rows
      <3>1. x.row_id = nextRow
        OBVIOUS
      <3>2. \A r \in rows : r.row_id < nextRow /\ nextRow \in Nat
        BY DEF StoreTypeOK
      <3>3. QED
        BY <3>1, <3>2
    <2>2. Cardinality(rows') = Cardinality(rows) + 1
      BY <1>2, <2>1, FS_AddElement DEF StoreTypeOK
    <2>3. Deleted' = Deleted
      BY <1>2, <2>2, DeletedType DEF Deleted
    <2>4. QED
      BY <2>3, DeletedType DEF Accounted
  <1>3. QED
    BY <1>1, <1>2 DEF SealAndAppend, Append

\* A purge call deletes what it counts, and reports it unless it failed.
LEMMA PurgeAccounts ==
    ASSUME StoreTypeOK, reported \in Nat, NEW c, NEW outcome \in Outcomes,
           PurgeCall(c, outcome)
    PROVE  \E d : Accounted(d)
  <1>1. CASE outcome = "fail"
    BY <1>1, QuietAccounts DEF PurgeCall, ReportPurge, storeVars, eventVars
  <1>2. CASE outcome # "fail"
    <2> DEFINE d == Cardinality(Expired(c))
    <2>1. rows' = rows \ Expired(c) /\ nextRow' = nextRow
      BY <1>2 DEF PurgeCall, PurgeExpired
    <2>2. d \in Nat /\ Cardinality(rows') = Cardinality(rows) - d
      <3>1. Expired(c) \subseteq rows
        BY DEF Expired
      <3>2. rows \cap Expired(c) = Expired(c)
        BY <3>1
      <3>3. IsFiniteSet(rows) /\ IsFiniteSet(Expired(c))
        BY <3>1, FS_Subset DEF StoreTypeOK
      <3>4. Cardinality(rows \ Expired(c)) = Cardinality(rows) - Cardinality(rows \cap Expired(c))
        BY <3>3, FS_Difference
      <3>5. d \in Nat
        BY <3>3, FS_CardinalityType
      <3>6. QED
        BY <2>1, <3>2, <3>4, <3>5
    <2>3. Deleted' = Deleted + d
      BY <2>1, <2>2, DeletedType DEF Deleted
    <2>4. reported' = reported + d \/ (reported' = reported /\ "lost" \in Faults)
      BY <1>2, TaskAssumption DEF PurgeCall, ReportPurge, RetentionPurge, eventVars, Outcomes
    <2>5. Accounted(d)
      BY <2>2, <2>3, <2>4 DEF Accounted
    <2>6. QED
      BY <2>5
  <1>3. QED
    BY <1>1, <1>2

\* Every step accounts for what it deletes.
LEMMA StepAccounts ==
    ASSUME TypeOK, [Next]_vars
    PROVE  \E d : Accounted(d)
  <1>1. StoreTypeOK /\ reported \in Nat
    BY DEF TypeOK
  <1>2. CASE UNCHANGED <<rows, nextRow, reported>>
    BY <1>1, <1>2, QuietAccounts
  <1>3. ASSUME NEW i \in Instances, SweepStep(i)
        PROVE  \/ UNCHANGED <<rows, nextRow, reported>>
               \/ \E outcome \in Outcomes : PurgeCall(Cutoff(task[i].now), outcome)
    BY <1>3 DEF SweepStep, StartSweep, ListPending, ReadSeals, SaveSeals, SaveCheckpoint,
         AnnounceCheckpoint, CheckpointWritten, Purge, SweepEvidence, Crash,
         storeVars, eventVars
  <1>4. CASE RouteStep
    <2>1. ASSUME NEW e \in Envelopes, recordAccess(e)
          PROVE  Accounted(0)
      BY <1>1, <2>1, AppendAccounts DEF recordAccess, eventVars
    <2>2. ASSUME NEW q \in PurgeReqs, NEW outcome \in Outcomes, purge(q, outcome)
          PROVE  \E d : Accounted(d)
      BY <1>1, <2>2, PurgeAccounts DEF purge
    <2>3. ASSUME NEW v \in VerifyReqs, NEW outcome \in Outcomes, verifyPeriod(v, outcome)
          PROVE  UNCHANGED <<rows, nextRow, reported>>
      BY <2>3 DEF verifyPeriod, IntegrityMismatch, storeVars, eventVars
    <2>4. QED
      BY <1>2, <1>4, <2>1, <2>2, <2>3 DEF RouteStep, Post, RequestFails, placeLegalHold,
           clearLegalHold, LegalHold, SetLegalHold, purgeStart, verifyPeriodLoad,
           verifyEventPosted, storeVars, eventVars
  <1>5. QED
    BY <1>1, <1>2, <1>3, <1>4, PurgeAccounts DEF Next, vars, storeVars, eventVars

\* The retention_purge events never count a deletion twice, nor one that did
\* not happen, with sweeps and manual purges running into each other.
THEOREM NothingOverReported == Spec => []NeverOverReported
  <1>1. Init => NeverOverReported
    <2>1. Cardinality({}) = 0
      BY FS_EmptySet
    <2>2. QED
      BY <2>1 DEF Init, StoreInit, EventsInit, NeverOverReported, Deleted
  <1>2. TypeOK /\ NeverOverReported /\ [Next]_vars => NeverOverReported'
    <2> SUFFICES ASSUME TypeOK, NeverOverReported, [Next]_vars PROVE NeverOverReported'
      OBVIOUS
    <2>1. PICK d : Accounted(d)
      BY StepAccounts
    <2>2. Deleted \in Int /\ reported \in Nat
      BY DeletedType DEF TypeOK
    <2>3. QED
      BY <2>1, <2>2 DEF Accounted, NeverOverReported
  <1>3. QED
    BY <1>1, <1>2, TypeCorrect, PTL DEF Spec

\* When no store call loses its answer, every deletion is in the event stream.
THEOREM AllReported ==
    ASSUME "lost" \notin Faults
    PROVE  Spec => []DeletionsAllReported
  <1>1. Init => DeletionsAllReported
    <2>1. Cardinality({}) = 0
      BY FS_EmptySet
    <2>2. QED
      BY <2>1 DEF Init, StoreInit, EventsInit, DeletionsAllReported, Deleted
  <1>2. TypeOK /\ DeletionsAllReported /\ [Next]_vars => DeletionsAllReported'
    <2> SUFFICES ASSUME TypeOK, DeletionsAllReported, [Next]_vars
                 PROVE  DeletionsAllReported'
      OBVIOUS
    <2>1. PICK d : Accounted(d)
      BY StepAccounts
    <2>2. QED
      BY <2>1 DEF Accounted, DeletionsAllReported
  <1>3. QED
    BY <1>1, <1>2, TypeCorrect, PTL DEF Spec
-----------------------------------------------------------------------------
\* The rows of a closed period inside the window stay what they are: appends
\* are for the present month, purges for periods that have left the window.
LEMMA ClosedRowsKept ==
    ASSUME ~LateDelivery, TypeOK, LocalsStale, [Next]_vars,
           NEW p \in Periods, p < Period(now), Cutoff(now) <= p
    PROVE  RowsOf(p)' = RowsOf(p) /\ SealsForPeriod(p)' = SealsForPeriod(p)
  <1>1. RowsOf(p)' = {r \in rows' : PeriodOf(r) = p}
    BY DEF RowsOf, PeriodOf, Period
  <1>2. StoreTypeOK /\ now \in Window..MaxTime /\ now \in Time /\ p \in Nat
    BY CalendarFacts DEF TypeOK, ClockTypeOK
  <1>3. Period(now) \in Nat /\ Cutoff(now) \in Nat
    BY <1>2, CalendarFacts
  <1>4. CASE Appended
    <2>1. PICK e \in Envelopes : recordAccess(e)
      BY <1>4 DEF Appended
    <2> DEFINE x == [row_id |-> nextRow, env |-> Sanitize(e), seal |-> Seal(Sanitize(e))]
    <2>2. rows' = rows \/ rows' = rows \cup {x}
      BY <2>1 DEF recordAccess, SealAndAppend, Append
    <2>3. PeriodOf(x) = Period(e.occurred_at) /\ Period(now) <= Period(e.occurred_at)
      BY <2>1, SanitizeKeeps DEF recordAccess, OnTime, PeriodOf
    <2>4. Period(e.occurred_at) \in Nat
      BY EnvelopeAssumption, CalendarFacts DEF EnvelopeType
    <2>5. PeriodOf(x) # p
      BY <1>2, <1>3, <2>3, <2>4
    <2> HIDE DEF x
    <2>6. QED
      BY <1>1, <2>2, <2>5 DEF RowsOf, SealsForPeriod
  <1>5. CASE Purged
    <2>1. PICK t \in Window..MaxTime : t <= now /\ PurgeExpired(Cutoff(t))
      BY <1>5 DEF Purged
    <2>2. Cutoff(t) <= Cutoff(now) /\ Cutoff(t) \in Nat
      BY <1>2, <2>1, CalendarFacts
    <2>3. \A r \in rows : PeriodOf(r) = p => r \notin Expired(Cutoff(t))
      BY <1>2, <1>3, <2>2 DEF Expired
    <2>4. QED
      BY <1>1, <2>1, <2>3 DEF PurgeExpired, RowsOf, SealsForPeriod
  <1>6. CASE UNCHANGED rows
    BY <1>1, <1>6 DEF RowsOf, SealsForPeriod
  <1>7. QED
    BY <1>4, <1>5, <1>6, StoreEffect
       DEF Saved, SaveSeals, SaveCheckpoint, HoldChanged, SetLegalHold, storeVars

\* A sweep about to save was already about to, or has just read the seals.
LEMMA ReadSealsReads ==
    ASSUME TypeOK, [Next]_vars, NEW i \in Instances, task'[i].pc = "save"
    PROVE  \/ task'[i] = task[i]
           \/ /\ UNCHANGED <<now, storeVars>>
              /\ task'[i].read = SealsForPeriod(task'[i].period)
  <1> USE DEF TypeOK, TaskTypeOK
  <1>1. CASE SweepStep(i) /\ UNCHANGED now
    <2>1. ASSUME NEW p, NextPeriod(i, p)
          PROVE  FALSE
      BY <2>1 DEF NextPeriod, PcAfter, Idle
    <2>2. ~EndSweep(i)
      BY DEF EndSweep, Idle
    <2>3. ~StartSweep(i)
      BY DEF StartSweep, Idle
    <2>4. ASSUME NEW outcome, ListPending(i, outcome)
          PROVE  FALSE
      BY <2>4 DEF ListPending, PcAfter, TaskType
    <2>5. ASSUME NEW outcome, ReadSeals(i, outcome)
          PROVE  UNCHANGED storeVars /\ task'[i].read = SealsForPeriod(task'[i].period)
      <3>1. UNCHANGED storeVars
        BY <2>5 DEF ReadSeals
      <3>2. PICK p \in task[i].todo :
              task' = [task EXCEPT ![i].pc = "save", ![i].period = p,
                                   ![i].read = SealsForPeriod(p)]
        BY <2>1, <2>5 DEF ReadSeals, SkipPeriod
      <3>3. task'[i].period = p /\ task'[i].read = SealsForPeriod(p)
        BY <3>2 DEF TaskType
      <3>4. QED
        BY <3>1, <3>3
    <2>6. ASSUME NEW outcome, Purge(i, outcome)
          PROVE  FALSE
      BY <2>2, <2>6 DEF Purge, TaskType
    <2>7. QED
      BY <1>1, <2>1, <2>2, <2>3, <2>4, <2>5, <2>6
         DEF SweepStep, SaveSeals, SkipPeriod, SweepEvidence, Crash
  <1>2. ASSUME NEW j \in Instances \ {i}, SweepStep(j)
        PROVE  task'[i] = task[i]
    BY <1>2, SweepLocals
  <1>3. QED
    BY <1>1, <1>2 DEF Next, vars, taskVars

\* What a verification has loaded is a checkpoint.
Loaded == \A v \in VerifyReqs : verifyReq[v].pc = "compare" => verifyReq[v].cp # {}

\* A request about to compare was already about to, or has just loaded one.
LEMMA LoadLoads ==
    ASSUME TypeOK, [Next]_vars, NEW v \in VerifyReqs, verifyReq'[v].pc = "compare"
    PROVE  \/ verifyReq'[v] = verifyReq[v]
           \/ /\ UNCHANGED storeVars
              /\ verifyReq'[v].cp = checkpoints[verifyReq'[v].period]
              /\ verifyReq'[v].cp # {}
  <1> USE DEF TypeOK, RoutesTypeOK
  <1>1. ASSUME NEW w \in VerifyReqs, NEW p \in Periods, verifyPeriodLoad(w, p)
        PROVE  \/ verifyReq'[v] = verifyReq[v]
               \/ /\ UNCHANGED storeVars
                  /\ verifyReq'[v].cp = checkpoints[verifyReq'[v].period]
                  /\ verifyReq'[v].cp # {}
    BY <1>1 DEF verifyPeriodLoad, LoadCheckpoint
  <1>2. ASSUME NEW w \in VerifyReqs, NEW outcome, verifyPeriod(w, outcome)
        PROVE  verifyReq'[v] = verifyReq[v]
    BY <1>2 DEF verifyPeriod, NoVerify
  <1>3. QED
    BY <1>1, <1>2 DEF Next, vars, routeVars, RouteStep, Post, RequestFails, recordAccess,
         placeLegalHold, clearLegalHold, LegalHold, purgeStart, purge, verifyEventPosted

\* An alarm is raised by a comparison only, of a request that has loaded a
\* checkpoint which the rows do not match.
LEMMA AlarmMismatch ==
    ASSUME TypeOK, [Next]_vars, NEW p \in alarms', p \notin alarms
    PROVE  /\ UNCHANGED now
           /\ \E v \in VerifyReqs :
                /\ verifyReq[v].pc = "compare" /\ verifyReq[v].period = p
                /\ ~\A cp \in verifyReq[v].cp :
                     VerifyCheckpoint(SealsForPeriod(p).seals, SealsForPeriod(p).count, cp.seal)
  <1>1. PICK v \in VerifyReqs, outcome \in Outcomes : verifyPeriod(v, outcome) /\ UNCHANGED now
    <2>1. ASSUME NEW i \in Instances, SweepStep(i)
          PROVE  UNCHANGED alarms
      BY <2>1 DEF SweepStep, StartSweep, ListPending, ReadSeals, SaveSeals, AnnounceCheckpoint,
           CheckpointWritten, Purge, PurgeCall, ReportPurge, RetentionPurge, SweepEvidence,
           Crash, eventVars
    <2>2. QED
      BY <2>1 DEF Next, vars, RouteStep, Post, RequestFails, recordAccess, placeLegalHold,
           clearLegalHold, LegalHold, purgeStart, purge, PurgeCall, ReportPurge,
           RetentionPurge, verifyPeriodLoad, verifyEventPosted, eventVars
  <1>2. QED
    BY <1>1 DEF verifyPeriod, IntegrityMismatch, eventVars

-----------------------------------------------------------------------------
\* The inductive invariant: each part needs the others.
OnTimeInv ==
    RetainedPeriodVerifies /\ ReadsStayTrue /\ Loaded /\ NoFalseAlarm

LEMMA OnTimeInit == Init => OnTimeInv
  BY DEF Init, StoreInit, TaskInit, Idle, EventsInit, RoutesInit, NoVerify, OnTimeInv,
       RetainedPeriodVerifies, Intact, ReadsStayTrue, Loaded, NoFalseAlarm

LEMMA OnTimeStep ==
    ASSUME ~LateDelivery, TypeOK, TypeOK', LocalsStale, CheckpointOnlyClosed, OnTimeInv, Next
    PROVE  OnTimeInv'
  <1>1. /\ now \in Window..MaxTime /\ now' \in Window..MaxTime /\ now <= now'
        /\ Cutoff(now) <= Cutoff(now') /\ Cutoff(now) \in Nat /\ Cutoff(now') \in Nat
        /\ Period(now) \in Nat
    <2>1. now \in Window..MaxTime /\ now' \in Window..MaxTime
      BY DEF TypeOK, ClockTypeOK
    <2>2. now <= now'
      BY <2>1, StoreEffect, CalendarFacts
    <2>3. QED
      BY <2>1, <2>2, CalendarFacts
  <1>2. Cutoff(now)' = Cutoff(now')
    BY DEF Cutoff, Period
  <1>3. RetainedPeriodVerifies'
    <2> SUFFICES ASSUME NEW p \in Periods, Cutoff(now') <= p, NEW cp \in checkpoints'[p]
                 PROVE  VerifyCheckpoint(SealsForPeriod(p).seals', SealsForPeriod(p).count', cp.seal)
      BY <1>2 DEF RetainedPeriodVerifies, Intact, VerifyCheckpoint, Checkpoint
    <2>1. Cutoff(now) <= p /\ p \in Nat
      BY <1>1, CalendarFacts
    <2>2. CASE checkpoints[p] # {}
      <3>1. p < Period(now) /\ cp \in checkpoints[p]
        BY <2>2, WriteOnce DEF CheckpointOnlyClosed
      <3>2. SealsForPeriod(p)' = SealsForPeriod(p)
        BY <2>1, <3>1, ClosedRowsKept
      <3>3. QED
        BY <2>1, <3>1, <3>2 DEF OnTimeInv, RetainedPeriodVerifies, Intact
    <2>3. CASE checkpoints[p] = {}
      <3>1. PICK i \in Instances, outcome \in Outcomes : SaveSeals(i, outcome)
        BY <2>3, StoreEffect DEF Appended, recordAccess, SealAndAppend, Append, Purged,
             PurgeExpired, Saved, HoldChanged, SetLegalHold, storeVars
      <3>2. /\ task[i].pc = "save" /\ task[i].period = p /\ UNCHANGED rows
            /\ cp.seal = Checkpoint(task[i].read.seals, task[i].read.count)
        BY <2>3, <3>1 DEF SaveSeals, SaveCheckpoint, storeVars, TypeOK, StoreTypeOK
      <3>3. task[i].read = SealsForPeriod(p)
        BY <2>1, <3>2 DEF OnTimeInv, ReadsStayTrue
      <3>4. SealsForPeriod(p)' = SealsForPeriod(p)
        BY <3>2 DEF SealsForPeriod, RowsOf, PeriodOf, Period
      <3>5. QED
        BY <3>2, <3>3, <3>4 DEF VerifyCheckpoint
    <2>4. QED
      BY <2>2, <2>3
  <1>4. ASSUME NEW i \in Instances, task'[i].pc = "save", Cutoff(now') <= task'[i].period
        PROVE  task'[i].read = SealsForPeriod(task[i].period)'
    <2>0. PICK p : p = task'[i].period
      OBVIOUS
    <2>1. p \in Periods /\ p \in Nat
      BY <1>4, <2>0, CalendarFacts DEF TypeOK, TaskTypeOK, TaskType
    <2>2. CASE task'[i] = task[i]
      <3>1. p \in task[i].todo /\ p < Period(task[i].now) /\ task[i].now <= now
        BY <1>4, <2>0, <2>2 DEF TypeOK, TaskTypeOK, LocalsStale
      <3>2. Period(task[i].now) <= Period(now) /\ Period(task[i].now) \in Nat
        BY <1>1, <3>1, CalendarFacts DEF TypeOK, TaskTypeOK, TaskType
      <3>3. p < Period(now) /\ Cutoff(now) <= p
        BY <1>1, <1>4, <2>0, <2>1, <3>1, <3>2
      <3>4. task[i].read = SealsForPeriod(p)
        BY <1>4, <2>0, <2>2, <3>3 DEF OnTimeInv, ReadsStayTrue
      <3>5. QED
        BY <2>0, <2>1, <2>2, <3>3, <3>4, ClosedRowsKept DEF SealsForPeriod, RowsOf
    <2>3. CASE UNCHANGED storeVars /\ task'[i].read = SealsForPeriod(p)
      BY <2>0, <2>3 DEF storeVars, SealsForPeriod, RowsOf, PeriodOf, Period
    <2>4. QED
      BY <1>4, <2>0, <2>2, <2>3, ReadSealsReads
  <1>5. ASSUME NEW v \in VerifyReqs, verifyReq'[v].pc = "compare"
        PROVE  /\ verifyReq'[v].cp = checkpoints'[verifyReq'[v].period]
               /\ verifyReq'[v].cp # {}
    <2>1. CASE verifyReq'[v] = verifyReq[v]
      <3>1. /\ verifyReq[v].cp = checkpoints[verifyReq[v].period] /\ verifyReq[v].cp # {}
            /\ verifyReq[v].period \in Periods
        BY <1>5, <2>1 DEF OnTimeInv, ReadsStayTrue, Loaded, TypeOK, RoutesTypeOK
      <3>2. QED
        BY <2>1, <3>1, WriteOnce
    <2>2. CASE verifyReq'[v] # verifyReq[v]
      BY <1>5, <2>2, LoadLoads DEF storeVars
    <2>3. QED
      BY <2>1, <2>2
  <1>6. NoFalseAlarm'
    <2> SUFFICES ASSUME NEW p \in alarms' PROVE p < Cutoff(now')
      BY <1>2 DEF NoFalseAlarm
    <2>1. p \in Nat
      BY CalendarFacts DEF TypeOK
    <2>2. CASE p \in alarms
      BY <1>1, <2>1, <2>2 DEF OnTimeInv, NoFalseAlarm
    <2>3. CASE p \notin alarms
      <3>1. PICK v \in VerifyReqs :
              /\ verifyReq[v].pc = "compare" /\ verifyReq[v].period = p
              /\ ~\A cp \in verifyReq[v].cp :
                   VerifyCheckpoint(SealsForPeriod(p).seals, SealsForPeriod(p).count, cp.seal)
        BY <2>3, AlarmMismatch
      <3>2. verifyReq[v].cp = checkpoints[p] /\ p \in Periods
        BY <3>1 DEF OnTimeInv, ReadsStayTrue, TypeOK, RoutesTypeOK
      <3>3. ~(Cutoff(now) <= p)
        BY <3>1, <3>2 DEF OnTimeInv, RetainedPeriodVerifies, Intact
      <3>4. QED
        BY <1>1, <2>1, <3>3
    <2>4. QED
      BY <2>2, <2>3
  <1>7. QED
    <2>1. ReadsStayTrue'
      BY <1>2, <1>4, <1>5 DEF ReadsStayTrue
    <2>2. Loaded'
      BY <1>5 DEF Loaded
    <2>3. QED
      BY <1>3, <1>6, <2>1, <2>2 DEF OnTimeInv

LEMMA OnTimeHolds ==
    ASSUME ~LateDelivery
    PROVE  Spec => []OnTimeInv
  <1>1. TypeOK /\ TypeOK' /\ LocalsStale /\ CheckpointOnlyClosed /\ OnTimeInv /\ [Next]_vars
          => OnTimeInv'
    <2>1. OnTimeInv /\ UNCHANGED vars => OnTimeInv'
      BY DEF OnTimeInv, vars, storeVars, eventVars, taskVars, routeVars, RetainedPeriodVerifies,
           Intact, ReadsStayTrue, Loaded, NoFalseAlarm, SealsForPeriod, RowsOf, PeriodOf,
           Period, Cutoff, VerifyCheckpoint, Checkpoint
    <2>2. QED
      BY <2>1, OnTimeStep
  <1>2. QED
    BY <1>1, OnTimeInit, TypeCorrect, StaleLocals, OnlyClosedSealed, PTL DEF Spec

\* When records arrive in their month, the checkpoint of every period inside
\* the window matches the period's rows, with any number of instances sealing
\* and purging, failed and lost calls, and crashes.
THEOREM RetainedVerifies ==
    ASSUME ~LateDelivery
    PROVE  Spec => []RetainedPeriodVerifies
  <1>1. OnTimeInv => RetainedPeriodVerifies
    BY DEF OnTimeInv
  <1>2. QED
    BY <1>1, OnTimeHolds, PTL

\* What a sweep has read is still true when it saves, and what a verification
\* has loaded is still stored when it compares.
THEOREM ReadsAreStable ==
    ASSUME ~LateDelivery
    PROVE  Spec => []ReadsStayTrue
  <1>1. OnTimeInv => ReadsStayTrue
    BY DEF OnTimeInv
  <1>2. QED
    BY <1>1, OnTimeHolds, PTL

\* A verification raises no alarm about a period inside the window.
THEOREM NoAlarmInWindow ==
    ASSUME ~LateDelivery
    PROVE  Spec => []NoFalseAlarm
  <1>1. OnTimeInv => NoFalseAlarm
    BY DEF OnTimeInv
  <1>2. QED
    BY <1>1, OnTimeHolds, PTL
=============================================================================
