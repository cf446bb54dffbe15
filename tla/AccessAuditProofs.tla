------------------------- MODULE AccessAuditProofs -------------------------
(***************************************************************************)
(* Proofs about AccessAudit, for every value of its constants.             *)
(***************************************************************************)
EXTENDS AccessAudit, FiniteSetTheorems, TLAPS

-----------------------------------------------------------------------------
\* Instants and buckets: what the arithmetic of Calendar gives.
LEMMA CalendarFacts ==
    /\ MaxTime \in Nat /\ Window \in Nat /\ Window..MaxTime \subseteq Time
    /\ \A t \in Time : Period(t) \in Periods /\ Period(t) \in Nat
    /\ \A t \in Window..MaxTime : t - Window \in Time /\ Cutoff(t) \in Periods
    /\ Periods \subseteq Nat
    /\ \A s, t \in Time : s <= t => Period(s) <= Period(t)
    /\ \A s, t \in Window..MaxTime : s <= t => Cutoff(s) <= Cutoff(t)
  BY CalendarAssumption DEF Time, Period, Periods, Cutoff

\* Sanitize changes the attributes only (request.go: "otherwise verbatim").
LEMMA SanitizeKeeps ==
    ASSUME NEW e \in Envelopes
    PROVE  /\ Sanitize(e).event_id = e.event_id
           /\ Sanitize(e).occurred_at = e.occurred_at
           /\ Sanitize(e).data_subjects = e.data_subjects
           /\ Sanitize(e) \in StoredEnvelopes
  <1>1. e \in EnvelopeType
    BY EnvelopeAssumption
  <1>2. QED
    BY <1>1 DEF Sanitize, StoredEnvelopes, EnvelopeType

\* A stored envelope is a sanitised envelope of a producer.
LEMMA StoredFacts ==
    ASSUME NEW f \in StoredEnvelopes
    PROVE  /\ f.occurred_at \in Time
           /\ f.data_subjects \subseteq Subjects
           /\ Seal(f) \in SealType
           /\ \A e \in Envelopes : f.event_id = e.event_id => f = Sanitize(e)
  <1>1. PICK e \in Envelopes : f = Sanitize(e)
    BY DEF StoredEnvelopes
  <1>2. e \in EnvelopeType
    BY EnvelopeAssumption
  <1>3. /\ e.occurred_at \in Time
        /\ e.data_subjects \subseteq Subjects
    BY <1>2 DEF EnvelopeType
  <1>4. Seal(f) \in SealType
    BY DEF SealType
  <1>5. \A g \in Envelopes : f.event_id = g.event_id => f = Sanitize(g)
    BY <1>1, SanitizeKeeps, EnvelopeAssumption
  <1>6. QED
    BY <1>1, <1>3, <1>4, <1>5, SanitizeKeeps

\* What a store of the right type answers.
LEMMA StoreFacts ==
    ASSUME StoreTypeOK
    PROVE  /\ \A r \in rows : /\ PeriodOf(r) \in Periods
                              /\ r.env.occurred_at \in Time
                              /\ PeriodOf(r) = Period(r.env.occurred_at)
           /\ \A p : SealsForPeriod(p) \in [seals : SUBSET SealType, count : Nat]
           /\ \A c : Cardinality(Expired(c)) \in Nat
           /\ \A b : PendingCheckpointPeriods(b) \subseteq Periods
  <1>1. \A r \in rows : /\ PeriodOf(r) \in Periods
                        /\ r.env.occurred_at \in Time
                        /\ PeriodOf(r) = Period(r.env.occurred_at)
    BY StoredFacts, CalendarFacts DEF StoreTypeOK, RowType, PeriodOf
  <1>2. ASSUME NEW p PROVE SealsForPeriod(p) \in [seals : SUBSET SealType, count : Nat]
    <2>1. RowsOf(p) \subseteq rows
      BY DEF RowsOf
    <2>2. Cardinality(RowsOf(p)) \in Nat
      BY <2>1, FS_Subset, FS_CardinalityType DEF StoreTypeOK
    <2>3. {r.seal : r \in RowsOf(p)} \subseteq SealType
      BY <2>1 DEF StoreTypeOK, RowType
    <2>4. QED
      BY <2>2, <2>3 DEF SealsForPeriod
  <1>3. ASSUME NEW c PROVE Cardinality(Expired(c)) \in Nat
    <2>1. Expired(c) \subseteq rows
      BY DEF Expired
    <2>2. QED
      BY <2>1, FS_Subset, FS_CardinalityType DEF StoreTypeOK
  <1>4. ASSUME NEW b PROVE PendingCheckpointPeriods(b) \subseteq Periods
    BY <1>1 DEF PendingCheckpointPeriods
  <1>5. QED
    BY <1>1, <1>2, <1>3, <1>4

-----------------------------------------------------------------------------
\* Each operation of the store keeps the store well typed.
LEMMA AppendType ==
    ASSUME StoreTypeOK, NEW e \in Envelopes, SealAndAppend(e)
    PROVE  StoreTypeOK'
  <1> DEFINE row == [row_id |-> nextRow, env |-> Sanitize(e), seal |-> Seal(Sanitize(e))]
  <1>1. Sanitize(e) \in StoredEnvelopes /\ Seal(Sanitize(e)) \in SealType
    BY SanitizeKeeps, StoredFacts
  <1>2. row \in RowType
    BY <1>1 DEF RowType, StoreTypeOK
  <1>3. CASE UNCHANGED <<rows, nextRow>>
    BY <1>3 DEF StoreTypeOK, SealAndAppend, Append
  <1>4. CASE rows' = rows \cup {row} /\ nextRow' = nextRow + 1
    <2>1. IsFiniteSet(rows')
      BY <1>4, FS_AddElement DEF StoreTypeOK
    <2>2. row.row_id = nextRow
      OBVIOUS
    <2>3. \A r \in rows' : r.row_id < nextRow'
      BY <1>4, <2>2 DEF StoreTypeOK, RowType
    <2>4. QED
      BY <1>2, <1>4, <2>1, <2>3 DEF StoreTypeOK, SealAndAppend, Append
  <1>5. QED
    BY <1>3, <1>4 DEF SealAndAppend, Append

LEMMA SaveType ==
    ASSUME StoreTypeOK, NEW p, NEW cp \in CheckpointType, SaveCheckpoint(p, cp)
    PROVE  StoreTypeOK'
  BY DEF StoreTypeOK, SaveCheckpoint

LEMMA PurgeType ==
    ASSUME StoreTypeOK, NEW c, PurgeExpired(c)
    PROVE  StoreTypeOK'
  <1>1. rows' \subseteq rows
    BY DEF PurgeExpired
  <1>2. IsFiniteSet(rows')
    BY <1>1, FS_Subset DEF StoreTypeOK
  <1>3. QED
    BY <1>1, <1>2 DEF StoreTypeOK, PurgeExpired

\* A purge call, of a sweep or of a request, whatever its outcome.
LEMMA PurgeCallType ==
    ASSUME StoreTypeOK, reported \in Nat, NEW c, NEW outcome, PurgeCall(c, outcome)
    PROVE  /\ StoreTypeOK'
           /\ reported' \in Nat
           /\ UNCHANGED <<written, alarms>>
  <1>1. StoreTypeOK'
    BY PurgeType DEF PurgeCall, storeVars, StoreTypeOK
  <1>2. reported' \in Nat /\ UNCHANGED <<written, alarms>>
    BY StoreFacts DEF PurgeCall, ReportPurge, RetentionPurge, eventVars
  <1>3. QED
    BY <1>1, <1>2

-----------------------------------------------------------------------------
LEMMA TypeInit == Init => TypeOK
  <1> SUFFICES ASSUME Init PROVE TypeOK
    OBVIOUS
  <1> USE DEF Init
  <1>1. ClockTypeOK
    BY CalendarFacts, CalendarAssumption DEF ClockInit, ClockTypeOK
  <1>2. StoreTypeOK
    BY FS_EmptySet DEF StoreInit, StoreTypeOK
  <1>3. EvidenceTypeOK
    BY EvidenceAssumption DEF EvidenceInit, EvidenceTypeOK
  <1>4. written \subseteq [period : Periods, count : Nat] /\ reported \in Nat /\ alarms \subseteq Periods
    BY DEF EventsInit
  <1>5. TaskTypeOK
    BY CalendarAssumption DEF TaskInit, TaskTypeOK, TaskType, Idle, NoGhost, GhostType
  <1>6. RoutesTypeOK
    BY CalendarAssumption, RoutesAssumption DEF RoutesInit, RoutesTypeOK, NoPurge, NoVerify
  <1>7. QED
    BY <1>1, <1>2, <1>3, <1>4, <1>5, <1>6 DEF TypeOK

\* A sweep's local state after a step that gives it the value x.
LEMMA TaskUpdate ==
    ASSUME TaskTypeOK, NEW i \in Instances, NEW x \in TaskType,
           x.pc = "save" => x.period \in x.todo,
           task' = [task EXCEPT ![i] = x],
           ghost' \in [Instances -> GhostType]
    PROVE  TaskTypeOK'
  <1>1. task' \in [Instances -> TaskType]
    BY DEF TaskTypeOK
  <1>2. \A j \in Instances : task'[j] = IF j = i THEN x ELSE task[j]
    BY DEF TaskTypeOK
  <1>3. QED
    BY <1>1, <1>2 DEF TaskTypeOK

\* The loop over the pending periods keeps the types of the sweep's local
\* state.
LEMMA LoopType ==
    ASSUME TaskTypeOK, NEW i \in Instances, NEW p \in Periods
    PROVE  /\ NextPeriod(i, p) /\ UNCHANGED ghost => TaskTypeOK'
           /\ SkipPeriod(i, p) => TaskTypeOK'
  <1> DEFINE left == task[i].todo \ {p}
             x == [Idle EXCEPT !.pc = PcAfter(left), !.now = task[i].now, !.todo = left]
  <1>1. x \in TaskType /\ x.pc # "save"
    BY DEF TaskTypeOK, TaskType, PcAfter, Idle
  <1>2. NextPeriod(i, p) => task' = [task EXCEPT ![i] = x]
    BY DEF NextPeriod
  <1> HIDE DEF x
  <1>3. NextPeriod(i, p) /\ UNCHANGED ghost => TaskTypeOK'
    BY <1>1, <1>2, TaskUpdate DEF TaskTypeOK
  <1>4. SkipPeriod(i, p) => TaskTypeOK'
    <2>1. SkipPeriod(i, p) => ghost' \in [Instances -> GhostType]
      BY DEF SkipPeriod, TaskTypeOK, GhostType
    <2>2. QED
      BY <1>1, <1>2, <2>1, TaskUpdate DEF SkipPeriod
  <1>5. QED
    BY <1>3, <1>4

\* So does the end of a sweep.
LEMMA EndType ==
    ASSUME TaskTypeOK, NEW i \in Instances, EndSweep(i)
    PROVE  TaskTypeOK'
  <1>1. Idle \in TaskType /\ Idle.pc # "save"
    BY CalendarAssumption DEF TaskType, Idle
  <1>2. ghost' \in [Instances -> GhostType]
    BY DEF EndSweep, TaskTypeOK, NoGhost, GhostType
  <1>3. QED
    BY <1>1, <1>2, TaskUpdate DEF EndSweep

LEMMA SweepStepType ==
    ASSUME TypeOK, NEW i \in Instances, SweepStep(i), UNCHANGED <<now, routeVars>>
    PROVE  TypeOK'
  <1> DEFINE EventsOK == /\ written \subseteq [period : Periods, count : Nat]
                         /\ reported \in Nat
                         /\ alarms \subseteq Periods
  <1>1. /\ ClockTypeOK /\ StoreTypeOK /\ EvidenceTypeOK
        /\ EventsOK /\ TaskTypeOK /\ RoutesTypeOK
    BY DEF TypeOK
  <1>2. ClockTypeOK' /\ RoutesTypeOK'
    BY <1>1 DEF ClockTypeOK, RoutesTypeOK, routeVars
  <1>3. UNCHANGED storeVars => StoreTypeOK'
    BY <1>1 DEF storeVars, StoreTypeOK
  <1>4. UNCHANGED evidenceVars => EvidenceTypeOK'
    BY <1>1 DEF evidenceVars, EvidenceTypeOK
  <1>5. UNCHANGED eventVars => EventsOK'
    BY <1>1 DEF eventVars
  <1> SUFFICES StoreTypeOK' /\ EvidenceTypeOK' /\ EventsOK' /\ TaskTypeOK'
    BY <1>2 DEF TypeOK
  <1> HIDE DEF EventsOK
  <1>6. CASE StartSweep(i)
    <2>1. TaskTypeOK'
      <3> DEFINE x == [Idle EXCEPT !.pc = "list", !.now = now]
      <3>1. x \in TaskType /\ x.pc # "save"
        BY <1>1 DEF TaskType, Idle, ClockTypeOK
      <3>2. task' = [task EXCEPT ![i] = x] /\ UNCHANGED ghost
        BY <1>6 DEF StartSweep
      <3> HIDE DEF x
      <3>3. QED
        BY <1>1, <3>1, <3>2, TaskUpdate DEF TaskTypeOK
    <2>2. QED
      BY <1>3, <1>4, <1>5, <1>6, <2>1 DEF StartSweep
  <1>7. ASSUME NEW outcome \in Outcomes, ListPending(i, outcome)
        PROVE  StoreTypeOK' /\ EvidenceTypeOK' /\ EventsOK' /\ TaskTypeOK'
    <2> DEFINE pending == IF outcome = "ok"
                          THEN PendingCheckpointPeriods(Period(task[i].now))
                          ELSE {}
    <2>1. pending \subseteq Periods /\ nextRow \in Nat
      BY <1>1, StoreFacts DEF StoreTypeOK
    <2>2. /\ task' = [task EXCEPT ![i].pc = PcAfter(pending), ![i].todo = pending]
          /\ ghost' = [ghost EXCEPT ![i].mark = IF outcome = "ok" THEN nextRow ELSE 0]
      BY <1>7 DEF ListPending
    <2> HIDE DEF pending
    <2>3. TaskTypeOK'
      <3> DEFINE x == [task[i] EXCEPT !.pc = PcAfter(pending), !.todo = pending]
      <3>1. x \in TaskType /\ x.pc # "save"
        BY <1>1, <2>1 DEF TaskTypeOK, TaskType, PcAfter
      <3>2. task' = [task EXCEPT ![i] = x]
        BY <1>1, <2>2 DEF TaskTypeOK
      <3>3. ghost' \in [Instances -> GhostType]
        BY <1>1, <2>1, <2>2 DEF TaskTypeOK, GhostType
      <3> HIDE DEF x
      <3>4. QED
        BY <1>1, <3>1, <3>2, <3>3, TaskUpdate
    <2>4. QED
      BY <1>3, <1>4, <1>5, <1>7, <2>3 DEF ListPending
  <1>8. ASSUME NEW outcome \in Outcomes, ReadSeals(i, outcome)
        PROVE  StoreTypeOK' /\ EvidenceTypeOK' /\ EventsOK' /\ TaskTypeOK'
    <2>1. PICK p \in task[i].todo :
            \/ /\ task' = [task EXCEPT ![i].pc = "save", ![i].period = p,
                                       ![i].read = SealsForPeriod(p)]
               /\ UNCHANGED ghost
            \/ SkipPeriod(i, p)
      BY <1>8 DEF ReadSeals
    <2>2. p \in Periods /\ p \in Nat
      BY <1>1, CalendarFacts DEF TaskTypeOK, TaskType
    <2>3. SealsForPeriod(p) \in [seals : SUBSET SealType, count : Nat]
      BY <1>1, StoreFacts
    <2>4. TaskTypeOK'
      <3>1. CASE SkipPeriod(i, p)
        BY <1>1, <2>2, <3>1, LoopType
      <3>2. CASE ~SkipPeriod(i, p)
        <4> DEFINE x == [task[i] EXCEPT !.pc = "save", !.period = p, !.read = SealsForPeriod(p)]
        <4>1. x \in TaskType /\ x.period \in x.todo
          BY <1>1, <2>2, <2>3 DEF TaskTypeOK, TaskType
        <4>2. task' = [task EXCEPT ![i] = x] /\ UNCHANGED ghost
          BY <1>1, <2>1, <3>2 DEF TaskTypeOK
        <4> HIDE DEF x
        <4>3. QED
          BY <1>1, <4>1, <4>2, TaskUpdate DEF TaskTypeOK
      <3>3. QED
        BY <3>1, <3>2
    <2>5. QED
      BY <1>3, <1>4, <1>5, <1>8, <2>4 DEF ReadSeals
  <1>9. ASSUME NEW outcome \in Outcomes, SaveSeals(i, outcome)
        PROVE  StoreTypeOK' /\ EvidenceTypeOK' /\ EventsOK' /\ TaskTypeOK'
    <2> DEFINE cp == [row_count |-> task[i].read.count,
                      seal |-> Checkpoint(task[i].read.seals, task[i].read.count)]
    <2>1. cp \in CheckpointType /\ task[i].read.count \in Nat
      BY <1>1 DEF TaskTypeOK, TaskType, CheckpointType, Checkpoint
    <2>2. StoreTypeOK'
      BY <1>1, <1>3, <1>9, <2>1, SaveType DEF SaveSeals
    <2>3. EventsOK'
      <3>1. CASE UNCHANGED eventVars
        BY <1>5, <3>1
      <3>2. CASE ~UNCHANGED eventVars
        <4>1. created(task[i].period) /\ CheckpointWritten(task[i].period, task[i].read.count)
          BY <1>9, <3>2 DEF SaveSeals, AnnounceCheckpoint
        <4>2. task[i].period \in Periods
          BY <1>1, <1>9 DEF SaveSeals, TaskTypeOK, TaskType
        <4>3. QED
          BY <1>1, <2>1, <4>1, <4>2 DEF EventsOK, CheckpointWritten
      <3>3. QED
        BY <3>1, <3>2
    <2>4. TaskTypeOK'
      <3>1. task[i].period \in Periods
        BY <1>1, <1>9 DEF SaveSeals, TaskTypeOK, TaskType
      <3>2. QED
        BY <1>1, <1>9, <3>1, LoopType DEF SaveSeals
    <2>5. QED
      BY <1>4, <1>9, <2>2, <2>3, <2>4 DEF SaveSeals
  <1>10. ASSUME NEW outcome \in Outcomes, Purge(i, outcome)
         PROVE  StoreTypeOK' /\ EvidenceTypeOK' /\ EventsOK' /\ TaskTypeOK'
    <2>1. StoreTypeOK' /\ EventsOK'
      BY <1>1, <1>10, PurgeCallType DEF Purge, EventsOK
    <2>2. TaskTypeOK'
      <3>1. CASE EndSweep(i)
        BY <1>1, <3>1, EndType
      <3>2. CASE ~EndSweep(i)
        <4> DEFINE x == [task[i] EXCEPT !.pc = "evidence"]
        <4>1. x \in TaskType /\ x.pc # "save"
          BY <1>1 DEF TaskTypeOK, TaskType
        <4>2. task' = [task EXCEPT ![i] = x] /\ UNCHANGED ghost
          BY <1>1, <1>10, <3>2 DEF Purge, TaskTypeOK
        <4> HIDE DEF x
        <4>3. QED
          BY <1>1, <4>1, <4>2, TaskUpdate DEF TaskTypeOK
      <3>3. QED
        BY <3>1, <3>2
    <2>3. QED
      BY <1>4, <1>10, <2>1, <2>2 DEF Purge
  <1>11. ASSUME NEW outcome \in Outcomes, SweepEvidence(i, outcome)
         PROVE  StoreTypeOK' /\ EvidenceTypeOK' /\ EventsOK' /\ TaskTypeOK'
    <2>1. EvidenceTypeOK'
      BY <1>1, <1>4, <1>11 DEF SweepEvidence, SweepVerifyExpired, EvidenceTypeOK
    <2>2. QED
      BY <1>1, <1>3, <1>5, <1>11, <2>1, EndType DEF SweepEvidence
  <1>12. CASE Crash(i)
    BY <1>1, <1>3, <1>4, <1>5, <1>12, EndType DEF Crash
  <1>13. QED
    BY <1>6, <1>7, <1>8, <1>9, <1>10, <1>11, <1>12 DEF SweepStep

LEMMA RouteStepType ==
    ASSUME TypeOK, RouteStep, UNCHANGED <<now, taskVars>>
    PROVE  TypeOK'
  <1> DEFINE EventsOK == /\ written \subseteq [period : Periods, count : Nat]
                         /\ reported \in Nat
                         /\ alarms \subseteq Periods
             Goal == StoreTypeOK /\ EvidenceTypeOK /\ EventsOK /\ RoutesTypeOK
  <1>1. /\ ClockTypeOK /\ StoreTypeOK /\ EvidenceTypeOK
        /\ EventsOK /\ TaskTypeOK /\ RoutesTypeOK
    BY DEF TypeOK
  <1>2. ClockTypeOK' /\ TaskTypeOK'
    BY <1>1 DEF ClockTypeOK, TaskTypeOK, taskVars
  <1>3. UNCHANGED storeVars => StoreTypeOK'
    BY <1>1 DEF storeVars, StoreTypeOK
  <1>4. UNCHANGED evidenceVars => EvidenceTypeOK'
    BY <1>1 DEF evidenceVars, EvidenceTypeOK
  <1>5. UNCHANGED eventVars => EventsOK'
    BY <1>1 DEF eventVars
  <1>6. UNCHANGED routeVars => RoutesTypeOK'
    BY <1>1 DEF routeVars, RoutesTypeOK
  <1> SUFFICES Goal'
    BY <1>2 DEF TypeOK
  <1> HIDE DEF EventsOK
  <1>7. ASSUME NEW e \in Envelopes, Post(e) \/ RequestFails(e)
        PROVE  Goal'
    <2>1. RoutesTypeOK'
      <3>1. CASE Post(e)
        BY <1>1, <3>1, RoutesAssumption DEF Post, RoutesTypeOK
      <3>2. CASE RequestFails(e)
        BY <1>1, <3>2, RoutesAssumption DEF RequestFails, RoutesTypeOK
      <3>3. QED
        BY <1>7, <3>1, <3>2
    <2>2. QED
      BY <1>3, <1>4, <1>5, <1>7, <2>1 DEF Post, RequestFails
  <1>8. ASSUME NEW e \in Envelopes, recordAccess(e)
        PROVE  Goal'
    <2>1. StoreTypeOK'
      BY <1>1, <1>8, AppendType DEF recordAccess
    <2>2. RoutesTypeOK'
      BY <1>1, <1>8, RoutesAssumption DEF recordAccess, RoutesTypeOK
    <2>3. QED
      BY <1>4, <1>5, <1>8, <2>1, <2>2 DEF recordAccess
  <1>9. ASSUME NEW sub \in Subjects, placeLegalHold(sub) \/ clearLegalHold(sub)
        PROVE  Goal'
    <2>1. StoreTypeOK'
      BY <1>1, <1>9 DEF placeLegalHold, clearLegalHold, LegalHold, SetLegalHold, StoreTypeOK
    <2>2. QED
      BY <1>4, <1>5, <1>6, <1>9, <2>1 DEF placeLegalHold, clearLegalHold, LegalHold
  <1>10. ASSUME NEW q \in PurgeReqs, purgeStart(q)
         PROVE  Goal'
    <2>1. RoutesTypeOK'
      BY <1>1, <1>10 DEF purgeStart, RoutesTypeOK, ClockTypeOK
    <2>2. QED
      BY <1>3, <1>4, <1>5, <1>10, <2>1 DEF purgeStart
  <1>11. ASSUME NEW q \in PurgeReqs, NEW outcome \in Outcomes, purge(q, outcome)
         PROVE  Goal'
    <2>1. StoreTypeOK' /\ EventsOK'
      BY <1>1, <1>11, PurgeCallType DEF purge, EventsOK
    <2>2. RoutesTypeOK'
      BY <1>1, <1>11, CalendarAssumption DEF purge, RoutesTypeOK, NoPurge
    <2>3. QED
      BY <1>4, <1>11, <2>1, <2>2 DEF purge
  <1>12. ASSUME NEW v \in VerifyReqs, NEW p \in Periods, verifyPeriodLoad(v, p)
         PROVE  Goal'
    <2> DEFINE x == [pc |-> "compare", period |-> p, cp |-> LoadCheckpoint(p)]
               T == [pc : {"idle", "compare"}, period : Nat, cp : SUBSET CheckpointType]
    <2>1. x \in T /\ x.period \in Periods
      BY <1>1, CalendarFacts DEF StoreTypeOK, LoadCheckpoint
    <2>2. verifyReq' = [verifyReq EXCEPT ![v] = x] /\ UNCHANGED <<outbox, purgeReq>>
      BY <1>12 DEF verifyPeriodLoad
    <2>3. verifyReq \in [VerifyReqs -> T]
      BY <1>1 DEF RoutesTypeOK
    <2> HIDE DEF x, T
    <2>4. /\ verifyReq' \in [VerifyReqs -> T]
          /\ \A w \in VerifyReqs : verifyReq'[w] = IF w = v THEN x ELSE verifyReq[w]
      BY <2>1, <2>2, <2>3
    <2>5. RoutesTypeOK'
      BY <1>1, <2>1, <2>2, <2>4 DEF RoutesTypeOK, T
    <2>6. QED
      BY <1>3, <1>4, <1>5, <1>12, <2>5 DEF verifyPeriodLoad
  <1>13. ASSUME NEW v \in VerifyReqs, NEW outcome \in Outcomes, verifyPeriod(v, outcome)
         PROVE  Goal'
    <2>1. EventsOK'
      <3>1. \/ UNCHANGED eventVars
            \/ IntegrityMismatch(verifyReq[v].period)
        BY <1>13 DEF verifyPeriod
      <3>2. verifyReq[v].period \in Periods
        BY <1>1, <1>13 DEF verifyPeriod, RoutesTypeOK
      <3>3. QED
        BY <1>1, <1>5, <3>1, <3>2 DEF EventsOK, IntegrityMismatch
    <2>2. RoutesTypeOK'
      BY <1>1, <1>13 DEF verifyPeriod, RoutesTypeOK, NoVerify
    <2>3. QED
      BY <1>3, <1>4, <1>13, <2>1, <2>2 DEF verifyPeriod
  <1>14. ASSUME NEW ts \in Time, verifyEventPosted(ts)
         PROVE  Goal'
    <2>1. EvidenceTypeOK'
      BY <1>1, <1>14, EvidenceAssumption
         DEF verifyEventPosted, recordVerifyEvent, AppendVerifyEvent, EvidenceTypeOK
    <2>2. QED
      BY <1>3, <1>5, <1>6, <1>14, <2>1 DEF verifyEventPosted
  <1>15. QED
    BY <1>7, <1>8, <1>9, <1>10, <1>11, <1>12, <1>13, <1>14 DEF RouteStep

LEMMA TypeStep == TypeOK /\ [Next]_vars => TypeOK'
  <1> SUFFICES ASSUME TypeOK, [Next]_vars PROVE TypeOK'
    OBVIOUS
  <1>1. CASE Tick /\ UNCHANGED <<storeVars, evidenceVars, eventVars, taskVars, routeVars>>
    <2>1. ClockTypeOK'
      BY <1>1, CalendarFacts DEF TypeOK, ClockTypeOK, Tick
    <2>2. QED
      BY <1>1, <2>1 DEF TypeOK, storeVars, evidenceVars, eventVars, taskVars,
           routeVars, StoreTypeOK, EvidenceTypeOK, TaskTypeOK, RoutesTypeOK
  <1>2. CASE \E i \in Instances : SweepStep(i) /\ UNCHANGED <<now, routeVars>>
    BY <1>2, SweepStepType
  <1>3. CASE RouteStep /\ UNCHANGED <<now, taskVars>>
    BY <1>3, RouteStepType
  <1>4. CASE UNCHANGED vars
    BY <1>4 DEF vars, TypeOK, storeVars, evidenceVars, eventVars, taskVars, routeVars,
         ClockTypeOK, StoreTypeOK, EvidenceTypeOK, TaskTypeOK, RoutesTypeOK
  <1>5. QED
    BY <1>1, <1>2, <1>3, <1>4 DEF Next

\* Every reachable state is well typed, whatever the number of instances,
\* requests, envelopes and posts, and whichever calls fail.
THEOREM TypeCorrect == Spec => []TypeOK
  BY TypeInit, TypeStep, PTL DEF Spec
=============================================================================
