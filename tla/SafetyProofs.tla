---------------------------- MODULE SafetyProofs ----------------------------
(***************************************************************************)
(* The safety invariants of AccessAudit, for every value of its constants. *)
(*                                                                         *)
(* All rest on LocalsStale: a sweep and a purge request work with a clock  *)
(* they read earlier, so the cutoff they purge with is at most the cutoff  *)
(* of the present, and the periods a sweep seals are over.                 *)
(*                                                                         *)
(* The last part shows that the service implements the ledger: an append   *)
(* records, a purge forgets, a saved checkpoint seals, and every other     *)
(* step changes nothing the ledger shows.                                  *)
(***************************************************************************)
EXTENDS AccessAuditProofs

-----------------------------------------------------------------------------
LEMMA StaleInit == Init => LocalsStale
  <1> SUFFICES ASSUME Init PROVE LocalsStale
    OBVIOUS
  <1>1. now = Window /\ nextRow = 1 /\ Window \in Nat
    BY CalendarFacts DEF Init, ClockInit, StoreInit
  <1>2. \A q \in PurgeReqs : purgeReq[q].now = Window
    BY DEF Init, RoutesInit, NoPurge
  <1>3. \A i \in Instances : /\ task[i].now = Window /\ task[i].todo = {}
                             /\ ghost[i].mark = 0
    BY DEF Init, TaskInit, Idle, NoGhost
  <1>4. QED
    BY <1>1, <1>2, <1>3 DEF LocalsStale

\* What a step of one instance does to the local state of the sweeps.
LEMMA SweepLocals ==
    ASSUME TypeOK, NEW i \in Instances, SweepStep(i)
    PROVE  /\ \A j \in Instances \ {i} : task'[j] = task[j] /\ ghost'[j] = ghost[j]
           /\ \/ task'[i].todo = {} /\ task'[i].now \in {Window, now, task[i].now}
              \/ task'[i].todo \subseteq task[i].todo /\ task'[i].now = task[i].now
              \/ /\ task'[i].todo \subseteq PendingCheckpointPeriods(Period(task[i].now))
                 /\ task'[i].now = task[i].now
           /\ ghost'[i].mark \in {0, nextRow, ghost[i].mark}
           /\ nextRow' = nextRow
  <1> USE DEF TypeOK, TaskTypeOK
  <1>1. CASE StartSweep(i)
    BY <1>1 DEF StartSweep, Idle, storeVars
  <1>2. ASSUME NEW p, NextPeriod(i, p)
        PROVE  /\ \A j \in Instances \ {i} : task'[j] = task[j]
               /\ task'[i].todo \subseteq task[i].todo /\ task'[i].now = task[i].now
    BY <1>2 DEF NextPeriod, Idle
  <1>3. ASSUME NEW p, SkipPeriod(i, p)
        PROVE  /\ \A j \in Instances \ {i} : ghost'[j] = ghost[j]
               /\ ghost'[i].mark = ghost[i].mark
    BY <1>3 DEF SkipPeriod, GhostType
  <1>4. ASSUME EndSweep(i)
        PROVE  /\ \A j \in Instances \ {i} : task'[j] = task[j] /\ ghost'[j] = ghost[j]
               /\ task'[i].todo = {} /\ task'[i].now = Window /\ ghost'[i].mark = 0
    BY <1>4 DEF EndSweep, Idle, NoGhost
  <1>5. ASSUME NEW outcome \in Outcomes, ListPending(i, outcome)
        PROVE  /\ \A j \in Instances \ {i} : task'[j] = task[j] /\ ghost'[j] = ghost[j]
               /\ task'[i].todo \subseteq PendingCheckpointPeriods(Period(task[i].now))
               /\ task'[i].now = task[i].now
               /\ ghost'[i].mark \in {0, nextRow}
               /\ nextRow' = nextRow
    BY <1>5 DEF ListPending, storeVars, TaskType, GhostType
  <1>6. ASSUME NEW outcome \in Outcomes, ReadSeals(i, outcome)
        PROVE  /\ \A j \in Instances \ {i} : task'[j] = task[j] /\ ghost'[j] = ghost[j]
               /\ task'[i].todo \subseteq task[i].todo /\ task'[i].now = task[i].now
               /\ ghost'[i].mark = ghost[i].mark
               /\ nextRow' = nextRow
    <2>1. PICK p \in task[i].todo :
            \/ /\ task' = [task EXCEPT ![i].pc = "save", ![i].period = p,
                                       ![i].read = SealsForPeriod(p)]
               /\ UNCHANGED ghost
            \/ SkipPeriod(i, p)
      BY <1>6 DEF ReadSeals
    <2>2. CASE SkipPeriod(i, p)
      BY <1>2, <1>3, <1>6, <2>2 DEF SkipPeriod, ReadSeals, storeVars
    <2>3. CASE ~SkipPeriod(i, p)
      BY <1>6, <2>1, <2>3 DEF ReadSeals, storeVars, TaskType
    <2>4. QED
      BY <2>2, <2>3
  <1>7. ASSUME NEW outcome \in Outcomes, SaveSeals(i, outcome)
        PROVE  /\ \A j \in Instances \ {i} : task'[j] = task[j] /\ ghost'[j] = ghost[j]
               /\ task'[i].todo \subseteq task[i].todo /\ task'[i].now = task[i].now
               /\ ghost'[i].mark = ghost[i].mark
               /\ nextRow' = nextRow
    BY <1>2, <1>3, <1>7 DEF SaveSeals, SkipPeriod, SaveCheckpoint, storeVars
  <1>8. ASSUME NEW outcome \in Outcomes, Purge(i, outcome)
        PROVE  /\ \A j \in Instances \ {i} : task'[j] = task[j] /\ ghost'[j] = ghost[j]
               /\ \/ task'[i].todo = task[i].todo /\ task'[i].now = task[i].now
                  \/ task'[i].todo = {} /\ task'[i].now = Window
               /\ ghost'[i].mark \in {0, ghost[i].mark}
               /\ nextRow' = nextRow
    BY <1>4, <1>8 DEF Purge, PurgeCall, PurgeExpired, storeVars, TaskType
  <1>9. ASSUME NEW outcome \in Outcomes, SweepEvidence(i, outcome)
        PROVE  EndSweep(i) /\ nextRow' = nextRow
    BY <1>9 DEF SweepEvidence, storeVars
  <1>10. CASE Crash(i)
    BY <1>4, <1>10 DEF Crash, storeVars
  <1>11. QED
    BY <1>1, <1>4, <1>5, <1>6, <1>7, <1>8, <1>9, <1>10 DEF SweepStep

\* What a handler or a producer does to the instants requests remember.
LEMMA RouteLocals ==
    ASSUME TypeOK, RouteStep
    PROVE  /\ \A q \in PurgeReqs : purgeReq'[q].now \in {Window, now, purgeReq[q].now}
           /\ nextRow' \in {nextRow, nextRow + 1}
  <1> USE DEF TypeOK, RoutesTypeOK
  <1>1. ASSUME NEW e \in Envelopes, Post(e) \/ RequestFails(e)
        PROVE  UNCHANGED <<purgeReq, nextRow>>
    BY <1>1 DEF Post, RequestFails, storeVars
  <1>2. ASSUME NEW e \in Envelopes, recordAccess(e)
        PROVE  UNCHANGED purgeReq /\ nextRow' \in {nextRow, nextRow + 1}
    BY <1>2 DEF recordAccess, SealAndAppend, Append
  <1>3. ASSUME NEW sub \in Subjects, placeLegalHold(sub) \/ clearLegalHold(sub)
        PROVE  UNCHANGED <<purgeReq, nextRow>>
    BY <1>3 DEF placeLegalHold, clearLegalHold, LegalHold, SetLegalHold, routeVars
  <1>4. ASSUME NEW r \in PurgeReqs, purgeStart(r)
        PROVE  /\ \A q \in PurgeReqs : purgeReq'[q].now \in {now, purgeReq[q].now}
               /\ nextRow' = nextRow
    BY <1>4 DEF purgeStart, storeVars
  <1>5. ASSUME NEW r \in PurgeReqs, NEW outcome \in Outcomes, purge(r, outcome)
        PROVE  /\ \A q \in PurgeReqs : purgeReq'[q].now \in {Window, purgeReq[q].now}
               /\ nextRow' = nextRow
    BY <1>5 DEF purge, PurgeCall, PurgeExpired, storeVars, NoPurge
  <1>6. ASSUME NEW v \in VerifyReqs, NEW p \in Periods, verifyPeriodLoad(v, p)
        PROVE  UNCHANGED <<purgeReq, nextRow>>
    BY <1>6 DEF verifyPeriodLoad, storeVars
  <1>7. ASSUME NEW v \in VerifyReqs, NEW outcome \in Outcomes, verifyPeriod(v, outcome)
        PROVE  UNCHANGED <<purgeReq, nextRow>>
    BY <1>7 DEF verifyPeriod, storeVars
  <1>8. ASSUME NEW ts \in Time, verifyEventPosted(ts)
        PROVE  UNCHANGED <<purgeReq, nextRow>>
    BY <1>8 DEF verifyEventPosted, storeVars, routeVars
  <1>9. QED
    BY <1>1, <1>2, <1>3, <1>4, <1>5, <1>6, <1>7, <1>8 DEF RouteStep

LEMMA StaleStep == TypeOK /\ LocalsStale /\ [Next]_vars => LocalsStale'
  <1> SUFFICES ASSUME TypeOK, LocalsStale, [Next]_vars PROVE LocalsStale'
    OBVIOUS
  <1>1. /\ now \in Nat /\ Window \in Nat /\ Window <= now /\ nextRow \in Nat
        /\ \A q \in PurgeReqs : purgeReq[q].now \in Nat
        /\ \A i \in Instances : task[i].now \in Nat /\ ghost[i].mark \in Nat
    BY CalendarFacts DEF TypeOK, ClockTypeOK, StoreTypeOK, RoutesTypeOK,
         TaskTypeOK, TaskType, GhostType
  <1>2. CASE Tick /\ UNCHANGED <<storeVars, evidenceVars, eventVars, taskVars, routeVars>>
    BY <1>1, <1>2 DEF Tick, LocalsStale, storeVars, taskVars, routeVars
  <1>3. ASSUME NEW i \in Instances, SweepStep(i), UNCHANGED <<now, routeVars>>
        PROVE  LocalsStale'
    <2>1. \A q \in PurgeReqs : purgeReq'[q].now <= now'
      BY <1>3 DEF LocalsStale, routeVars
    <2>2. ASSUME NEW j \in Instances
          PROVE  /\ task'[j].now <= now'
                 /\ \A p \in task'[j].todo : p < Period(task'[j].now)
                 /\ ghost'[j].mark <= nextRow'
      <3>1. CASE j # i
        BY <1>1, <1>3, <3>1, SweepLocals DEF LocalsStale
      <3>2. CASE j = i
        <4>1. task'[i].now <= now' /\ ghost'[i].mark <= nextRow'
          BY <1>1, <1>3, SweepLocals DEF LocalsStale
        <4>2. \A p \in task'[i].todo : p < Period(task'[i].now)
          BY <1>3, SweepLocals DEF LocalsStale, PendingCheckpointPeriods
        <4>3. QED
          BY <3>2, <4>1, <4>2
      <3>3. QED
        BY <3>1, <3>2
    <2>3. QED
      BY <2>1, <2>2 DEF LocalsStale
  <1>4. CASE RouteStep /\ UNCHANGED <<now, taskVars>>
    BY <1>1, <1>4, RouteLocals DEF LocalsStale, taskVars
  <1>5. CASE UNCHANGED vars
    BY <1>5 DEF vars, LocalsStale, storeVars, taskVars, routeVars
  <1>6. QED
    BY <1>2, <1>3, <1>4, <1>5 DEF Next

\* What sweeps and purge requests remember is old, never ahead of the clock.
THEOREM StaleLocals == Spec => []LocalsStale
  BY StaleInit, StaleStep, TypeCorrect, PTL DEF Spec

-----------------------------------------------------------------------------
\* The ways a step can change the store.
Appended == \E e \in Envelopes : recordAccess(e) /\ UNCHANGED <<now, taskVars>>

Purged ==
    /\ \E t \in Window..MaxTime : t <= now /\ PurgeExpired(Cutoff(t))
    /\ UNCHANGED now

Saved ==
    \E i \in Instances, outcome \in Outcomes :
      SaveSeals(i, outcome) /\ UNCHANGED <<now, routeVars>>

HoldChanged ==
    /\ \E sub \in Subjects, hold \in BOOLEAN : SetLegalHold(sub, hold)
    /\ UNCHANGED now

\* No step does anything else to the store, and only recordAccess answers a
\* producer.
LEMMA StoreEffect ==
    ASSUME TypeOK, LocalsStale, [Next]_vars
    PROVE  /\ Appended \/ Purged \/ Saved \/ HoldChanged \/ UNCHANGED storeVars
           /\ now' = now \/ (now' = now + 1 /\ UNCHANGED storeVars)
           /\ Appended \/ \A e \in Envelopes : outbox'[e].acked = outbox[e].acked
  <1>1. CASE Tick /\ UNCHANGED <<storeVars, evidenceVars, eventVars, taskVars, routeVars>>
    BY <1>1 DEF Tick, routeVars
  <1>2. ASSUME NEW i \in Instances, SweepStep(i), UNCHANGED <<now, routeVars>>
        PROVE  Purged \/ Saved \/ UNCHANGED storeVars
    <2>1. CASE StartSweep(i)
      BY <2>1 DEF StartSweep
    <2>2. ASSUME NEW outcome \in Outcomes, ListPending(i, outcome) \/ ReadSeals(i, outcome)
          PROVE  UNCHANGED storeVars
      BY <2>2 DEF ListPending, ReadSeals
    <2>3. ASSUME NEW outcome \in Outcomes, SaveSeals(i, outcome)
          PROVE  Saved
      BY <1>2, <2>3 DEF Saved
    <2>4. ASSUME NEW outcome \in Outcomes, Purge(i, outcome)
          PROVE  Purged \/ UNCHANGED storeVars
      <3>1. task[i].now \in Window..MaxTime /\ task[i].now <= now
        BY DEF TypeOK, TaskTypeOK, TaskType, LocalsStale
      <3>2. QED
        BY <1>2, <2>4, <3>1 DEF Purge, PurgeCall, Purged
    <2>5. ASSUME NEW outcome \in Outcomes, SweepEvidence(i, outcome)
          PROVE  UNCHANGED storeVars
      BY <2>5 DEF SweepEvidence
    <2>6. CASE Crash(i)
      BY <2>6 DEF Crash
    <2>7. QED
      BY <1>2, <2>1, <2>2, <2>3, <2>4, <2>5, <2>6 DEF SweepStep
  <1>3. CASE RouteStep /\ UNCHANGED <<now, taskVars>>
    <2>1. ASSUME NEW e \in Envelopes, Post(e) \/ RequestFails(e)
          PROVE  /\ UNCHANGED storeVars
                 /\ \A f \in Envelopes : outbox'[f].acked = outbox[f].acked
      BY <2>1 DEF Post, RequestFails, TypeOK, RoutesTypeOK
    <2>2. ASSUME NEW e \in Envelopes, recordAccess(e)
          PROVE  Appended
      BY <1>3, <2>2 DEF Appended
    <2>3. ASSUME NEW sub \in Subjects, placeLegalHold(sub) \/ clearLegalHold(sub)
          PROVE  HoldChanged /\ UNCHANGED outbox
      BY <1>3, <2>3 DEF placeLegalHold, clearLegalHold, LegalHold, HoldChanged, routeVars
    <2>4. ASSUME NEW q \in PurgeReqs, purgeStart(q)
          PROVE  UNCHANGED storeVars /\ UNCHANGED outbox
      BY <2>4 DEF purgeStart
    <2>5. ASSUME NEW q \in PurgeReqs, NEW outcome \in Outcomes, purge(q, outcome)
          PROVE  (Purged \/ UNCHANGED storeVars) /\ UNCHANGED outbox
      <3>1. purgeReq[q].now \in Window..MaxTime /\ purgeReq[q].now <= now
        BY DEF TypeOK, RoutesTypeOK, LocalsStale
      <3>2. QED
        BY <1>3, <2>5, <3>1 DEF purge, PurgeCall, Purged
    <2>6. ASSUME NEW v \in VerifyReqs, NEW p \in Periods, verifyPeriodLoad(v, p)
          PROVE  UNCHANGED storeVars /\ UNCHANGED outbox
      BY <2>6 DEF verifyPeriodLoad
    <2>7. ASSUME NEW v \in VerifyReqs, NEW outcome \in Outcomes, verifyPeriod(v, outcome)
          PROVE  UNCHANGED storeVars /\ UNCHANGED outbox
      BY <2>7 DEF verifyPeriod
    <2>8. ASSUME NEW ts \in Time, verifyEventPosted(ts)
          PROVE  UNCHANGED storeVars /\ UNCHANGED outbox
      BY <2>8 DEF verifyEventPosted, routeVars
    <2>9. QED
      BY <1>3, <2>1, <2>2, <2>3, <2>4, <2>5, <2>6, <2>7, <2>8 DEF RouteStep
  <1>4. CASE UNCHANGED vars
    BY <1>4 DEF vars, routeVars
  <1>5. QED
    BY <1>1, <1>2, <1>3, <1>4 DEF Next, routeVars

-----------------------------------------------------------------------------
\* What the accepted steps do to the rows: they appear one at a time, for an
\* event that has none, sealed as stored; they leave only when expired.
LEMMA RowsEffect ==
    ASSUME TypeOK, LocalsStale, [Next]_vars
    PROVE  \/ rows' \subseteq rows
           \/ \E e \in Envelopes :
                /\ byEventID(e.event_id) = {}
                /\ rows' = rows \cup {[row_id |-> nextRow, env |-> Sanitize(e),
                                       seal |-> Seal(Sanitize(e))]}
  <1>1. CASE Appended
    <2>1. PICK e \in Envelopes : SealAndAppend(e)
      BY <1>1 DEF Appended, recordAccess
    <2>2. Sanitize(e).event_id = e.event_id
      BY SanitizeKeeps
    <2>3. QED
      BY <2>1, <2>2 DEF SealAndAppend, Append
  <1>2. CASE Purged \/ Saved \/ HoldChanged \/ UNCHANGED storeVars
    BY <1>2 DEF Purged, PurgeExpired, Saved, SaveSeals, SaveCheckpoint, HoldChanged,
         SetLegalHold, storeVars
  <1>3. QED
    BY <1>1, <1>2, StoreEffect

\* However often an outbox posts an event, and whatever is purged in between,
\* the store holds at most one row of it.
THEOREM NoDoubleRecord == Spec => []OneRowPerEvent
  <1>1. Init => OneRowPerEvent
    BY DEF Init, StoreInit, OneRowPerEvent
  <1>2. TypeOK /\ LocalsStale /\ OneRowPerEvent /\ [Next]_vars => OneRowPerEvent'
    <2> SUFFICES ASSUME TypeOK, LocalsStale, OneRowPerEvent, [Next]_vars
                 PROVE  OneRowPerEvent'
      OBVIOUS
    <2>1. CASE rows' \subseteq rows
      BY <2>1 DEF OneRowPerEvent
    <2>2. ASSUME NEW e \in Envelopes, byEventID(e.event_id) = {}, NEW x,
                 x.env = Sanitize(e), rows' = rows \cup {x}
          PROVE  OneRowPerEvent'
      <3>1. x.env.event_id = e.event_id
        BY <2>2, SanitizeKeeps
      <3>2. QED
        BY <2>2, <3>1 DEF OneRowPerEvent, byEventID
    <2>3. QED
      BY <2>1, <2>2, RowsEffect
  <1>3. QED
    BY <1>1, <1>2, TypeCorrect, StaleLocals, PTL DEF Spec

\* Every stored seal verifies against the envelope stored with it.
THEOREM StoredSealsVerify == Spec => []SealsVerify
  <1>1. Init => SealsVerify
    BY DEF Init, StoreInit, SealsVerify
  <1>2. TypeOK /\ LocalsStale /\ SealsVerify /\ [Next]_vars => SealsVerify'
    BY RowsEffect DEF SealsVerify, Verify
  <1>3. QED
    BY <1>1, <1>2, TypeCorrect, StaleLocals, PTL DEF Spec

\* An acknowledged access stays on record until it has left the window.
THEOREM AckedStaysQueryable == Spec => []AckedQueryable
  <1>1. Init => AckedQueryable
    BY DEF Init, RoutesInit, AckedQueryable
  <1>2. TypeOK /\ LocalsStale /\ AckedQueryable /\ [Next]_vars => AckedQueryable'
    <2> SUFFICES ASSUME TypeOK, LocalsStale, AckedQueryable, [Next]_vars,
                        NEW e \in Envelopes,
                        outbox'[e].acked, now' - Window <= e.occurred_at
                 PROVE  \E r \in rows' : r.env = Sanitize(e)
      BY DEF AckedQueryable
    <2>1. /\ now \in Window..MaxTime /\ Window \in Nat /\ MaxTime \in Nat
          /\ e.occurred_at \in Time /\ Time \subseteq Nat
      BY CalendarFacts, EnvelopeAssumption DEF TypeOK, ClockTypeOK, EnvelopeType, Time
    <2>2. now - Window <= e.occurred_at
      <3>1. now' = now \/ now' = now + 1
        BY StoreEffect
      <3>2. now \in Nat /\ e.occurred_at \in Nat
        BY <2>1 DEF Time
      <3>3. QED
        BY <2>1, <3>1, <3>2
    <2>3. ASSUME outbox[e].acked
          PROVE  \E r \in rows : r.env = Sanitize(e)
      BY <2>2, <2>3 DEF AckedQueryable
    <2>4. CASE Appended
      <3>1. PICK f \in Envelopes : recordAccess(f)
        BY <2>4 DEF Appended
      <3>2. rows \subseteq rows'
        BY <3>1 DEF recordAccess, SealAndAppend, Append
      <3>3. CASE f # e
        <4>1. outbox'[e].acked = outbox[e].acked
          BY <3>1, <3>3 DEF recordAccess, TypeOK, RoutesTypeOK
        <4>2. QED
          BY <2>3, <3>2, <4>1
      <3>4. CASE f = e
        <4>1. CASE byEventID(e.event_id) # {}
          <5>1. PICK r \in rows : r.env.event_id = e.event_id
            BY <4>1 DEF byEventID
          <5>2. r.env \in StoredEnvelopes
            BY DEF TypeOK, StoreTypeOK, RowType
          <5>3. r.env = Sanitize(e)
            BY <5>1, <5>2, StoredFacts
          <5>4. QED
            BY <3>2, <5>3
        <4>2. CASE byEventID(e.event_id) = {}
          <5> DEFINE x == [row_id |-> nextRow, env |-> Sanitize(e), seal |-> Seal(Sanitize(e))]
          <5>1. byEventID(Sanitize(e).event_id) = {}
            BY <4>2, SanitizeKeeps
          <5>2. rows' = rows \cup {x}
            BY <3>1, <3>4, <5>1 DEF recordAccess, SealAndAppend, Append
          <5>3. x.env = Sanitize(e)
            OBVIOUS
          <5>4. QED
            BY <5>2, <5>3
        <4>3. QED
          BY <4>1, <4>2
      <3>5. QED
        BY <3>3, <3>4
    <2>5. CASE ~Appended
      <3>1. PICK r \in rows : r.env = Sanitize(e)
        BY <2>3, <2>5, StoreEffect
      <3>2. r.env.occurred_at = e.occurred_at
        BY <3>1, SanitizeKeeps
      <3>3. CASE Purged
        <4>1. PICK t \in Window..MaxTime : t <= now /\ PurgeExpired(Cutoff(t))
          BY <3>3 DEF Purged
        <4>2. t - Window \in Time /\ t - Window <= e.occurred_at
          <5>1. t - Window \in Time
            BY CalendarFacts
          <5>2. t \in Nat /\ now \in Nat /\ e.occurred_at \in Nat
            BY <2>1 DEF Time
          <5>3. QED
            BY <2>1, <2>2, <4>1, <5>1, <5>2
        <4>3. Cutoff(t) <= PeriodOf(r) /\ Cutoff(t) \in Nat /\ PeriodOf(r) \in Nat
          BY <2>1, <3>2, <4>2, CalendarFacts DEF Cutoff, PeriodOf
        <4>4. r \in rows'
          BY <4>1, <4>3 DEF PurgeExpired, Expired
        <4>5. QED
          BY <3>1, <4>4
      <3>4. CASE Saved \/ HoldChanged \/ UNCHANGED storeVars
        BY <3>1, <3>4 DEF Saved, SaveSeals, SaveCheckpoint, HoldChanged, SetLegalHold, storeVars
      <3>5. QED
        BY <2>5, <3>3, <3>4, StoreEffect
    <2>6. QED
      BY <2>4, <2>5
  <1>3. QED
    BY <1>1, <1>2, TypeCorrect, StaleLocals, PTL DEF Spec

\* No checkpoint is ever written for a month that is not over.
THEOREM OnlyClosedSealed == Spec => []CheckpointOnlyClosed
  <1>1. Init => CheckpointOnlyClosed
    BY DEF Init, StoreInit, CheckpointOnlyClosed
  <1>2. TypeOK /\ LocalsStale /\ CheckpointOnlyClosed /\ [Next]_vars => CheckpointOnlyClosed'
    <2> SUFFICES ASSUME TypeOK, LocalsStale, CheckpointOnlyClosed, [Next]_vars
                 PROVE  CheckpointOnlyClosed'
      OBVIOUS
    <2>1. /\ now \in Time /\ now' \in Time /\ now <= now'
      <3>1. now' \in Window..MaxTime
        BY TypeStep DEF TypeOK, ClockTypeOK
      <3>2. QED
        BY <3>1, StoreEffect, CalendarFacts DEF TypeOK, ClockTypeOK
    <2>2. Period(now) <= Period(now') /\ Period(now) \in Nat /\ Period(now') \in Nat
      BY <2>1, CalendarFacts
    <2>3. CASE Saved
      <3>1. PICK i \in Instances, outcome \in Outcomes : SaveSeals(i, outcome)
        BY <2>3 DEF Saved
      <3>2. task[i].period \in task[i].todo /\ task[i].period < Period(task[i].now)
        BY <3>1 DEF SaveSeals, TypeOK, TaskTypeOK, LocalsStale
      <3>3. /\ task[i].now \in Time /\ task[i].now <= now
            /\ task[i].period \in Nat
        BY <3>2, CalendarFacts DEF TypeOK, TaskTypeOK, TaskType, LocalsStale
      <3>4. task[i].period < Period(now')
        BY <2>1, <2>2, <3>2, <3>3, CalendarFacts
      <3>5. \A p \in Periods : p # task[i].period => checkpoints'[p] = checkpoints[p]
        BY <3>1 DEF SaveSeals, SaveCheckpoint, storeVars, TypeOK, StoreTypeOK
      <3>6. QED
        BY <2>2, <3>4, <3>5, CalendarFacts DEF CheckpointOnlyClosed
    <2>4. CASE Appended \/ Purged \/ HoldChanged \/ UNCHANGED storeVars
      <3>1. UNCHANGED checkpoints
        BY <2>4 DEF Appended, recordAccess, SealAndAppend, Append, Purged, PurgeExpired,
             HoldChanged, SetLegalHold, storeVars
      <3>2. ASSUME NEW p \in Periods, checkpoints'[p] # {}
            PROVE  p < Period(now')
        <4>1. p < Period(now) /\ p \in Nat
          BY <3>1, <3>2, CalendarFacts DEF CheckpointOnlyClosed
        <4>2. QED
          BY <2>2, <4>1
      <3>3. QED
        BY <3>2 DEF CheckpointOnlyClosed, Periods
    <2>5. QED
      BY <2>3, <2>4, StoreEffect
  <1>3. QED
    BY <1>1, <1>2, TypeCorrect, StaleLocals, PTL DEF Spec

-----------------------------------------------------------------------------
\* The ledger. What it shows of the store: the envelopes on record.
Log == {r.env : r \in rows}

\* The first state of the service is the first of the ledger.
LEMMA InitIsLedgerInit == Init => L!LedgerInit
  BY DEF Init, ClockInit, StoreInit, L!LedgerInit, L!ClockInit, L!Periods, L!Time,
       Periods, Time

\* An append puts an access on record, or finds it there.
LEMMA AppendRecords ==
    ASSUME TypeOK, Appended
    PROVE  L!Record \/ UNCHANGED <<now, Log, checkpoints, holds>>
  <1>1. PICK e \in Envelopes : recordAccess(e) /\ UNCHANGED now
    BY DEF Appended
  <1>2. Validate(e) /\ UNCHANGED <<checkpoints, holds>>
    BY <1>1 DEF recordAccess, SealAndAppend, Append
  <1>3. CASE byEventID(Sanitize(e).event_id) # {}
    <2>1. UNCHANGED rows
      BY <1>1, <1>3 DEF recordAccess, SealAndAppend, Append
    <2>2. QED
      BY <1>1, <1>2, <2>1 DEF Log
  <1>4. CASE byEventID(Sanitize(e).event_id) = {}
    <2> DEFINE x == [row_id |-> nextRow, env |-> Sanitize(e), seal |-> Seal(Sanitize(e))]
    <2>1. rows' = rows \cup {x}
      BY <1>1, <1>4 DEF recordAccess, SealAndAppend, Append
    <2>2. x.env = Sanitize(e)
      OBVIOUS
    <2>3. Log' = Log \cup {Sanitize(e)}
      BY <2>1, <2>2 DEF Log
    <2>4. \A f \in Log : f.event_id # e.event_id
      BY <1>4, SanitizeKeeps DEF Log, byEventID
    <2>5. L!Validate(e) /\ L!Sanitize(e) = Sanitize(e)
      BY <1>2 DEF Validate, L!Validate, Sanitize, L!Sanitize, Truncate, L!Truncate
    <2>6. QED
      BY <1>1, <1>2, <2>3, <2>4, <2>5 DEF L!Record, Log
  <1>5. QED
    BY <1>3, <1>4

\* A purge, with a cutoff read at any earlier instant, forgets only what has
\* left the window by now and concerns nobody under hold.
LEMMA PurgeForgets ==
    ASSUME TypeOK, Purged
    PROVE  L!Forget
  <1>1. PICK t \in Window..MaxTime : t <= now /\ PurgeExpired(Cutoff(t))
    BY DEF Purged
  <1>2. UNCHANGED <<now, checkpoints, holds>>
    BY <1>1 DEF Purged, PurgeExpired
  <1>3. Log' \subseteq Log
    BY <1>1 DEF PurgeExpired, Log
  <1>4. ASSUME NEW e \in Log, e \notin Log'
        PROVE  e.occurred_at < now - Window /\ e.data_subjects \cap holds = {}
    <2>1. PICK r \in rows : r.env = e
      BY DEF Log
    <2>2. r \in Expired(Cutoff(t))
      BY <1>1, <1>4, <2>1 DEF PurgeExpired, Log
    <2>3. /\ r.env.occurred_at \in Time
          /\ Period(r.env.occurred_at) < Cutoff(t)
          /\ e.data_subjects \cap holds = {}
      BY <2>1, <2>2, StoreFacts DEF TypeOK, Expired, heldLocked
    <2>4. r.env.occurred_at < t - Window
      <3>1. t - Window \in Time /\ Period(t - Window) = Cutoff(t)
        BY CalendarFacts DEF Cutoff
      <3>2. ~(t - Window <= r.env.occurred_at)
        BY <2>3, <3>1, CalendarFacts
      <3>3. QED
        BY <2>3, <3>1, <3>2 DEF Time
    <2>5. now \in Int /\ t \in Int /\ Window \in Int /\ r.env.occurred_at \in Int
      BY <2>3, CalendarFacts DEF TypeOK, ClockTypeOK, Time
    <2>6. r.env.occurred_at < now - Window
      BY <1>1, <2>4, <2>5
    <2>7. QED
      BY <2>1, <2>3, <2>6
  <1>5. QED
    BY <1>2, <1>3, <1>4 DEF L!Forget, Log

\* A saved checkpoint seals a closed period that has no seal, or nothing.
LEMMA SaveSealsPeriod ==
    ASSUME TypeOK, LocalsStale, Saved
    PROVE  L!SealPeriod \/ UNCHANGED <<now, Log, checkpoints, holds>>
  <1>1. PICK i \in Instances, outcome \in Outcomes :
          SaveSeals(i, outcome) /\ UNCHANGED <<now, routeVars>>
    BY DEF Saved
  <1> DEFINE p == task[i].period
  <1>2. p \in Periods /\ p < Period(now)
    <2>1. p \in task[i].todo /\ p < Period(task[i].now)
      BY <1>1 DEF SaveSeals, TypeOK, TaskTypeOK, LocalsStale
    <2>2. /\ task[i].now \in Window..MaxTime /\ task[i].now <= now
          /\ task[i].todo \subseteq Periods /\ now \in Window..MaxTime
      BY DEF TypeOK, TaskTypeOK, TaskType, LocalsStale, ClockTypeOK
    <2>3. /\ Period(task[i].now) <= Period(now) /\ Period(now) \in Nat
          /\ Period(task[i].now) \in Nat /\ p \in Nat
      BY <2>1, <2>2, CalendarFacts
    <2>4. QED
      BY <2>1, <2>2, <2>3
  <1>3. UNCHANGED <<now, rows, holds>>
    BY <1>1 DEF SaveSeals, SaveCheckpoint, storeVars
  <1>4. \/ UNCHANGED checkpoints
        \/ checkpoints[p] = {} /\ checkpoints' = [checkpoints EXCEPT ![p] = checkpoints'[p]]
    BY <1>1, <1>2 DEF SaveSeals, SaveCheckpoint, storeVars, TypeOK, StoreTypeOK
  <1>5. L!Periods = Periods /\ L!Period(now) = Period(now)
    BY DEF L!Periods, Periods, L!Time, Time, L!Period, Period
  <1>6. QED
    BY <1>2, <1>3, <1>4, <1>5 DEF L!SealPeriod, Log

\* Every step of the service is a step of the ledger or a stutter of it.
LEMMA StepIsLedgerStep ==
    ASSUME TypeOK, LocalsStale, [Next]_vars
    PROVE  [L!LedgerNext]_(L!ledgerVars)
  <1>1. CASE Appended
    BY <1>1, AppendRecords DEF L!LedgerNext, L!ledgerVars, Log
  <1>2. CASE Purged
    BY <1>2, PurgeForgets DEF L!LedgerNext
  <1>3. CASE Saved
    BY <1>3, SaveSealsPeriod DEF L!LedgerNext, L!ledgerVars, Log
  <1>4. CASE HoldChanged
    <2>1. PICK sub \in Subjects, hold \in BOOLEAN : SetLegalHold(sub, hold) /\ UNCHANGED now
      BY <1>4 DEF HoldChanged
    <2>2. holds' \in {holds \cup {sub}, holds \ {sub}}
      BY <2>1 DEF SetLegalHold
    <2>3. UNCHANGED <<now, rows, checkpoints>>
      BY <2>1 DEF SetLegalHold
    <2>4. QED
      BY <2>2, <2>3 DEF L!LedgerNext, L!ChangeHold
  <1>5. CASE UNCHANGED storeVars /\ now' = now
    BY <1>5 DEF L!ledgerVars, storeVars
  <1>6. CASE UNCHANGED storeVars /\ now' = now + 1
    <2>1. now < MaxTime
      <3>1. now' \in Window..MaxTime /\ now \in Window..MaxTime
        BY TypeStep DEF TypeOK, ClockTypeOK
      <3>2. QED
        BY <1>6, <3>1, CalendarFacts
    <2>2. QED
      BY <1>6, <2>1 DEF L!LedgerNext, L!TimePasses, L!Tick, storeVars
  <1>7. QED
    BY <1>1, <1>2, <1>3, <1>4, <1>5, <1>6, StoreEffect

\* The service implements the ledger: accesses enter once and whole, leave only
\* past the window and not under hold, and periods are sealed once, after they
\* have closed, whatever sweeps, handlers, retries and failures interleave.
THEOREM LedgerImplemented == Spec => ImplementsLedger
  <1>1. Spec => L!LedgerInit /\ [][L!LedgerNext]_(L!ledgerVars)
    BY InitIsLedgerInit, StepIsLedgerStep, TypeCorrect, StaleLocals, PTL DEF Spec
  <1>2. QED
    BY <1>1 DEF ImplementsLedger, L!LedgerSpec
=============================================================================
