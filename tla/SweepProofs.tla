---------------------------- MODULE SweepProofs ----------------------------
(***************************************************************************)
(* Seal before purging, and what the events of the checkpoints say.        *)
(*                                                                         *)
(* A sweep owes a checkpoint to every row that was there when it listed    *)
(* the periods: Debt says the row's period is still on its list, sealed,   *)
(* or one whose own calls failed.  At the purge the list is empty          *)
(* (NothingLeft), so whatever the sweep deletes of those rows is sealed or *)
(* of a period it could not seal.                                          *)
(***************************************************************************)
EXTENDS SafetyProofs

\* What sweep i owes: SweepOwes for one instance, wherever it has got to.
Debt(i) ==
    \A r \in rows :
      r.row_id < ghost[i].mark /\ PeriodOf(r) < Period(task[i].now)
        => \/ PeriodOf(r) \in task[i].todo \cup ghost[i].failed
           \/ checkpoints[PeriodOf(r)] # {}

\* A sweep reaches the purge only when its list of periods is used up.
NothingLeft == \A i \in Instances : task[i].pc = "purge" => task[i].todo = {}

\* Checkpoints stay, and a row that is new has the next identifier.
LEMMA StoreGrows ==
    ASSUME TypeOK, LocalsStale, [Next]_vars
    PROVE  /\ \A p \in Periods : checkpoints[p] # {} => checkpoints'[p] # {}
           /\ \A r \in rows' : r \in rows \/ r.row_id = nextRow
  <1>1. CASE Appended
    <2>1. PICK e \in Envelopes : SealAndAppend(e)
      BY <1>1 DEF Appended, recordAccess
    <2>2. QED
      BY <2>1 DEF SealAndAppend, Append
  <1>2. CASE Saved
    <2>1. PICK i \in Instances, outcome \in Outcomes : SaveSeals(i, outcome)
      BY <1>2 DEF Saved
    <2>2. \A p \in Periods : checkpoints[p] # {} => checkpoints'[p] # {}
      BY <2>1 DEF SaveSeals, SaveCheckpoint, storeVars, TypeOK, StoreTypeOK
    <2>3. QED
      BY <2>1, <2>2 DEF SaveSeals, SaveCheckpoint, storeVars
  <1>3. CASE Purged \/ HoldChanged \/ UNCHANGED storeVars
    BY <1>3 DEF Purged, PurgeExpired, HoldChanged, SetLegalHold, storeVars
  <1>4. QED
    BY <1>1, <1>2, <1>3, StoreEffect

\* A debt is kept by every step that strikes a period off the list only when
\* it is sealed or its own call has failed.
LEMMA DebtKept ==
    ASSUME TypeOK, LocalsStale, [Next]_vars, NEW i \in Instances, Debt(i),
           task'[i].now = task[i].now, ghost'[i].mark = ghost[i].mark,
           \A p \in task[i].todo \cup ghost[i].failed :
             p \in task'[i].todo \cup ghost'[i].failed \/ checkpoints'[p] # {}
    PROVE  Debt(i)'
  <1> SUFFICES ASSUME NEW r \in rows', r.row_id < ghost[i].mark,
                      PeriodOf(r) < Period(task[i].now)
               PROVE  \/ PeriodOf(r) \in task'[i].todo \cup ghost'[i].failed
                      \/ checkpoints'[PeriodOf(r)] # {}
    BY DEF Debt, PeriodOf, Period
  <1>1. r \in rows
    <2>1. ghost[i].mark <= nextRow /\ ghost[i].mark \in Nat /\ nextRow \in Nat
      BY DEF LocalsStale, TypeOK, TaskTypeOK, GhostType, StoreTypeOK
    <2>2. r.row_id # nextRow
      BY <2>1
    <2>3. QED
      BY <2>2, StoreGrows
  <1>2. PeriodOf(r) \in Periods
    BY <1>1, StoreFacts DEF TypeOK
  <1>3. \/ PeriodOf(r) \in task[i].todo \cup ghost[i].failed
        \/ checkpoints[PeriodOf(r)] # {}
    BY <1>1 DEF Debt
  <1>4. QED
    BY <1>2, <1>3, StoreGrows

-----------------------------------------------------------------------------
\* What a step of instance i does to its own debt and list.
LEMMA OwnStep ==
    ASSUME TypeOK, LocalsStale, SweepOwes, NothingLeft, NEW i \in Instances,
           SweepStep(i), UNCHANGED <<now, routeVars>>
    PROVE  /\ task'[i].pc \in {"read", "save", "purge"} => Debt(i)'
           /\ task'[i].pc = "purge" => task'[i].todo = {}
  <1> USE DEF TypeOK, TaskTypeOK
  <1>1. [Next]_vars
    BY DEF Next
  <1>2. CASE StartSweep(i)
    BY <1>2 DEF StartSweep, Idle
  <1>3. ASSUME EndSweep(i) PROVE task'[i].pc = "idle"
    BY <1>3 DEF EndSweep, Idle
  <1>4. ASSUME NEW p, NextPeriod(i, p)
        PROVE  /\ task'[i].now = task[i].now
               /\ task'[i].todo = task[i].todo \ {p}
               /\ task'[i].pc = "purge" => task'[i].todo = {}
    BY <1>4 DEF NextPeriod, Idle, PcAfter
  <1>5. ASSUME NEW p, SkipPeriod(i, p), Debt(i)
        PROVE  /\ Debt(i)'
               /\ task'[i].pc = "purge" => task'[i].todo = {}
    <2>1. NextPeriod(i, p)
      BY <1>5 DEF SkipPeriod
    <2>2. /\ ghost'[i].mark = ghost[i].mark
          /\ ghost'[i].failed = ghost[i].failed \cup {p}
      BY <1>5 DEF SkipPeriod, GhostType
    <2>3. QED
      BY <1>1, <1>4, <1>5, <2>1, <2>2, DebtKept
  <1>6. ASSUME NEW outcome \in Outcomes, ListPending(i, outcome)
        PROVE  /\ Debt(i)'
               /\ task'[i].pc = "purge" => task'[i].todo = {}
    <2>1. /\ ghost'[i].mark = IF outcome = "ok" THEN nextRow ELSE 0
          /\ task'[i].now = task[i].now /\ UNCHANGED <<rows, checkpoints>>
      BY <1>6 DEF ListPending, storeVars, TaskType, GhostType
    <2>2. task'[i].pc = "purge" => task'[i].todo = {}
      BY <1>6 DEF ListPending, PcAfter, TaskType
    <2>3. CASE outcome = "ok"
      <3>1. task'[i].todo = PendingCheckpointPeriods(Period(task[i].now))
        BY <1>6, <2>3 DEF ListPending, TaskType
      <3>2. Debt(i)'
        BY <2>1, <3>1 DEF Debt, PendingCheckpointPeriods, PeriodOf, Period
      <3>3. QED
        BY <2>2, <3>2
    <2>4. CASE outcome # "ok"
      <3>1. \A r \in rows : r.row_id \in Nat
        BY DEF StoreTypeOK, RowType
      <3>2. \A r \in rows' : ~(r.row_id < ghost'[i].mark)
        BY <2>1, <2>4, <3>1
      <3>3. QED
        BY <2>2, <3>2 DEF Debt
    <2>5. QED
      BY <2>3, <2>4
  <1>7. ASSUME NEW outcome \in Outcomes, ReadSeals(i, outcome)
        PROVE  /\ Debt(i)'
               /\ task'[i].pc = "purge" => task'[i].todo = {}
    <2>1. PICK p \in task[i].todo :
            \/ /\ task' = [task EXCEPT ![i].pc = "save", ![i].period = p,
                                       ![i].read = SealsForPeriod(p)]
               /\ UNCHANGED ghost
            \/ SkipPeriod(i, p)
      BY <1>7 DEF ReadSeals
    <2>2. Debt(i)
      BY <1>7 DEF ReadSeals, SweepOwes, Debt
    <2>3. CASE SkipPeriod(i, p)
      BY <1>5, <2>2, <2>3
    <2>4. CASE ~SkipPeriod(i, p)
      <3>1. /\ task'[i].now = task[i].now /\ task'[i].todo = task[i].todo
            /\ task'[i].pc = "save" /\ ghost' = ghost
        BY <2>1, <2>4 DEF TaskType
      <3>2. QED
        BY <1>1, <2>2, <3>1, DebtKept
    <2>5. QED
      BY <2>3, <2>4
  <1>8. ASSUME NEW outcome \in Outcomes, SaveSeals(i, outcome)
        PROVE  /\ Debt(i)'
               /\ task'[i].pc = "purge" => task'[i].todo = {}
    <2>1. Debt(i)
      BY <1>8 DEF SaveSeals, SweepOwes, Debt
    <2>2. CASE outcome # "ok"
      BY <1>5, <1>8, <2>1, <2>2 DEF SaveSeals
    <2>3. CASE outcome = "ok"
      <3>1. NextPeriod(i, task[i].period) /\ ghost' = ghost
        BY <1>8, <2>3 DEF SaveSeals
      <3>2. task[i].period \in Periods
        BY <1>8 DEF SaveSeals, TaskType
      <3>3. checkpoints'[task[i].period] # {}
        BY <1>8, <2>3, <3>2 DEF SaveSeals, SaveCheckpoint, StoreTypeOK
      <3>4. /\ task'[i].now = task[i].now
            /\ task'[i].todo = task[i].todo \ {task[i].period}
            /\ task'[i].pc = "purge" => task'[i].todo = {}
        BY <1>4, <3>1
      <3>5. \A p \in task[i].todo \cup ghost[i].failed :
              p \in task'[i].todo \cup ghost'[i].failed \/ checkpoints'[p] # {}
        BY <3>1, <3>3, <3>4
      <3>6. QED
        BY <1>1, <2>1, <3>1, <3>4, <3>5, DebtKept
    <2>4. QED
      BY <2>2, <2>3
  <1>9. ASSUME NEW outcome \in Outcomes, Purge(i, outcome)
        PROVE  task'[i].pc \in {"idle", "evidence"}
    BY <1>3, <1>9 DEF Purge, TaskType
  <1>10. ASSUME NEW outcome \in Outcomes, SweepEvidence(i, outcome)
         PROVE  task'[i].pc = "idle"
    BY <1>3, <1>10 DEF SweepEvidence
  <1>11. CASE Crash(i)
    BY <1>3, <1>11 DEF Crash
  <1>12. QED
    BY <1>2, <1>6, <1>7, <1>8, <1>9, <1>10, <1>11 DEF SweepStep

LEMMA OwesStep ==
    TypeOK /\ LocalsStale /\ SweepOwes /\ NothingLeft /\ [Next]_vars
      => SweepOwes' /\ NothingLeft'
  <1> SUFFICES ASSUME TypeOK, LocalsStale, SweepOwes, NothingLeft, [Next]_vars,
                      NEW i \in Instances
               PROVE  /\ task'[i].pc \in {"read", "save", "purge"} => Debt(i)'
                      /\ task'[i].pc = "purge" => task'[i].todo = {}
    BY DEF SweepOwes, NothingLeft, Debt
  <1>1. CASE task'[i] = task[i] /\ ghost'[i] = ghost[i]
    BY <1>1, DebtKept DEF SweepOwes, Debt, NothingLeft
  <1>2. ASSUME NEW j \in Instances, SweepStep(j), UNCHANGED <<now, routeVars>>
        PROVE  (task'[i] = task[i] /\ ghost'[i] = ghost[i]) \/ j = i
    BY <1>2, SweepLocals
  <1>3. ASSUME SweepStep(i), UNCHANGED <<now, routeVars>>
        PROVE  /\ task'[i].pc \in {"read", "save", "purge"} => Debt(i)'
               /\ task'[i].pc = "purge" => task'[i].todo = {}
    BY <1>3, OwnStep
  <1>4. CASE Tick /\ UNCHANGED <<storeVars, evidenceVars, eventVars, taskVars, routeVars>>
    BY <1>1, <1>4 DEF taskVars
  <1>5. CASE RouteStep /\ UNCHANGED <<now, taskVars>>
    BY <1>1, <1>5 DEF taskVars
  <1>6. CASE UNCHANGED vars
    BY <1>1, <1>6 DEF vars, taskVars
  <1>7. QED
    BY <1>1, <1>2, <1>3, <1>4, <1>5, <1>6 DEF Next

\* A failed call costs its own period only: a sweep still has on its list, or
\* finds sealed, the period of every row that was stored when it listed the
\* periods, the periods whose own calls failed apart.
THEOREM OwesKept == Spec => [](SweepOwes /\ NothingLeft)
  <1>1. Init => SweepOwes /\ NothingLeft
    BY DEF Init, TaskInit, Idle, SweepOwes, NothingLeft
  <1>2. QED
    BY <1>1, OwesStep, TypeCorrect, StaleLocals, PTL DEF Spec

\* Seal before purging: of the rows stored when it listed the periods, a sweep
\* deletes only rows of periods with a checkpoint or whose own calls failed,
\* with any number of instances sweeping and purging beside it.
THEOREM SealedBeforePurged == Spec => SweepPurgesSealed
  <1> DEFINE Sealed ==
        \A i \in Instances :
          task[i].pc = "purge" /\ task'[i].pc # "purge" =>
            \A r \in rows \ rows' :
              r.row_id < ghost[i].mark =>
                PeriodOf(r) \in ghost[i].failed \/ checkpoints[PeriodOf(r)] # {}
  <1>1. TypeOK /\ LocalsStale /\ SweepOwes /\ NothingLeft /\ [Next]_vars => [Sealed]_vars
    <2> SUFFICES ASSUME TypeOK, LocalsStale, SweepOwes, NothingLeft, Next,
                        NEW i \in Instances, task[i].pc = "purge", task'[i].pc # "purge",
                        NEW r \in rows, r \notin rows', r.row_id < ghost[i].mark
                 PROVE  PeriodOf(r) \in ghost[i].failed \/ checkpoints[PeriodOf(r)] # {}
      OBVIOUS
    <2>1. SweepStep(i)
      <3>1. \A j \in Instances : SweepStep(j) => task'[i] = task[i] \/ j = i
        BY SweepLocals
      <3>2. QED
        BY <3>1 DEF Next, taskVars
    <2>2. PICK outcome \in Outcomes : Purge(i, outcome)
      BY <2>1 DEF SweepStep, StartSweep, ListPending, ReadSeals, SaveSeals, SweepEvidence,
           Crash, storeVars
    <2>3. r \in Expired(Cutoff(task[i].now))
      BY <2>2 DEF Purge, PurgeCall, PurgeExpired, storeVars
    <2>4. PeriodOf(r) < Period(task[i].now)
      <3>1. task[i].now \in Window..MaxTime
        BY DEF TypeOK, TaskTypeOK, TaskType
      <3>2. /\ task[i].now \in Time /\ task[i].now - Window \in Time
            /\ task[i].now - Window <= task[i].now
        BY <3>1, CalendarFacts
      <3>3. Cutoff(task[i].now) <= Period(task[i].now)
        BY <3>2, CalendarFacts DEF Cutoff
      <3>4. /\ PeriodOf(r) \in Nat /\ Cutoff(task[i].now) \in Nat
            /\ Period(task[i].now) \in Nat
        BY <3>1, <3>2, StoreFacts, CalendarFacts DEF TypeOK
      <3>5. QED
        BY <2>3, <3>3, <3>4 DEF Expired
    <2>5. QED
      BY <2>4 DEF SweepOwes, NothingLeft
  <1>2. QED
    BY <1>1, OwesKept, TypeCorrect, StaleLocals, PTL DEF Spec, SweepPurgesSealed

-----------------------------------------------------------------------------
\* Only the save of a checkpoint announces one.
LEMMA OnlySaveAnnounces ==
    ASSUME Next
    PROVE  Saved \/ UNCHANGED written
  <1>1. ASSUME NEW i \in Instances, SweepStep(i), UNCHANGED <<now, routeVars>>
        PROVE  Saved \/ UNCHANGED written
    BY <1>1 DEF SweepStep, StartSweep, ListPending, ReadSeals, Saved, Purge, PurgeCall,
         ReportPurge, RetentionPurge, SweepEvidence, Crash, eventVars
  <1>2. CASE RouteStep
    BY <1>2 DEF RouteStep, Post, RequestFails, recordAccess, placeLegalHold,
         clearLegalHold, LegalHold, purgeStart, purge, PurgeCall, ReportPurge,
         RetentionPurge, verifyPeriodLoad, verifyPeriod, IntegrityMismatch,
         verifyEventPosted, eventVars
  <1>3. QED
    BY <1>1, <1>2 DEF Next, eventVars

\* Checkpoints are write-once.
LEMMA WriteOnce ==
    ASSUME TypeOK, LocalsStale, Next
    PROVE  \A p \in Periods : checkpoints[p] # {} => checkpoints'[p] = checkpoints[p]
  <1>1. CASE Saved
    BY <1>1 DEF Saved, SaveSeals, SaveCheckpoint, storeVars, TypeOK, StoreTypeOK
  <1>2. CASE Appended \/ Purged \/ HoldChanged \/ UNCHANGED storeVars
    BY <1>2 DEF Appended, recordAccess, SealAndAppend, Append, Purged, PurgeExpired,
         HoldChanged, SetLegalHold, storeVars
  <1>3. QED
    BY <1>1, <1>2, StoreEffect

\* The checkpoint_written events agree with the stored checkpoints, whichever
\* of several instances sealing the same period wins.
THEOREM AnnouncedIsStored == Spec => []CheckpointEventMatches
  <1>1. Init => CheckpointEventMatches
    BY DEF Init, EventsInit, CheckpointEventMatches
  <1>2. TypeOK /\ LocalsStale /\ CheckpointEventMatches /\ [Next]_vars
          => CheckpointEventMatches'
    <2> SUFFICES ASSUME TypeOK, LocalsStale, CheckpointEventMatches, Next,
                        NEW w \in written'
                 PROVE  \E cp \in checkpoints'[w.period] : cp.row_count = w.count
      BY DEF CheckpointEventMatches, vars, storeVars, eventVars
    <2>1. CASE w \in written
      <3>1. w.period \in Periods
        BY <2>1 DEF TypeOK
      <3>2. QED
        BY <2>1, <3>1, WriteOnce DEF CheckpointEventMatches
    <2>2. CASE w \notin written
      <3>1. PICK i \in Instances, outcome \in Outcomes : SaveSeals(i, outcome)
        BY <2>2, OnlySaveAnnounces DEF Saved
      <3> DEFINE p == task[i].period
                 cp == [row_count |-> task[i].read.count,
                        seal |-> Checkpoint(task[i].read.seals, task[i].read.count)]
      <3>2. /\ outcome = "ok" /\ checkpoints[p] = {}
            /\ w = [period |-> p, count |-> task[i].read.count]
        BY <2>2, <3>1 DEF SaveSeals, AnnounceCheckpoint, CheckpointWritten, created,
             eventVars
      <3>3. p \in Periods
        BY <3>1 DEF SaveSeals, TypeOK, TaskTypeOK, TaskType
      <3>4. checkpoints'[p] = {cp}
        BY <3>1, <3>2, <3>3 DEF SaveSeals, SaveCheckpoint, TypeOK, StoreTypeOK
      <3>5. cp.row_count = w.count /\ w.period = p
        BY <3>2
      <3>6. QED
        BY <3>4, <3>5
    <2>3. QED
      BY <2>1, <2>2
  <1>3. QED
    BY <1>1, <1>2, TypeCorrect, StaleLocals, PTL DEF Spec
=============================================================================
