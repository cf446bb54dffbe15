--------------------------- MODULE RetentionTask ---------------------------
(***************************************************************************)
(* The background sweep of every running instance of the service.          *)
(*                                                                         *)
(* A sweep reads the clock once, lists the closed periods without a        *)
(* checkpoint, and for each reads the seals and then saves a checkpoint:   *)
(* two store calls with nothing held in between.  It then purges with the  *)
(* cutoff of the instant it started at, and sweeps the verify evidence.    *)
(* A call of the store returns ok, fails without effect ("fail"), or takes *)
(* effect while the caller gets an error ("lost": the connection broke, or *)
(* the process died before it could report).                               *)
(***************************************************************************)
EXTENDS AccessStore, VerifyEvidence, Events

CONSTANTS
    Instances,      \* running instances of the service
    Faults,         \* the ways a store call can go wrong here
    Crashes         \* whether instances crash and restart

ASSUME TaskAssumption ==
    /\ Faults \subseteq {"fail", "lost"}
    /\ Crashes \in BOOLEAN

Outcomes == {"ok"} \cup Faults

VARIABLES
    task,           \* the local state of each instance's sweep
    ghost           \* history: what is known of each sweep under way

taskVars == <<task, ghost>>

\* The sweep at rest: between ticks, or in a process just started.
Idle == [pc |-> "idle", now |-> Window, todo |-> {}, period |-> 0,
         read |-> [seals |-> {}, count |-> 0]]

\* mark: the rows with a smaller identifier were stored when the sweep listed
\* the periods (none, if the listing failed); failed: the periods whose own
\* calls failed in this sweep.
NoGhost == [mark |-> 0, failed |-> {}]

TaskType ==
    [pc : {"idle", "list", "read", "save", "purge", "evidence"},
     now : Window..MaxTime, todo : SUBSET Periods, period : Nat,
     read : [seals : SUBSET SealType, count : Nat]]

GhostType == [mark : Nat, failed : SUBSET Periods]

TaskTypeOK ==
    /\ task \in [Instances -> TaskType]
    /\ \A i \in Instances : task[i].pc = "save" => task[i].period \in task[i].todo
    /\ ghost \in [Instances -> GhostType]

TaskInit ==
    /\ task = [i \in Instances |-> Idle]
    /\ ghost = [i \in Instances |-> NoGhost]

-----------------------------------------------------------------------------
\* Where the sweep goes when it has the given periods left to seal.
PcAfter(todo) == IF todo = {} THEN "purge" ELSE "read"

\* The loop over the pending periods goes on without p.
NextPeriod(i, p) ==
    LET left == task[i].todo \ {p} IN
    task' = [task EXCEPT ![i] = [Idle EXCEPT !.pc = PcAfter(left),
                                             !.now = task[i].now, !.todo = left]]

\* Mutant of SkipPeriod: the loop is left at the first error.
SkipPeriod_Break(i, p) ==
    /\ task' = [task EXCEPT ![i] = [Idle EXCEPT !.pc = "purge", !.now = task[i].now]]
    /\ ghost' = [ghost EXCEPT ![i].failed = @ \cup {p}]

\* An error on p is logged: the period is left for the next sweep.
SkipPeriod(i, p) ==
    /\ NextPeriod(i, p)
    /\ ghost' = [ghost EXCEPT ![i].failed = @ \cup {p}]

EndSweep(i) ==
    /\ task' = [task EXCEPT ![i] = Idle]
    /\ ghost' = [ghost EXCEPT ![i] = NoGhost]

-----------------------------------------------------------------------------
\* The ticker fires, or the process has just started: runOnce reads the clock.
StartSweep(i) ==
    /\ task[i].pc = "idle"
    /\ task' = [task EXCEPT ![i] = [Idle EXCEPT !.pc = "list", !.now = now]]
    /\ UNCHANGED <<ghost, storeVars, evidenceVars, eventVars>>

\* Mutant of ListPending: the current month is listed as well.
ListPending_OpenMonth(i, outcome) ==
    /\ task[i].pc = "list"
    /\ LET pending == IF outcome = "ok"
                      THEN PendingCheckpointPeriods(Period(task[i].now) + 1)
                      ELSE {}
       IN /\ task' = [task EXCEPT ![i].pc = PcAfter(pending), ![i].todo = pending]
          /\ ghost' = [ghost EXCEPT ![i].mark = IF outcome = "ok" THEN nextRow ELSE 0]
    /\ UNCHANGED <<storeVars, evidenceVars, eventVars>>

\* The periods to seal are listed; after an error there are none, and the
\* sweep goes on to the purge.
ListPending(i, outcome) ==
    /\ task[i].pc = "list"
    /\ LET pending == IF outcome = "ok"
                      THEN PendingCheckpointPeriods(Period(task[i].now))
                      ELSE {}
       IN /\ task' = [task EXCEPT ![i].pc = PcAfter(pending), ![i].todo = pending]
          /\ ghost' = [ghost EXCEPT ![i].mark = IF outcome = "ok" THEN nextRow ELSE 0]
    /\ UNCHANGED <<storeVars, evidenceVars, eventVars>>

\* checkpoint(), first half: the seals of the earliest period left are read.
ReadSeals(i, outcome) ==
    /\ task[i].pc = "read"
    /\ \E p \in task[i].todo :
         /\ \A q \in task[i].todo : p <= q
         /\ \/ /\ outcome = "ok"
               /\ task' = [task EXCEPT ![i].pc = "save", ![i].period = p,
                                       ![i].read = SealsForPeriod(p)]
               /\ UNCHANGED ghost
            \/ /\ outcome # "ok"
               /\ SkipPeriod(i, p)
    /\ UNCHANGED <<storeVars, evidenceVars, eventVars>>

\* Mutant of AnnounceCheckpoint: the event is emitted whoever stored the
\* checkpoint, with the count this sweep read.
AnnounceCheckpoint_Always(i, outcome) ==
    IF outcome = "ok"
    THEN CheckpointWritten(task[i].period, task[i].read.count)
    ELSE UNCHANGED eventVars

\* The event of a checkpoint is emitted only by the call that created it.
AnnounceCheckpoint(i, outcome) ==
    IF outcome = "ok" /\ created(task[i].period)
    THEN CheckpointWritten(task[i].period, task[i].read.count)
    ELSE UNCHANGED eventVars

\* checkpoint(), second half: the checkpoint over what was read is saved.
SaveSeals(i, outcome) ==
    /\ task[i].pc = "save"
    /\ IF outcome = "fail"
       THEN UNCHANGED storeVars
       ELSE SaveCheckpoint(task[i].period,
                [row_count |-> task[i].read.count,
                 seal |-> Checkpoint(task[i].read.seals, task[i].read.count)])
    /\ AnnounceCheckpoint(i, outcome)
    /\ \/ /\ outcome = "ok"
          /\ NextPeriod(i, task[i].period)
          /\ UNCHANGED ghost
       \/ /\ outcome # "ok"
          /\ SkipPeriod(i, task[i].period)
    /\ UNCHANGED evidenceVars

-----------------------------------------------------------------------------
\* Mutants of ReportPurge: the event counts the rows kept under hold as well;
\* it is emitted only when some rows were kept under hold.
ReportPurge_CountHeld(cutoff, outcome) ==
    IF outcome = "ok"
    THEN RetentionPurge(Cardinality({r \in rows : PeriodOf(r) < cutoff}))
    ELSE UNCHANGED eventVars

ReportPurge_OnlyWithHeld(cutoff, outcome) ==
    IF outcome = "ok" /\ \E r \in rows : PeriodOf(r) < cutoff /\ r \notin Expired(cutoff)
    THEN RetentionPurge(Cardinality(Expired(cutoff)))
    ELSE UNCHANGED eventVars

\* The event of a purge carries the number of rows the store says it deleted.
ReportPurge(cutoff, outcome) ==
    IF outcome = "ok"
    THEN RetentionPurge(Cardinality(Expired(cutoff)))
    ELSE UNCHANGED eventVars

\* One call of PurgeExpired and what its caller reports.
PurgeCall(cutoff, outcome) ==
    /\ IF outcome = "fail" THEN UNCHANGED storeVars ELSE PurgeExpired(cutoff)
    /\ ReportPurge(cutoff, outcome)

\* Mutant of Purge: the clock is read again for the cutoff.
Purge_FreshClock(i, outcome) ==
    /\ task[i].pc = "purge"
    /\ PurgeCall(Cutoff(now), outcome)
    /\ IF outcome = "ok" /\ VerifyRetentionDays > 0
       THEN /\ task' = [task EXCEPT ![i].pc = "evidence"]
            /\ UNCHANGED ghost
       ELSE EndSweep(i)
    /\ UNCHANGED evidenceVars

\* The purge, with the cutoff of the instant the sweep started at.  An error
\* ends the sweep: the verify evidence waits for the next one.
Purge(i, outcome) ==
    /\ task[i].pc = "purge"
    /\ PurgeCall(Cutoff(task[i].now), outcome)
    /\ IF outcome = "ok" /\ VerifyRetentionDays > 0
       THEN /\ task' = [task EXCEPT ![i].pc = "evidence"]
            /\ UNCHANGED ghost
       ELSE EndSweep(i)
    /\ UNCHANGED evidenceVars

SweepEvidence(i, outcome) ==
    /\ task[i].pc = "evidence"
    /\ IF outcome = "fail" THEN UNCHANGED evidenceVars ELSE SweepVerifyExpired
    /\ EndSweep(i)
    /\ UNCHANGED <<storeVars, eventVars>>

\* The process dies; the store is the database's and survives.
Crash(i) ==
    /\ Crashes
    /\ task[i].pc # "idle"
    /\ EndSweep(i)
    /\ UNCHANGED <<storeVars, evidenceVars, eventVars>>

SweepStep(i) ==
    \/ StartSweep(i)
    \/ \E outcome \in Outcomes :
         \/ ListPending(i, outcome)
         \/ ReadSeals(i, outcome)
         \/ SaveSeals(i, outcome)
         \/ Purge(i, outcome)
         \/ SweepEvidence(i, outcome)
    \/ Crash(i)
=============================================================================
