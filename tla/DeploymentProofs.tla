-------------------------- MODULE DeploymentProofs --------------------------
(***************************************************************************)
(* Proofs about Deployment: its two invariants and its refinement of the   *)
(* sweep schedule, for every set of environments and of records and for    *)
(* every number of restarts and outages.                                   *)
(*                                                                         *)
(* The inductive invariant ties what is in the process to where the        *)
(* process is: the goroutine, its ticker and the caller of Stop go through *)
(* four joint states while it serves and stops (TaskInv), and a process    *)
(* that was built from an environment that names a database has its DSN    *)
(* (StoreInv).                                                             *)
(***************************************************************************)
EXTENDS Deployment, TLAPS

Live == proc \in {"serving", "stopping"}

Quiet == ticker = "nil" /\ due = FALSE /\ loop = "none" /\ stopper = "idle"

Sweeping == stopper = "idle" /\ ticker = "running" /\ loop \in {"sweep", "select"}

Sending ==
    /\ stopper = "send" /\ ticker = "stopped" /\ due = FALSE
    /\ loop \in {"sweep", "select"}

Clearing == stopper = "clear" /\ ticker = "stopped" /\ due = FALSE /\ loop = "done"

Returned == stopper = "returned" /\ ticker = "nil" /\ due = FALSE /\ loop = "done"

TaskInv ==
    /\ ~Live => Quiet
    /\ proc = "serving" => Sweeping
    /\ proc = "stopping" => Sweeping \/ Sending \/ Clearing \/ Returned

StoreInv ==
    /\ environ.DSN # "" /\ proc \in {"bound", "built", "serving", "stopping"}
         => conf.dsn # ""
    /\ environ.DSN_FILE /\ proc \in {"built", "serving", "stopping"} => conf.dsn # ""
    /\ NamesDatabase => acked \subseteq db

Inv ==
    /\ DeploymentTypeOK
    /\ TaskInv
    /\ StoreInv

-----------------------------------------------------------------------------
USE DeploymentAssumption, ConfigAssumption

\* No restart and no outage has happened yet.
LEMMA BoundsStartAtZero == 0 \in 0..MaxRestarts /\ 0 \in 0..MaxOutages
OBVIOUS

\* The states the process starts in satisfy the invariant.
LEMMA InitInv == Init => Inv
<1> SUFFICES ASSUME Init PROVE Inv
  OBVIOUS
<1> USE DEF Init, ConfigInit, NewRetentionTask, NewConfiguration
<1>1. ConfigTypeOK
  BY DEF ConfigTypeOK
<1>2. DeploymentTypeOK
  <2>1. restarts \in 0..MaxRestarts /\ outages \in 0..MaxOutages
    BY BoundsStartAtZero
  <2>2. TaskTypeOK
    BY DEF TaskTypeOK
  <2> QED  BY <1>1, <2>1, <2>2 DEF DeploymentTypeOK, ProcStates
<1>3. TaskInv
  BY DEF TaskInv, Live, Quiet
<1>4. StoreInv
  BY DEF StoreInv
<1> QED  BY <1>2, <1>3, <1>4 DEF Inv

\* An end of the process, orderly or not, leaves nothing of it behind.
LEMMA EndsInv ==
    ASSUME Inv, NEW how \in {"exited", "crashed"}, ProcessEnds(how),
           restarts' \in 0..MaxRestarts
    PROVE  Inv'
<1>1. DeploymentTypeOK'
  BY DEF Inv, DeploymentTypeOK, ConfigTypeOK, TaskTypeOK, ProcStates, ProcessEnds,
         NewConfiguration
<1>2. TaskInv'
  BY DEF TaskInv, ProcessEnds, Live, Quiet
<1>3. StoreInv'
  BY DEF Inv, StoreInv, ProcessEnds, NamesDatabase
<1> QED  BY <1>1, <1>2, <1>3 DEF Inv

\* The task's own steps keep it within its joint states.
LEMMA TaskStepInv == Inv /\ BackgroundStep => Inv'
<1> SUFFICES ASSUME Inv, BackgroundStep PROVE Inv'
  OBVIOUS
<1> USE DEF BackgroundStep, configVars, dataVars
<1>1. StoreInv'
  BY DEF Inv, StoreInv, NamesDatabase
<1>2. DeploymentTypeOK' /\ TaskInv'
  <2> USE DEF Inv, DeploymentTypeOK, ConfigTypeOK, TaskTypeOK, TaskInv, Live, Quiet,
              Sweeping, Sending, Clearing, Returned
  <2>1. CASE TickerFires    BY <2>1 DEF TickerFires
  <2>2. CASE SweepEnds      BY <2>2 DEF SweepEnds
  <2>3. CASE TickReceived   BY <2>3 DEF TickReceived
  <2>4. CASE StopReceived   BY <2>4 DEF StopReceived
  <2>5. CASE StopReturns    BY <2>5 DEF StopReturns
  <2> QED  BY <2>1, <2>2, <2>3, <2>4, <2>5 DEF TaskStep
<1> QED  BY <1>1, <1>2 DEF Inv

\* Every step of the deployment preserves the invariant.
LEMMA NextInv == Inv /\ [Next]_vars => Inv'
<1> SUFFICES ASSUME Inv, [Next]_vars PROVE Inv'
  OBVIOUS
<1> USE DEF configVars, dataVars, taskVars
<1>1. CASE Boot
  BY <1>1 DEF Boot, Down, Inv, DeploymentTypeOK, ConfigTypeOK, TaskTypeOK, ProcStates,
              TaskInv, Live, Quiet, StoreInv, NamesDatabase
<1>2. CASE ReadKey
  <2>1. ConfigTypeOK'
    BY <1>2 DEF ReadKey, BindKey, LoadRemoteSecret, Inv, DeploymentTypeOK, ConfigTypeOK,
                EnvironType
  <2>2. conf'.dsn = conf.dsn
    BY <1>2 DEF ReadKey, BindKey, Inv, DeploymentTypeOK, ConfigTypeOK
  <2> QED
    BY <1>2, <2>1, <2>2 DEF ReadKey, BindKey, Inv, DeploymentTypeOK, TaskTypeOK, ProcStates,
              TaskInv, Live, Quiet, StoreInv, NamesDatabase
<1>3. CASE ReadDSN
  <2>1. ConfigTypeOK'
    BY <1>3 DEF ReadDSN, BindDSN, LoadRemoteSecret, Inv, DeploymentTypeOK, ConfigTypeOK,
                EnvironType
  <2>2. environ.DSN # "" => conf'.dsn # ""
    BY <1>3 DEF ReadDSN, BindDSN, Inv, DeploymentTypeOK, ConfigTypeOK
  <2> QED
    BY <1>3, <2>1, <2>2 DEF ReadDSN, BindDSN, Inv, DeploymentTypeOK, TaskTypeOK, ProcStates,
              TaskInv, Live, Quiet, StoreInv, NamesDatabase
<1>4. CASE New
  <2>1. CASE Validate
    BY <1>4, <2>1 DEF New, Validate, refuseEmptyFileSecret, Inv, DeploymentTypeOK,
              ConfigTypeOK, TaskTypeOK, ProcStates, TaskInv, Live, Quiet, StoreInv, NamesDatabase
  <2>2. CASE ~Validate
    BY <1>4, <2>2, EndsInv DEF New, Inv, DeploymentTypeOK
  <2> QED  BY <2>1, <2>2
<1>5. CASE StartApp
  BY <1>5 DEF StartApp, Start, Inv, DeploymentTypeOK, ConfigTypeOK, TaskTypeOK, ProcStates,
              TaskInv, Live, Quiet, Sweeping, StoreInv, NamesDatabase
<1>6. CASE StopTask
  BY <1>6 DEF StopTask, Stop, Inv, DeploymentTypeOK, ConfigTypeOK, TaskTypeOK, ProcStates,
              TaskInv, Live, Quiet, Sweeping, Sending, Clearing, Returned, StoreInv, NamesDatabase
<1>7. CASE Exit
  BY <1>7, EndsInv DEF Exit, Inv, DeploymentTypeOK
<1>8. CASE BackgroundStep
  BY <1>8, TaskStepInv
<1>9. CASE readyz
  BY <1>9 DEF readyz, Inv, DeploymentTypeOK, ConfigTypeOK, TaskTypeOK, TaskInv, Live, Quiet,
              Sweeping, Sending, Clearing, Returned, StoreInv, NamesDatabase
<1>10. ASSUME NEW a \in Accesses, recordAccess(a) PROVE Inv'
  <2>1. NamesDatabase => conf.dsn # ""
    BY <1>10 DEF recordAccess, Inv, StoreInv, NamesDatabase
  <2>2. NamesDatabase => acked' \subseteq db'
    BY <1>10, <2>1 DEF recordAccess, StoreBackend, Inv, StoreInv
  <2>3. DeploymentTypeOK'
    <3>1. ConfigTypeOK' /\ TaskTypeOK'
      BY <1>10 DEF recordAccess, Inv, DeploymentTypeOK, ConfigTypeOK, TaskTypeOK
    <3>2. db' \subseteq Accesses /\ mem' \subseteq Accesses /\ acked' \subseteq Accesses
      BY <1>10 DEF recordAccess, Inv, DeploymentTypeOK
    <3> QED  BY <1>10, <3>1, <3>2 DEF recordAccess, Inv, DeploymentTypeOK
  <2> QED
    BY <1>10, <2>2, <2>3 DEF recordAccess, Inv, TaskInv, Live, Quiet, Sweeping, Sending,
              Clearing, Returned, StoreInv, NamesDatabase
<1>11. CASE Shutdown
  <2>1. restarts' \in 0..MaxRestarts
    BY <1>11 DEF Shutdown, Inv, DeploymentTypeOK
  <2>2. DeploymentTypeOK'
    BY <1>11, <2>1 DEF Shutdown, Inv, DeploymentTypeOK, ConfigTypeOK, TaskTypeOK, ProcStates
  <2> QED
    BY <1>11, <2>2 DEF Shutdown, Inv, TaskInv, Live, Quiet, Sweeping, StoreInv, NamesDatabase
<1>12. CASE Crash
  BY <1>12, EndsInv DEF Crash, Inv, DeploymentTypeOK
<1>13. ASSUME NEW f \in {"DSN", "KEY"}, SecretArrives(f) PROVE Inv'
  BY <1>13 DEF SecretArrives, AgentWrites, Inv, DeploymentTypeOK, ConfigTypeOK, TaskTypeOK,
              TaskInv, Live, Quiet, Sweeping, Sending, Clearing, Returned, StoreInv, NamesDatabase
<1>14. CASE DatabaseGoes \/ DatabaseReturns
  <2>1. outages' \in 0..MaxOutages
    BY <1>14 DEF DatabaseGoes, DatabaseReturns, Inv, DeploymentTypeOK
  <2>2. DeploymentTypeOK'
    <3>1. ConfigTypeOK' /\ TaskTypeOK'
      BY <1>14 DEF DatabaseGoes, DatabaseReturns, Inv, DeploymentTypeOK, ConfigTypeOK, TaskTypeOK
    <3> QED
      BY <1>14, <2>1, <3>1 DEF DatabaseGoes, DatabaseReturns, Inv, DeploymentTypeOK
  <2> QED
    BY <1>14, <2>2 DEF DatabaseGoes, DatabaseReturns, Inv, TaskInv, Live, Quiet, Sweeping,
              Sending, Clearing, Returned, StoreInv, NamesDatabase
<1>15. CASE UNCHANGED vars
  BY <1>15 DEF vars, Inv, DeploymentTypeOK, ConfigTypeOK, TaskTypeOK,
              TaskInv, Live, Quiet, Sweeping, Sending, Clearing, Returned, StoreInv, NamesDatabase
<1> QED
  BY <1>1, <1>2, <1>3, <1>4, <1>5, <1>6, <1>7, <1>8, <1>9, <1>10, <1>11, <1>12, <1>13,
     <1>14, <1>15 DEF Next, ProcessStep

\* The invariant holds in every reachable state.
LEMMA InvHolds == Spec => []Inv
BY InitInv, NextInv, PTL DEF Spec

-----------------------------------------------------------------------------
\* Types, and no goroutine of the retention task without a ticker: Stop sets
\* t.ticker to nil only after its send was received, which ends the loop.
THEOREM GoroutineKeepsTicker == Spec => []LoopHasTicker
<1>1. Inv => LoopHasTicker
  BY DEF Inv, LoopHasTicker, TaskInv, Live, Quiet, Sweeping, Sending, Clearing, Returned,
         DeploymentTypeOK, ProcStates
<1> QED  BY <1>1, InvHolds, PTL

\* When the deployment names a database, every acknowledged record is in it:
\* the in-memory store is never selected in its place.
THEOREM NoSilentFallback == Spec => []AckedDurable
<1>1. Inv => AckedDurable
  BY DEF Inv, AckedDurable, StoreInv
<1> QED  BY <1>1, InvHolds, PTL

-----------------------------------------------------------------------------
schedule == <<Phase, loop = "sweep">>

\* The task's steps are the schedule's beginnings and ends of sweeps; the
\* rendezvous with Stop and its return change nothing of it.
LEMMA TaskKeepsSchedule ==
    ASSUME Inv, BackgroundStep PROVE [Schedule!ScheduleNext]_schedule
<1> USE DEF BackgroundStep, schedule, Phase, Inv, TaskInv, Live, Quiet, Sweeping, Sending,
            Clearing, Returned
<1>1. CASE TickerFires    BY <1>1 DEF TickerFires
<1>2. CASE SweepEnds
  BY <1>2 DEF SweepEnds, Schedule!ScheduleNext, Schedule!Finish
<1>3. CASE TickReceived
  BY <1>3 DEF TickReceived, Schedule!ScheduleNext, Schedule!Begin
<1>4. CASE StopReceived   BY <1>4 DEF StopReceived
<1>5. CASE StopReturns    BY <1>5 DEF StopReturns
<1> QED  BY <1>1, <1>2, <1>3, <1>4, <1>5 DEF TaskStep

\* A step of the deployment is a step of the schedule or changes nothing of it.
LEMMA StepKeepsSchedule ==
    ASSUME Inv, [Next]_vars PROVE [Schedule!ScheduleNext]_schedule
<1> USE DEF Phase, schedule, configVars, dataVars, taskVars
<1>1. CASE Boot
  BY <1>1 DEF Boot, Down, Inv, TaskInv, Live, Quiet, Schedule!ScheduleNext, Schedule!Revives
<1>2. CASE ReadKey \/ ReadDSN
  BY <1>2 DEF ReadKey, ReadDSN
<1>3. CASE New
  BY <1>3 DEF New, ProcessEnds, Inv, TaskInv, Live, Quiet
<1>4. CASE StartApp
  BY <1>4 DEF StartApp, Start, Inv, TaskInv, Live, Quiet, Schedule!ScheduleNext, Schedule!Open
<1>5. CASE StopTask
  BY <1>5 DEF StopTask, Stop, Inv, TaskInv, Sweeping, Sending, Clearing, Returned,
              Schedule!ScheduleNext, Schedule!Close
<1>6. CASE Exit
  BY <1>6 DEF Exit, ProcessEnds, Inv, TaskInv, Sweeping, Sending, Clearing, Returned,
              Schedule!ScheduleNext, Schedule!Closed
<1>7. CASE BackgroundStep
  BY <1>7, TaskKeepsSchedule
<1>8. CASE readyz
  BY <1>8 DEF readyz
<1>9. ASSUME NEW a \in Accesses, recordAccess(a) PROVE [Schedule!ScheduleNext]_schedule
  BY <1>9 DEF recordAccess
<1>10. CASE Shutdown
  BY <1>10 DEF Shutdown
<1>11. CASE Crash
  BY <1>11 DEF Crash, ProcessEnds, Schedule!ScheduleNext, Schedule!Dies
<1>12. ASSUME NEW f \in {"DSN", "KEY"}, SecretArrives(f)
       PROVE [Schedule!ScheduleNext]_schedule
  BY <1>12 DEF SecretArrives
<1>13. CASE DatabaseGoes \/ DatabaseReturns
  BY <1>13 DEF DatabaseGoes, DatabaseReturns
<1>14. CASE UNCHANGED vars
  BY <1>14 DEF vars
<1> QED
  BY <1>1, <1>2, <1>3, <1>4, <1>5, <1>6, <1>7, <1>8, <1>9, <1>10, <1>11, <1>12, <1>13, <1>14
  DEF Next, ProcessStep

\* The background work keeps its schedule: one sweep at a time, none begun
\* once Stop has been called, and no sweep cut by an orderly exit, through
\* any number of starts, shutdowns and crashes.
THEOREM ScheduleKept == Spec => KeepsSchedule
<1>1. Init => Schedule!ScheduleInit
  BY DEF Init, NewRetentionTask, Schedule!ScheduleInit, Phase
<1>2. Spec => Schedule!ScheduleInit /\ [][Schedule!ScheduleNext]_schedule
  BY <1>1, InvHolds, StepKeepsSchedule, PTL DEF Spec
<1> QED
  BY <1>2 DEF KeepsSchedule, Schedule!ScheduleSpec, schedule
=============================================================================
