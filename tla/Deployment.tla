----------------------------- MODULE Deployment -----------------------------
(***************************************************************************)
(* A deployment of the service: a process that a supervisor (external)     *)
(* starts again whenever it has ended, a secrets agent that may be late, a *)
(* database that goes away and comes back, and the producers' records.     *)
(*                                                                         *)
(* Only the records of the database outlive a process.  A handler's store  *)
(* call is one step, whose answer may be lost.                             *)
(***************************************************************************)
EXTENDS Config, TaskLifecycle, Integers

CONSTANTS
    Accesses,       \* the records producers post
    MaxRestarts,    \* bound: crashes and shutdowns of a built process
    MaxOutages      \* bound: times the database goes away

ASSUME DeploymentAssumption ==
    /\ MaxRestarts \in Nat
    /\ MaxOutages \in Nat

VARIABLES
    proc,           \* the process: see ProcStates
    probe,          \* the last answer of /readyz: "none", "ready", "unavailable"
    dbUp,           \* whether the database can be reached
    db,             \* the records in the database
    mem,            \* the records in the process's in-memory store
    acked,          \* the records acknowledged to their producers
    restarts,       \* crashes and shutdowns so far
    outages         \* outages so far

dataVars == <<dbUp, db, mem, acked, outages>>

vars == <<configVars, taskVars, dataVars, proc, probe, restarts>>

ProcStates ==
    {"exited", "crashed", "key", "dsn", "bound", "built", "serving", "stopping"}

Down == proc \in {"exited", "crashed"}

DeploymentTypeOK ==
    /\ ConfigTypeOK
    /\ TaskTypeOK
    /\ proc \in ProcStates
    /\ probe \in {"none", "ready", "unavailable"}
    /\ dbUp \in BOOLEAN
    /\ db \subseteq Accesses
    /\ mem \subseteq Accesses
    /\ acked \subseteq Accesses
    /\ restarts \in 0..MaxRestarts
    /\ outages \in 0..MaxOutages

Init ==
    /\ ConfigInit
    /\ NewRetentionTask
    /\ proc = "exited"
    /\ probe = "none"
    /\ dbUp \in BOOLEAN
    /\ db = {} /\ mem = {} /\ acked = {}
    /\ restarts = 0 /\ outages = 0

-----------------------------------------------------------------------------
\* runWeb begins: New binds the configuration, one secret after the other.
Boot ==
    /\ Down
    /\ proc' = "key"
    /\ UNCHANGED <<configVars, taskVars, dataVars, probe, restarts>>

ReadKey ==
    /\ proc = "key"
    /\ BindKey
    /\ proc' = "dsn"
    /\ UNCHANGED <<taskVars, dataVars, probe, restarts>>

ReadDSN ==
    /\ proc = "dsn"
    /\ BindDSN
    /\ proc' = "bound"
    /\ UNCHANGED <<taskVars, dataVars, probe, restarts>>

\* What the process held in memory goes with it.
ProcessEnds(how) ==
    /\ proc' = how
    /\ conf' = NewConfiguration
    /\ mem' = {}
    /\ probe' = "none"
    /\ ticker' = "nil" /\ due' = FALSE /\ loop' = "none" /\ stopper' = "idle"
    /\ UNCHANGED <<environ, files, dbUp, db, acked, outages>>

\* New refuses the configuration, or builds the application: the sealer, the
\* store its DSN selects (a pool that connects when used), the task.
New ==
    /\ proc = "bound"
    /\ IF Validate
       THEN /\ proc' = "built"
            /\ UNCHANGED <<configVars, taskVars, dataVars, probe>>
       ELSE ProcessEnds("exited")
    /\ UNCHANGED restarts

\* Ping: the in-memory store is always there.
Ping == StoreBackend = "memory" \/ dbUp

\* A store that does not answer at start is logged and nothing more.
StartApp ==
    /\ proc = "built"
    /\ Start
    /\ proc' = "serving"
    /\ UNCHANGED <<configVars, dataVars, probe, restarts>>

-----------------------------------------------------------------------------
\* The record goes to the store the process runs on; the answer may be lost.
recordAccess(a) ==
    /\ proc = "serving"
    /\ a \notin acked
    /\ Ping
    /\ IF StoreBackend = "postgres"
       THEN db' = db \cup {a} /\ UNCHANGED mem
       ELSE mem' = mem \cup {a} /\ UNCHANGED db
    /\ acked' \in {acked, acked \cup {a}}
    /\ UNCHANGED <<configVars, taskVars, dbUp, outages, proc, probe, restarts>>

\* Mutant of readyz: the first answer is kept.
readyz_Kept ==
    /\ proc = "serving"
    /\ probe = "none"
    /\ probe' = IF Ping THEN "ready" ELSE "unavailable"
    /\ UNCHANGED <<configVars, taskVars, dataVars, proc, restarts>>

\* /readyz asks the store every time it is asked.
readyz ==
    /\ proc = "serving"
    /\ probe' = IF Ping THEN "ready" ELSE "unavailable"
    /\ UNCHANGED <<configVars, taskVars, dataVars, proc, restarts>>

\* The platform asks the process to end; it takes no more requests.
Shutdown ==
    /\ proc = "serving"
    /\ restarts < MaxRestarts
    /\ restarts' = restarts + 1
    /\ proc' = "stopping"
    /\ probe' = "none"
    /\ UNCHANGED <<configVars, taskVars, dataVars>>

StopTask ==
    /\ proc = "stopping"
    /\ Stop
    /\ UNCHANGED <<configVars, dataVars, proc, probe, restarts>>

\* The process ends once the task's Stop has returned.
Exit ==
    /\ proc = "stopping"
    /\ stopper = "returned"
    /\ ProcessEnds("exited")
    /\ UNCHANGED restarts

Crash ==
    /\ proc \in {"built", "serving", "stopping"}
    /\ restarts < MaxRestarts
    /\ restarts' = restarts + 1
    /\ ProcessEnds("crashed")

-----------------------------------------------------------------------------
BackgroundStep ==
    /\ TaskStep
    /\ UNCHANGED <<configVars, dataVars, proc, probe, restarts>>

SecretArrives(f) ==
    /\ AgentWrites(f)
    /\ UNCHANGED <<taskVars, dataVars, proc, probe, restarts>>

DatabaseGoes ==
    /\ dbUp
    /\ outages < MaxOutages
    /\ dbUp' = FALSE
    /\ outages' = outages + 1
    /\ UNCHANGED <<configVars, taskVars, db, mem, acked, proc, probe, restarts>>

DatabaseReturns ==
    /\ ~dbUp
    /\ dbUp' = TRUE
    /\ UNCHANGED <<configVars, taskVars, db, mem, acked, outages, proc, probe, restarts>>

\* What the process does by itself, in the order of runWeb.
ProcessStep ==
    \/ Boot
    \/ ReadKey
    \/ ReadDSN
    \/ New
    \/ StartApp
    \/ StopTask
    \/ Exit

Next ==
    \/ ProcessStep
    \/ BackgroundStep
    \/ readyz
    \/ \E a \in Accesses : recordAccess(a)
    \/ Shutdown
    \/ Crash
    \/ \E f \in {"DSN", "KEY"} : SecretArrives(f)
    \/ DatabaseGoes
    \/ DatabaseReturns

Spec == Init /\ [][Next]_vars

\* The process and its goroutine are scheduled, the interval ends, the
\* supervisor restarts and probes, the agent writes, the database comes back.
Fairness ==
    /\ WF_vars(ProcessStep)
    /\ WF_vars(BackgroundStep /\ TickerFires)
    /\ WF_vars(BackgroundStep /\ SweepEnds)
    /\ WF_vars(BackgroundStep /\ TickReceived)
    /\ WF_vars(BackgroundStep /\ (StopReceived \/ StopReturns))
    /\ WF_vars(readyz)
    /\ \A f \in {"DSN", "KEY"} : WF_vars(SecretArrives(f))
    /\ WF_vars(DatabaseReturns)

FairSpec == Spec /\ Fairness

-----------------------------------------------------------------------------
\* Every variable holds what the code's types and the model's bounds allow;
\* and a goroutine that may still look at t.ticker.C finds a ticker, although
\* Stop sets it to nil: the receive of the stop signal comes in between.
LoopHasTicker ==
    /\ DeploymentTypeOK
    /\ loop \in {"sweep", "select"} => ticker # "nil"

\* The deployment names a database, in its environment or as a secret file.
NamesDatabase == environ.DSN # "" \/ environ.DSN_FILE

\* A late secrets agent is waited for, never mistaken for "no database": when
\* the deployment names one, an acknowledged record is in the database, in
\* whatever order the file appears, the process restarts and the database
\* goes and comes back.
AckedDurable == NamesDatabase => acked \subseteq db

\* Where the process is in its schedule of sweeps.
Phase ==
    CASE proc = "crashed" -> "dead"
      [] proc # "crashed" /\ loop = "none" -> "off"
      [] proc # "crashed" /\ loop # "none" /\ stopper = "idle" -> "on"
      [] OTHER -> "closing"

Schedule == INSTANCE SweepSchedule WITH phase <- Phase, busy <- loop = "sweep"

\* The background work keeps its schedule: one sweep at a time, none begun
\* once Stop has been called, and no sweep cut by an orderly exit.
KeepsSchedule == Schedule!ScheduleSpec

\* A shutdown ends: Stop waits for at most the sweep that is under way.
ShutdownEnds == (proc = "stopping") ~> Down

\* The environment is one the service can start with, once its files exist.
WellConfigured ==
    /\ environ.rest
    /\ environ.KEY = "good" \/ (environ.KEY = "" /\ environ.KEY_FILE)

\* A deployment that is configured becomes ready and stays so once restarts
\* and outages cease, however late its secrets and its database were; one
\* that is not never serves.
ReadyIffConfigured ==
    /\ WellConfigured => <>[](probe = "ready")
    /\ ~WellConfigured => [](proc # "serving")

\* Sweeps go on for ever in a configured deployment: no tick, failed sweep or
\* restart leaves the service running without its background work.
SweepsRecur == WellConfigured => []<>(loop = "sweep")
=============================================================================
